--------------------------- MODULE SessionProofs ---------------------------
(***************************************************************************)
(* Theorems about WebSession, for any number of mailboxes, passwords,      *)
(* clients, requests, ticks and faults, and any lifetime of the tokens.    *)
(***************************************************************************)
EXTENDS WebSession, HttpProofs, SequenceTheorems, FiniteSetTheorems

\* Emails and passwords as the tables have them.
Stored == {Typed(a, "stored") : a \in Address}
Accepted == {p \in Password : PolicyAccepts(p)}
AccountRow == [email : Stored, password : Accepted]

\* What a slot of the API and a request of a browser can be.
Pair == [refresh : Nat, until : Nat]
CallState ==
    [pc : {"idle"}]
    \cup [pc : {"done"}, answer : [status : Nat, tokens : Pair]]
    \cup [pc : {"signUp"}, email : Stored, password : Accepted]
    \cup [pc : {"signIn"}, password : Accepted, account : Nat]
    \cup [pc : {"refresh", "signOut"}, session : Nat, seen : SessionRow]
    \cup [pc : {"change"}, account : Nat, password : Accepted]

CookieChange == [op : {"keep", "clear", "set"}, tokens : Pair]
RequestState ==
    [pc : {"idle", "signingIn", "signingOut"}]
    \cup [pc : {"send", "unauthorized", "refreshing", "retry"}, kind : Kind, tokens : Pair]
    \cup [pc : {"answer"}, set : CookieChange]

TablesType ==
    /\ accounts \in Seq(AccountRow)
    /\ customers = DOMAIN accounts
    /\ sessions \in Seq(SessionRow)
    /\ provedBy \in Seq(Password)
    /\ Len(provedBy) = Len(sessions)
    /\ lastToken \in Nat
    /\ spent \in [Token -> Nat]

CountsType ==
    /\ now \in 0..MaxClock
    /\ calls \in 0..MaxCalls
    /\ faults \in 0..MaxFaults

WorkType ==
    /\ call \in [Call -> CallState]
    /\ cookie \in Pair
    /\ req \in [Request -> RequestState]
    /\ flight \in [Token -> Request \cup {NoFlight}]

SessionTypes == TablesType /\ CountsType /\ WorkType

-----------------------------------------------------------------------------
(* Tokens that are still to come.                                           *)

\* Whoever may mint a token yet: a call that mints in its transaction, and a
\* request that may turn into a refresh without being sent again.  A slot can
\* be both when the connection of its last refresh broke.
CallMinters == {c \in Call : call[c].pc \in {"signUp", "signIn", "refresh"}}
RequestMinters == {r \in Request : req[r].pc \in {"send", "unauthorized"}}

\* Every request mints one token at most.
MintInv ==
    /\ IsFiniteSet(CallMinters) /\ IsFiniteSet(RequestMinters)
    /\ lastToken + Cardinality(CallMinters) + Cardinality(RequestMinters) <= calls + 1

-----------------------------------------------------------------------------
(* Who refreshes what.                                                      *)

\* An entry of the map belongs to a request that refreshes that token, and a
\* refresh in the API has an entry, unless its connection broke.
FlightInv ==
    /\ \A t \in Token :
          flight[t] # NoFlight =>
             /\ req[flight[t]].pc = "refreshing"
             /\ req[flight[t]].tokens.refresh = t
             /\ call[flight[t]].pc \in {"refresh", "done"}
             /\ call[flight[t]].pc = "refresh" => call[flight[t]].seen.hash = t
    /\ \A c \in Call :
          call[c].pc = "refresh" =>
             c \in Request /\ (flight[call[c].seen.hash] = c \/ call[c].seen.hash \in broken)
    /\ broken # {} => fate # {}

-----------------------------------------------------------------------------
(* Which tokens there are and where they are held.                          *)

Known(t) == t \in 1..lastToken

HeldInv ==
    /\ cookie = NoTokens \/ Known(cookie.refresh)
    /\ \A r \in Request :
          /\ req[r].pc \in {"send", "unauthorized", "refreshing", "retry"}
                => Known(req[r].tokens.refresh)
          /\ req[r].pc = "answer" /\ req[r].set.op = "set" => Known(req[r].set.tokens.refresh)
    /\ \A c \in Call :
          call[c].pc = "done" /\ call[c].answer.status = 200
             => Known(call[c].answer.tokens.refresh)

Reads(c) == call[c].pc \in {"refresh", "signOut"}

\* A token belongs to one session for good: to the row that has it and to the
\* copies of that row which requests hold in memory.
RowsInv ==
    /\ \A s \in DOMAIN sessions :
          Known(sessions[s].hash) /\ sessions[s].account \in DOMAIN accounts
    /\ \A s, z \in DOMAIN sessions : sessions[s].hash = sessions[z].hash => s = z
    /\ \A t \in superseded : Known(t)
    /\ \A t \in Token : t > lastToken => spent[t] = 0

CopiesInv ==
    /\ \A c \in Call : Reads(c) =>
          /\ call[c].session \in DOMAIN sessions
          /\ call[c].seen.account = sessions[call[c].session].account
          /\ Known(call[c].seen.hash)
          /\ \A s \in DOMAIN sessions :
                sessions[s].hash = call[c].seen.hash => s = call[c].session
    /\ \A c, d \in Call :
          Reads(c) /\ Reads(d) /\ call[c].seen.hash = call[d].seen.hash
             => call[c].session = call[d].session
    /\ \A c \in Call : call[c].pc \in {"signIn", "change"} => call[c].account \in DOMAIN accounts

\* A token that bought a new one is held by no row that can be renewed, and by
\* no copy of one but those of a refresh whose connection broke.
SpentInv ==
    /\ TokenSpentOnce
    /\ \A s \in DOMAIN sessions : spent[sessions[s].hash] > 0 => sessions[s].revoked
    /\ \A c \in Call :
          call[c].pc = "refresh" /\ spent[call[c].seen.hash] > 0
             => call[c].seen.revoked \/ call[c].seen.hash \in broken

-----------------------------------------------------------------------------
(* A browser whom nothing befell.                                           *)

\* A token that replaces the cookie's is on its way to the browser.
Renewing(r) ==
    \/ /\ req[r].pc = "refreshing"
       /\ flight[req[r].tokens.refresh] = r
       /\ call[r].pc = "done"
       /\ call[r].answer.status = 200
    \/ req[r].pc = "retry"
    \/ req[r].pc = "answer" /\ req[r].set.op = "set"

\* No copy of a row is older than a rotation, so that every token is on its
\* row until it is spent and a refusal means that the session has ended.
Undisturbed ==
    /\ \A c \in Call :
          /\ call[c].pc # "signOut"
          /\ call[c].pc = "refresh" =>
                sessions[call[c].session] \in {call[c].seen, Revoked(call[c].seen)}
    /\ \A t \in 1..lastToken : spent[t] > 0 \/ SessionsWith(t) # {}

\* The session of the token was revoked or has expired.
Ended(t) == \E s \in SessionsWith(t) : ~Active(sessions[s], now)

\* The session has ended, nothing was bought with the token, and no request
\* holds a copy of the row that is still good for it.
Refused(t) ==
    /\ Ended(t)
    /\ spent[t] = 0
    /\ \A c \in Call :
          call[c].pc = "refresh" /\ call[c].seen.hash = t => ~Active(call[c].seen, now)

Clearing(x) == x.pc = "answer" /\ x.set.op = "clear"

\* A refusal that is on its way back to a browser was right, from the API to
\* the BFF and from there on.
RefusedRightly ==
    /\ \A t \in Token :
          /\ flight[t] # NoFlight
          /\ call[flight[t]].pc = "done"
          /\ call[flight[t]].answer.status \notin {200, 500}
          => Refused(t)
    /\ \A r \in Request :
          /\ req[r].pc # "signingOut"
          /\ Clearing(req[r]) => /\ req[r].set.tokens.refresh \in Token
                                /\ Refused(req[r].set.tokens.refresh)

\* A token is unspent until its refresh has succeeded.
Unspent ==
    \A t \in Token :
        flight[t] # NoFlight =>
           \/ spent[t] = 0
           \/ call[flight[t]].pc = "done" /\ call[flight[t]].answer.status = 200

\* A cookie that was used up is about to be replaced.
CookieRenewed == cookie # NoTokens /\ spent[cookie.refresh] > 0 => \E r \in Request : Renewing(r)

Served == ~lost /\ RefusedRightly /\ Unspent /\ CookieRenewed

CauseInv == fate = {} => Undisturbed /\ Served

SessionInv ==
    /\ SessionTypes
    /\ MintInv
    /\ FlightInv
    /\ HeldInv
    /\ RowsInv
    /\ CopiesInv
    /\ OneAccountPerEmail
    /\ SupersededStaysDead
    /\ OnlyRacesOutliveAChange
    /\ SpentInv
    /\ CauseInv

-----------------------------------------------------------------------------
(* Who writes what.                                                         *)

tables == <<accounts, customers, sessions, lastToken, provedBy, raced, superseded, spent>>

\* The steps of clients of the API that are no browser.
Asks(c) ==
    \/ \E m \in Email, p \in Password : BeginSignUp(c, m, p)
    \/ \E a \in DOMAIN accounts, p \in Password : BeginChange(c, a, p)

\* A step of the BFF, or of another client, that sends a request writes no table.
LEMMA SendersLeaveTables ==
    /\ \A c \in Device : DeviceStep(c) => UNCHANGED <<tables, now, faults>>
    /\ \A r \in Request : RequestStep(r) => UNCHANGED <<tables, now, faults, calls>>
    /\ \A r \in Request : Browse(r) => UNCHANGED <<tables, now>>
  <1>1. ASSUME NEW c \in Device, DeviceStep(c) PROVE UNCHANGED <<tables, now, faults>>
    BY <1>1 DEF DeviceStep, tables, BeginSignUp, BeginChange, Start, TakeAnswer
  <1>2. ASSUME NEW r \in Request, RequestStep(r) PROVE UNCHANGED <<tables, now, faults, calls>>
    BY <1>2 DEF RequestStep, tables, sessionVars, Send, Refresh, Settle, Drop, Retry, SignedIn,
                SignedOut, Respond, TakeAnswer
  <1>3. ASSUME NEW r \in Request, Browse(r) PROVE UNCHANGED <<tables, now>>
    BY <1>3 DEF Browse, tables, Arrive, Counted, SubmitSignIn, BeginSignIn, SubmitSignOut,
                BeginSignOut, Start, Break, BreakSigning
  <1> QED
    BY <1>1, <1>2, <1>3

\* Only the second step of a request of the API writes the tables, and it
\* leaves all that belongs to the BFF alone.
LEMMA TablesWriters ==
    ASSUME [WebNext]_allVars
    PROVE  UNCHANGED tables \/ \E c \in Call : FinishCall(c) /\ UNCHANGED webVars
  <1>1. UNCHANGED allVars \/ Tick => UNCHANGED tables
    BY DEF allVars, sessionVars, tables, Tick
  <1>2. \A c \in Call : FailCall(c) => UNCHANGED tables
    BY DEF FailCall, tables
  <1> QED
    BY <1>1, <1>2, SendersLeaveTables DEF WebNext

\* Only the clock ticks, and no other step counts requests or faults but
\* those that send one and those that fail.
LEMMA CountWriters ==
    ASSUME [WebNext]_allVars
    PROVE  /\ now' = now \/ (now < MaxClock /\ now' = now + 1)
           /\ calls' = calls \/ (calls < MaxCalls /\ calls' = calls + 1)
           /\ faults' = faults \/ (faults < MaxFaults /\ faults' = faults + 1)
  <1> DEFINE Goal == /\ now' = now \/ (now < MaxClock /\ now' = now + 1)
                     /\ calls' = calls \/ (calls < MaxCalls /\ calls' = calls + 1)
                     /\ faults' = faults \/ (faults < MaxFaults /\ faults' = faults + 1)
  <1>1. UNCHANGED allVars \/ Tick => Goal
    BY DEF allVars, sessionVars, Tick
  <1>2. \A c \in Call : FinishCall(c) => UNCHANGED <<now, calls, faults>>
    BY DEF FinishCall, FinishSignUp, FinishSignIn, FinishRefresh, FinishSignOut, FinishChange
  <1>3. \A c \in Call : FailCall(c) => Goal
    BY DEF FailCall
  <1>4. ASSUME NEW c \in Device, DeviceStep(c) PROVE calls' = calls \/ (calls < MaxCalls /\ calls' = calls + 1)
    BY <1>4 DEF DeviceStep, BeginSignUp, BeginChange, Start, Free, TakeAnswer
  <1>5. ASSUME NEW r \in Request, Browse(r)
        PROVE  /\ calls' = calls \/ (calls < MaxCalls /\ calls' = calls + 1)
               /\ faults' = faults \/ (faults < MaxFaults /\ faults' = faults + 1)
    BY <1>5 DEF Browse, Arrive, Counted, SubmitSignIn, BeginSignIn, SubmitSignOut,
                BeginSignOut, Start, Free, Break, BreakSigning
  <1> QED
    BY <1>1, <1>2, <1>3, <1>4, <1>5, SendersLeaveTables DEF WebNext

\* Only these steps change what a slot of the API does.
LEMMA CallWriters ==
    ASSUME [WebNext]_allVars
    PROVE  \/ call' = call
           \/ \E c \in Device : (Asks(c) \/ TakeAnswer(c)) /\ UNCHANGED webVars
           \/ \E c \in Call : (FinishCall(c) \/ FailCall(c)) /\ UNCHANGED webVars
           \/ \E r \in Request :
                 \/ Refresh(r) \/ Settle(r) \/ Drop(r) \/ SignedIn(r) \/ SignedOut(r)
                 \/ \E m \in Email, p \in Password : SubmitSignIn(r, m, p)
                 \/ SubmitSignOut(r)
  BY DEF WebNext, allVars, sessionVars, DeviceStep, Asks, Tick, RequestStep, Browse, Send,
         Retry, Respond, Arrive, Counted, Break, BreakSigning

\* Only the BFF changes what its requests do, and which of them refreshes.
LEMMA RequestWriters ==
    ASSUME [WebNext]_allVars
    PROVE  \/ req' = req
           \/ \E r \in Request : RequestStep(r) \/ Browse(r)
  BY DEF WebNext, allVars, webVars

\* Only a refresh that begins or ends changes the map of refreshes in flight.
LEMMA FlightWriters ==
    ASSUME [WebNext]_allVars
    PROVE  \/ flight' = flight
           \/ \E r \in Request : Refresh(r) \/ Settle(r) \/ Break(r)
  <1>1. ASSUME NEW r \in Request, RequestStep(r)
        PROVE  flight' = flight \/ Refresh(r) \/ Settle(r)
    BY <1>1 DEF RequestStep, Send, Drop, Retry, SignedIn, SignedOut, Respond, webVars
  <1>2. ASSUME NEW r \in Request, Browse(r)
        PROVE  flight' = flight \/ Break(r)
    BY <1>2 DEF Browse, Arrive, SubmitSignIn, SubmitSignOut, BreakSigning
  <1> QED
    BY <1>1, <1>2 DEF WebNext, allVars, webVars

\* Only an answer that reaches the browser changes its cookie.
LEMMA CookieWriters ==
    ASSUME [WebNext]_allVars
    PROVE  cookie' = cookie \/ \E r \in Request : Respond(r)
  <1>1. ASSUME NEW r \in Request, RequestStep(r) PROVE cookie' = cookie \/ Respond(r)
    BY <1>1 DEF RequestStep, Send, Refresh, Settle, Drop, Retry, SignedIn, SignedOut, webVars
  <1>2. ASSUME NEW r \in Request, Browse(r) PROVE cookie' = cookie
    BY <1>2 DEF Browse, Arrive, SubmitSignIn, SubmitSignOut, Break, BreakSigning
  <1> QED
    BY <1>1, <1>2 DEF WebNext, allVars, webVars

\* What befell the browser is never forgotten, nor which refreshes went on
\* unheard; it loses a session when an answer arrives.
LEMMA FateWriters ==
    ASSUME [WebNext]_allVars
    PROVE  /\ fate' = {} => fate = {}
           /\ broken \subseteq broken'
           /\ broken' # broken => fate' # {}
           /\ lost' = lost \/ \E r \in Request : Respond(r)
  <1> DEFINE Kept == /\ fate' = {} => fate = {}
                     /\ broken \subseteq broken'
                     /\ broken' # broken => fate' # {}
  <1>1. ASSUME NEW r \in Request, RequestStep(r)
        PROVE  Kept /\ (lost' = lost \/ Respond(r))
    <2> DEFINE Goal == Kept /\ (lost' = lost \/ Respond(r))
    <2>1. ASSUME Send(r) \/ SignedIn(r) \/ SignedOut(r) PROVE Goal
      BY <2>1 DEF Send, SignedIn, SignedOut
    <2>2. ASSUME Refresh(r) PROVE Goal
      BY <2>2 DEF Refresh
    <2>3. ASSUME Settle(r) PROVE Goal
      BY <2>3 DEF Settle
    <2>4. ASSUME Retry(r) PROVE Goal
      BY <2>4 DEF Retry
    <2>5. ASSUME Respond(r) PROVE Goal
      BY <2>5 DEF Respond
    <2>6. ASSUME Drop(r) PROVE Goal
      BY <2>6 DEF Drop, webVars
    <2> HIDE DEF Goal
    <2>7. Goal
      BY <1>1, <2>1, <2>2, <2>3, <2>4, <2>5, <2>6 DEF RequestStep
    <2> QED
      BY <2>7 DEF Goal
  <1>2. ASSUME NEW r \in Request, Browse(r) PROVE Kept /\ lost' = lost
    <2>1. ASSUME Break(r) \/ BreakSigning(r) PROVE Kept /\ lost' = lost
      <3>1. "error" \in fate' /\ broken \subseteq broken' /\ lost' = lost
        BY <2>1 DEF Break, BreakSigning
      <3> QED
        BY <3>1
    <2> QED
      BY <1>2, <2>1 DEF Browse, Arrive, SubmitSignIn, SubmitSignOut
  <1>3. UNCHANGED webVars => Kept /\ lost' = lost
    BY DEF webVars
  <1> HIDE DEF Kept
  <1>4. Kept /\ (lost' = lost \/ \E r \in Request : Respond(r))
    <2>1. UNCHANGED webVars \/ \E r \in Request : RequestStep(r) \/ Browse(r)
      BY DEF WebNext, allVars
    <2> QED
      BY <1>1, <1>2, <1>3, <2>1
  <1> QED
    BY <1>4 DEF Kept

-----------------------------------------------------------------------------
(* Types.                                                                   *)

\* Every slot has the fields that go with its pc.
LEMMA CallFields ==
    ASSUME NEW x \in CallState
    PROVE  /\ x.pc \in {"idle", "done", "signUp", "signIn", "refresh", "signOut", "change"}
           /\ x.pc = "done" => x.answer \in [status : Nat, tokens : Pair]
           /\ x.pc = "signUp" => x.email \in Stored /\ x.password \in Accepted
           /\ x.pc = "signIn" => x.password \in Accepted /\ x.account \in Nat
           /\ x.pc \in {"refresh", "signOut"} => x.session \in Nat /\ x.seen \in SessionRow
           /\ x.pc = "change" => x.account \in Nat /\ x.password \in Accepted
  BY DEF CallState

\* And so has every request.
LEMMA RequestFields ==
    ASSUME NEW x \in RequestState
    PROVE  /\ x.pc \in {"idle", "signingIn", "signingOut", "send", "unauthorized",
                        "refreshing", "retry", "answer"}
           /\ x.pc \in {"send", "unauthorized", "refreshing", "retry"}
                => x.kind \in Kind /\ x.tokens \in Pair
           /\ x.pc = "answer" => x.set \in CookieChange
  BY DEF RequestState

\* Answers are answers: a status and two tokens.
LEMMA AnswersAreStates ==
    /\ NoTokens \in Pair
    /\ Idle \in CallState /\ Idle \in RequestState
    /\ \A status \in Nat, tokens \in Pair : Done(Answer(status, tokens)) \in CallState
    /\ \A e : Refusal(e) = Answer(Resolve(e).status, NoTokens) /\ Resolve(e).status \in Refusals
    /\ \A e : Done(Refusal(e)) \in CallState
    /\ Done(Broken) \in CallState
    /\ \A set \in CookieChange : Answering(set) \in RequestState
    /\ \A tokens \in Pair : Set(tokens) \in CookieChange /\ Clear(tokens) \in CookieChange
    /\ Keep \in CookieChange
  <1>1. NoTokens \in Pair
    BY DEF NoTokens, NoToken, Tokens, Pair
  <1>2. \A status \in Nat, tokens \in Pair : Done(Answer(status, tokens)) \in CallState
    BY DEF Done, Answer, CallState
  <1>3. \A e : Refusal(e) = Answer(Resolve(e).status, NoTokens) /\ Resolve(e).status \in Refusals
    BY RefusalAnswers DEF Refusal
  <1>4. Refusals \subseteq Nat /\ 500 \in Nat
    BY DEF Refusals
  <1>5. \A e : Done(Refusal(e)) \in CallState
    BY <1>1, <1>2, <1>3, <1>4
  <1>6. Done(Broken) \in CallState
    BY <1>1, <1>2, <1>4 DEF Broken, Internal
  <1>7. Idle \in CallState /\ Idle \in RequestState
    BY DEF Idle, CallState, RequestState
  <1>8. \A set \in CookieChange : Answering(set) \in RequestState
    BY DEF Answering, RequestState
  <1>9. /\ \A tokens \in Pair : Set(tokens) \in CookieChange /\ Clear(tokens) \in CookieChange
        /\ Keep \in CookieChange
    BY <1>1 DEF Set, Keep, Clear, CookieChange
  <1> QED
    BY <1>1, <1>2, <1>3, <1>5, <1>6, <1>7, <1>8, <1>9

\* Whoever may mint a token finds one that nobody has had.
LEMMA FreshToken ==
    ASSUME SessionTypes, MintInv, CallMinters # {}
    PROVE  Fresh \in Token /\ Fresh = lastToken + 1
  <1>1. PICK c : c \in CallMinters
    OBVIOUS
  <1>2. /\ Cardinality(CallMinters) = Cardinality(CallMinters \ {c}) + 1
        /\ Cardinality(CallMinters \ {c}) \in Nat
    <2>1. IsFiniteSet(CallMinters)
      BY DEF MintInv
    <2>2. /\ IsFiniteSet(CallMinters \ {c})
          /\ Cardinality(CallMinters \ {c}) = Cardinality(CallMinters) - 1
      BY <1>1, <2>1, FS_RemoveElement
    <2>3. Cardinality(CallMinters) \in Nat /\ Cardinality(CallMinters \ {c}) \in Nat
      BY <2>1, <2>2, FS_CardinalityType
    <2> QED
      BY <2>2, <2>3
  <1>3. lastToken \in Nat /\ calls \in Nat /\ MaxCalls \in Nat /\ calls <= MaxCalls
    BY SessionsAssumption DEF SessionTypes, TablesType, CountsType
  <1>4. Cardinality(RequestMinters) \in Nat
    BY FS_CardinalityType DEF MintInv
  <1>5. lastToken + 1 <= calls + 1
    BY <1>2, <1>3, <1>4 DEF MintInv
  <1> QED
    BY <1>3, <1>5 DEF Fresh, Token

\* The rows that the API inserts and saves are rows.
LEMMA RowsAreRows ==
    ASSUME NEW account \in Nat \ {0}, NEW hash \in Token, NEW at \in Nat, NEW row \in SessionRow
    PROVE  /\ Issued(account, hash, at, RefreshTtl) \in SessionRow
           /\ Issued(account, hash, at, RefreshTtl).account = account
           /\ Issued(account, hash, at, RefreshTtl).hash = hash
           /\ Issued(account, hash, at, RefreshTtl).revoked = FALSE
           /\ Rotated(row, hash, at, RefreshTtl) \in SessionRow
           /\ Rotated(row, hash, at, RefreshTtl).account = row.account
           /\ Rotated(row, hash, at, RefreshTtl).hash = hash
           /\ Rotated(row, hash, at, RefreshTtl).revoked = row.revoked
           /\ Revoked(row) \in SessionRow
           /\ Revoked(row).account = row.account
           /\ Revoked(row).hash = row.hash
           /\ Revoked(row).revoked = TRUE
  <1>1. RefreshTtl \in Nat
    BY SessionsAssumption
  <1> QED
    BY <1>1 DEF Issued, Rotated, Revoked, Row, SessionRow

\* What is minted is a pair of tokens.
LEMMA NewPair ==
    ASSUME SessionTypes
    PROVE  NewTokens \in Pair /\ NewTokens.refresh = Fresh
  <1>1. AccessTtl \in Nat /\ now \in Nat /\ Fresh \in Nat
    BY SessionsAssumption DEF SessionTypes, TablesType, CountsType, Fresh
  <1> QED
    BY <1>1 DEF NewTokens, Tokens, Pair

-----------------------------------------------------------------------------
(* What a step does to the tables, row by row.                              *)

\* A session of the account, proved by the password, gets the next id.
Opens(account, password) ==
    /\ sessions' \in Seq(SessionRow)
    /\ provedBy' \in Seq(Password)
    /\ Len(provedBy') = Len(sessions')
    /\ DOMAIN sessions' = DOMAIN sessions \cup {Len(sessions) + 1}
    /\ Len(sessions) + 1 \notin DOMAIN sessions
    /\ \A s \in DOMAIN sessions : sessions'[s] = sessions[s] /\ provedBy'[s] = provedBy[s]
    /\ sessions'[Len(sessions) + 1] = Issued(account, Fresh, now, RefreshTtl)
    /\ provedBy'[Len(sessions) + 1] = password
    /\ lastToken' = Fresh
    /\ UNCHANGED <<superseded, spent>>

\* A request saves its copy of a session, changed.
Saves(c, row) ==
    /\ sessions' \in Seq(SessionRow)
    /\ DOMAIN sessions' = DOMAIN sessions
    /\ sessions'[call[c].session] = row
    /\ \A s \in DOMAIN sessions : s # call[c].session => sessions'[s] = sessions[s]
    /\ raced' = IF sessions[call[c].session] = call[c].seen THEN raced
                ELSE raced \cup {call[c].session}
    /\ superseded' = superseded \cup ({sessions[call[c].session].hash} \ {row.hash})
    /\ UNCHANGED <<accounts, customers, provedBy>>

SignsUp(c) ==
    /\ call[c].pc = "signUp"
    /\ ~EmailTaken(call[c].email)
    /\ accounts' \in Seq(AccountRow)
    /\ DOMAIN accounts' = DOMAIN accounts \cup {Len(accounts) + 1}
    /\ Len(accounts) + 1 \notin DOMAIN accounts
    /\ \A a \in DOMAIN accounts : accounts'[a] = accounts[a]
    /\ accounts'[Len(accounts) + 1].email = call[c].email
    /\ accounts'[Len(accounts) + 1].password = call[c].password
    /\ customers' = customers \cup {Len(accounts) + 1}
    /\ Len(accounts) + 1 \in Nat \ {0}
    /\ Opens(Len(accounts) + 1, call[c].password)
    /\ UNCHANGED raced
    /\ Reply(c, Minted(NewTokens))

SignsIn(c) ==
    /\ call[c].pc = "signIn"
    /\ UNCHANGED <<accounts, customers>>
    /\ Opens(call[c].account, call[c].password)
    /\ raced' = IF accounts[call[c].account].password = call[c].password THEN raced
                ELSE raced \cup {Len(sessions) + 1}
    /\ Reply(c, Minted(NewTokens))

Rotates(c) ==
    /\ call[c].pc = "refresh"
    /\ Active(call[c].seen, now)
    /\ Saves(c, Rotated(call[c].seen, Fresh, now, RefreshTtl))
    /\ lastToken' = Fresh
    /\ spent' = [spent EXCEPT ![call[c].seen.hash] = @ + 1]
    /\ Reply(c, Minted(NewTokens))

SignsOut(c) ==
    /\ call[c].pc = "signOut"
    /\ Saves(c, Revoked(call[c].seen))
    /\ UNCHANGED <<lastToken, spent>>
    /\ Reply(c, Answer(204, NoTokens))

Changes(c) ==
    /\ call[c].pc = "change"
    /\ accounts' \in Seq(AccountRow)
    /\ DOMAIN accounts' = DOMAIN accounts
    /\ \A a \in DOMAIN accounts : accounts'[a].email = accounts[a].email
    /\ \A a \in DOMAIN accounts : a # call[c].account => accounts'[a] = accounts[a]
    /\ sessions' \in Seq(SessionRow)
    /\ DOMAIN sessions' = DOMAIN sessions
    /\ \A s \in DOMAIN sessions :
          sessions'[s] = IF sessions[s].account = call[c].account THEN Revoked(sessions[s])
                         ELSE sessions[s]
    /\ UNCHANGED <<customers, lastToken, provedBy, raced, superseded, spent>>
    /\ Reply(c, Answer(204, NoTokens))


\* A row inserted at the end gets the next id, and the others keep theirs.
LEMMA Inserted ==
    ASSUME NEW S, NEW list \in Seq(S), NEW row \in S
    PROVE  /\ Append(list, row) \in Seq(S)
           /\ Len(Append(list, row)) = Len(list) + 1
           /\ DOMAIN Append(list, row) = DOMAIN list \cup {Len(list) + 1}
           /\ Len(list) + 1 \notin DOMAIN list
           /\ Len(list) + 1 \in Nat \ {0}
           /\ \A k \in DOMAIN list : Append(list, row)[k] = list[k]
           /\ Append(list, row)[Len(list) + 1] = row
  <1>1. Len(list) \in Nat /\ DOMAIN list = 1..Len(list)
    OBVIOUS
  <1>2. /\ Append(list, row) \in Seq(S)
        /\ Len(Append(list, row)) = Len(list) + 1
        /\ \A k \in 1..Len(list) : Append(list, row)[k] = list[k]
        /\ Append(list, row)[Len(list) + 1] = row
    BY AppendProperties
  <1>3. DOMAIN Append(list, row) = 1..(Len(list) + 1)
    BY <1>2
  <1> QED
    BY <1>1, <1>2, <1>3

\* One row of a table is written.
LEMMA Written ==
    ASSUME NEW S, NEW list \in Seq(S), NEW k \in DOMAIN list, NEW row \in S
    PROVE  /\ [list EXCEPT ![k] = row] \in Seq(S)
           /\ DOMAIN [list EXCEPT ![k] = row] = DOMAIN list
           /\ [list EXCEPT ![k] = row][k] = row
           /\ \A z \in DOMAIN list : z # k => [list EXCEPT ![k] = row][z] = list[z]
  BY ExceptSeq

\* Tokens, rows and accounts that stand in a table.
LEMMA InTables ==
    ASSUME SessionTypes
    PROVE  /\ \A s \in DOMAIN sessions :
                 /\ sessions[s] \in SessionRow
                 /\ sessions[s].account \in Nat \ {0}
                 /\ sessions[s].hash \in Token
                 /\ sessions[s].until \in Nat
                 /\ sessions[s].revoked \in BOOLEAN
           /\ \A a \in DOMAIN accounts :
                 /\ accounts[a] \in AccountRow
                 /\ accounts[a].email \in Stored
                 /\ accounts[a].password \in Accepted
           /\ DOMAIN accounts \subseteq Nat \ {0}
           /\ DOMAIN sessions \subseteq Nat \ {0}
           /\ DOMAIN provedBy = DOMAIN sessions
           /\ now \in Nat
           /\ Accepted \subseteq Password
           /\ \A row \in SessionRow : row.account \in Nat \ {0} /\ row.hash \in Token
                                      /\ row.until \in Nat /\ row.revoked \in BOOLEAN
  <1>1. /\ accounts \in Seq(AccountRow) /\ sessions \in Seq(SessionRow)
        /\ provedBy \in Seq(Password) /\ Len(provedBy) = Len(sessions)
    BY DEF SessionTypes, TablesType
  <1>2. /\ \A s \in DOMAIN sessions : sessions[s] \in SessionRow
        /\ \A a \in DOMAIN accounts : accounts[a] \in AccountRow
        /\ DOMAIN accounts \subseteq Nat \ {0}
        /\ DOMAIN sessions \subseteq Nat \ {0}
        /\ DOMAIN provedBy = DOMAIN sessions
    <2>1. /\ DOMAIN accounts = 1..Len(accounts) /\ Len(accounts) \in Nat
          /\ DOMAIN sessions = 1..Len(sessions) /\ Len(sessions) \in Nat
          /\ DOMAIN provedBy = 1..Len(provedBy)
      BY <1>1
    <2> QED
      BY <1>1, <2>1
  <1>3. \A row \in SessionRow : row.account \in Nat \ {0} /\ row.hash \in Token
                                /\ row.until \in Nat /\ row.revoked \in BOOLEAN
    BY DEF SessionRow
  <1>4. \A row \in AccountRow : row.email \in Stored /\ row.password \in Accepted
    BY DEF AccountRow
  <1>5. now \in Nat /\ Accepted \subseteq Password
    BY SessionsAssumption DEF SessionTypes, CountsType, Accepted
  <1> QED
    BY <1>2, <1>3, <1>4, <1>5

\* The state of a slot has its fields.
LEMMA InSlots ==
    ASSUME SessionTypes, NEW c \in Call
    PROVE  /\ call[c] \in CallState
           /\ call[c].pc \in {"idle", "done", "signUp", "signIn", "refresh", "signOut", "change"}
           /\ call[c].pc = "done" => call[c].answer \in [status : Nat, tokens : Pair]
           /\ call[c].pc = "signUp" => call[c].email \in Stored /\ call[c].password \in Accepted
           /\ call[c].pc = "signIn" => call[c].password \in Accepted /\ call[c].account \in Nat
           /\ call[c].pc \in {"refresh", "signOut"}
                => call[c].session \in Nat /\ call[c].seen \in SessionRow
           /\ call[c].pc = "change" => call[c].account \in Nat /\ call[c].password \in Accepted
  <1>1. call[c] \in CallState
    BY DEF SessionTypes, WorkType
  <1> QED
    BY <1>1, CallFields

\* A session that is opened is inserted with the next token.
LEMMA Opening ==
    ASSUME SessionTypes, MintInv, CallMinters # {}, NEW account \in Nat \ {0},
           NEW password \in Accepted, Open(account, password), UNCHANGED <<superseded, spent>>
    PROVE  Opens(account, password)
  <1>1. Fresh \in Token /\ now \in Nat /\ Accepted \subseteq Password
    BY FreshToken, InTables
  <1> DEFINE row == Issued(account, Fresh, now, RefreshTtl)
  <1>2. row \in SessionRow
    BY <1>1, SessionsAssumption DEF Issued, Row, SessionRow
  <1>3. sessions \in Seq(SessionRow) /\ provedBy \in Seq(Password) /\ Len(provedBy) = Len(sessions)
    BY DEF SessionTypes, TablesType
  <1>4. /\ sessions' = Append(sessions, row)
        /\ provedBy' = Append(provedBy, password)
        /\ lastToken' = Fresh
    BY DEF Open
  <1> HIDE DEF row
  <1>5. /\ sessions' \in Seq(SessionRow)
        /\ Len(sessions') = Len(sessions) + 1
        /\ DOMAIN sessions' = DOMAIN sessions \cup {Len(sessions) + 1}
        /\ Len(sessions) + 1 \notin DOMAIN sessions
        /\ \A s \in DOMAIN sessions : sessions'[s] = sessions[s]
        /\ sessions'[Len(sessions) + 1] = row
    BY <1>2, <1>3, <1>4, Inserted
  <1>6. /\ provedBy' \in Seq(Password)
        /\ Len(provedBy') = Len(provedBy) + 1
        /\ \A s \in DOMAIN provedBy : provedBy'[s] = provedBy[s]
        /\ provedBy'[Len(provedBy) + 1] = password
    BY <1>1, <1>3, <1>4, Inserted
  <1>7. DOMAIN provedBy = DOMAIN sessions
    BY <1>3
  <1> QED
    BY <1>3, <1>4, <1>5, <1>6, <1>7 DEF Opens, row

\* A copy of a session that is saved replaces its row.
LEMMA Saving ==
    ASSUME SessionTypes, CopiesInv, NEW c \in Call, Reads(c), NEW row \in SessionRow,
           Save(call[c].session, call[c].seen, row), UNCHANGED <<accounts, customers, provedBy>>
    PROVE  Saves(c, row)
  <1>1. call[c].session \in DOMAIN sessions
    BY DEF CopiesInv
  <1>2. sessions \in Seq(SessionRow)
    BY DEF SessionTypes, TablesType
  <1>3. sessions' = [sessions EXCEPT ![call[c].session] = row]
    BY DEF Save
  <1>4. /\ sessions' \in Seq(SessionRow)
        /\ DOMAIN sessions' = DOMAIN sessions
        /\ sessions'[call[c].session] = row
        /\ \A z \in DOMAIN sessions : z # call[c].session => sessions'[z] = sessions[z]
    BY <1>1, <1>2, <1>3, Written
  <1> QED
    BY <1>4 DEF Saves, Save

\* The second step of a request of the API writes nothing and refuses, or it
\* does one of the five things that the endpoints are there for.
LEMMA Finishes ==
    ASSUME SessionTypes, MintInv, CopiesInv, NEW c \in Call, FinishCall(c)
    PROVE  \/ /\ UNCHANGED tables
              /\ call[c].pc \in {"signUp", "refresh"}
              /\ call[c].pc = "refresh" => ~Active(call[c].seen, now)
              /\ \E e : Reply(c, Refusal(e))
           \/ SignsUp(c) \/ SignsIn(c) \/ Rotates(c) \/ SignsOut(c) \/ Changes(c)
  <1> DEFINE Refusing == /\ UNCHANGED tables
                         /\ call[c].pc \in {"signUp", "refresh"}
                         /\ call[c].pc = "refresh" => ~Active(call[c].seen, now)
                         /\ \E e : Reply(c, Refusal(e))
  <1>1. ASSUME FinishSignUp(c) PROVE Refusing \/ SignsUp(c)
    <2>1. /\ call[c].pc = "signUp"
          /\ call[c].email \in Stored /\ call[c].password \in Accepted
      BY <1>1, InSlots DEF FinishSignUp
    <2>2. CASE EmailTaken(call[c].email)
      BY <1>1, <2>1, <2>2 DEF FinishSignUp, tables
    <2>3. CASE ~EmailTaken(call[c].email)
      <3> DEFINE row == [email |-> call[c].email, password |-> call[c].password]
      <3>1. /\ accounts' = Append(accounts, row)
            /\ Provision(Len(accounts) + 1)
            /\ Open(Len(accounts) + 1, call[c].password)
            /\ Reply(c, Minted(NewTokens))
            /\ UNCHANGED <<raced, superseded, spent>>
        BY <1>1, <2>3 DEF FinishSignUp
      <3>2. row \in AccountRow /\ row.email = call[c].email /\ row.password = call[c].password
        BY <2>1 DEF AccountRow
      <3> HIDE DEF row
      <3>3. accounts \in Seq(AccountRow)
        BY DEF SessionTypes, TablesType
      <3>4. /\ accounts' \in Seq(AccountRow)
            /\ DOMAIN accounts' = DOMAIN accounts \cup {Len(accounts) + 1}
            /\ Len(accounts) + 1 \notin DOMAIN accounts
            /\ Len(accounts) + 1 \in Nat \ {0}
            /\ \A a \in DOMAIN accounts : accounts'[a] = accounts[a]
            /\ accounts'[Len(accounts) + 1] = row
        BY <3>1, <3>2, <3>3, Inserted
      <3>5. CallMinters # {}
        BY <2>1 DEF CallMinters
      <3>6. Opens(Len(accounts) + 1, call[c].password)
        BY <2>1, <3>1, <3>4, <3>5, Opening
      <3> QED
        BY <2>1, <2>3, <3>1, <3>2, <3>4, <3>6 DEF SignsUp, Provision
    <2> QED
      BY <2>2, <2>3
  <1>2. ASSUME FinishSignIn(c) PROVE SignsIn(c)
    <2>1. /\ call[c].pc = "signIn"
          /\ call[c].password \in Accepted
          /\ call[c].account \in Nat \ {0}
      BY <1>2, InSlots, InTables DEF FinishSignIn, CopiesInv
    <2>2. /\ Open(call[c].account, call[c].password)
          /\ UNCHANGED <<accounts, customers, superseded, spent>>
          /\ raced' = IF accounts[call[c].account].password = call[c].password THEN raced
                      ELSE raced \cup {Len(sessions) + 1}
          /\ Reply(c, Minted(NewTokens))
      BY <1>2 DEF FinishSignIn
    <2>3. CallMinters # {}
      BY <2>1 DEF CallMinters
    <2>4. Opens(call[c].account, call[c].password)
      BY <2>1, <2>2, <2>3, Opening
    <2> QED
      BY <2>1, <2>2, <2>4 DEF SignsIn
  <1>3. ASSUME FinishRefresh(c) PROVE Refusing \/ Rotates(c)
    <2>1. /\ call[c].pc = "refresh"
          /\ call[c].seen \in SessionRow
          /\ call[c].seen.until \in Nat
          /\ now \in Nat
      BY <1>3, InSlots, InTables DEF FinishRefresh
    <2>2. RotateVerdict(call[c].seen, now) = "OK" <=> Active(call[c].seen, now)
      BY <2>1 DEF RotateVerdict, Active
    <2>3. CASE RotateVerdict(call[c].seen, now) # "OK"
      BY <1>3, <2>1, <2>2, <2>3 DEF FinishRefresh, tables
    <2>4. CASE RotateVerdict(call[c].seen, now) = "OK"
      <3> DEFINE row == Rotated(call[c].seen, Fresh, now, RefreshTtl)
      <3>1. /\ Save(call[c].session, call[c].seen, row)
            /\ lastToken' = Fresh
            /\ spent' = [spent EXCEPT ![call[c].seen.hash] = @ + 1]
            /\ Reply(c, Minted(NewTokens))
            /\ UNCHANGED <<accounts, customers, provedBy>>
        BY <1>3, <2>4 DEF FinishRefresh
      <3>2. CallMinters # {}
        BY <2>1 DEF CallMinters
      <3>3. Fresh \in Token
        BY <3>2, FreshToken
      <3>4. row \in SessionRow
        BY <2>1, <3>3, SessionsAssumption DEF Rotated, Row, SessionRow
      <3> HIDE DEF row
      <3>5. Saves(c, row)
        BY <2>1, <3>1, <3>4, Saving DEF Reads
      <3> QED
        BY <2>1, <2>2, <2>4, <3>1, <3>5 DEF Rotates, row
    <2> QED
      BY <2>3, <2>4
  <1>4. ASSUME FinishSignOut(c) PROVE SignsOut(c)
    <2>1. call[c].pc = "signOut" /\ call[c].seen \in SessionRow
      BY <1>4, InSlots DEF FinishSignOut
    <2>2. Revoked(call[c].seen) \in SessionRow
      BY <2>1 DEF Revoked, Row, SessionRow
    <2>3. /\ Save(call[c].session, call[c].seen, Revoked(call[c].seen))
          /\ UNCHANGED <<accounts, customers, provedBy>>
      BY <1>4 DEF FinishSignOut
    <2>4. Saves(c, Revoked(call[c].seen))
      BY <2>1, <2>2, <2>3, Saving DEF Reads
    <2> QED
      BY <1>4, <2>1, <2>4 DEF SignsOut, FinishSignOut
  <1>5. ASSUME FinishChange(c) PROVE Changes(c)
    <2>1. /\ call[c].pc = "change"
          /\ call[c].password \in Accepted
          /\ call[c].account \in DOMAIN accounts
      BY <1>5, InSlots DEF FinishChange, CopiesInv
    <2>2. accounts \in Seq(AccountRow) /\ sessions \in Seq(SessionRow)
      BY DEF SessionTypes, TablesType
    <2>3. /\ accounts' \in Seq(AccountRow)
          /\ DOMAIN accounts' = DOMAIN accounts
          /\ \A a \in DOMAIN accounts : accounts'[a].email = accounts[a].email
          /\ \A a \in DOMAIN accounts : a # call[c].account => accounts'[a] = accounts[a]
      <3> DEFINE old == accounts[call[c].account]
                 new == [old EXCEPT !.password = call[c].password]
      <3>1. accounts' = [accounts EXCEPT ![call[c].account] = new]
        BY <1>5 DEF FinishChange
      <3>2. old \in AccountRow
        BY <2>1, InTables
      <3>3. new \in AccountRow /\ new.email = old.email
        BY <2>1, <3>2 DEF AccountRow
      <3> HIDE DEF new
      <3>4. /\ accounts' \in Seq(AccountRow)
            /\ DOMAIN accounts' = DOMAIN accounts
            /\ accounts'[call[c].account] = new
            /\ \A a \in DOMAIN accounts : a # call[c].account => accounts'[a] = accounts[a]
        BY <2>1, <2>2, <3>1, <3>3, Written
      <3> QED
        BY <3>3, <3>4
    <2>4. sessions' = [s \in DOMAIN sessions |->
              IF sessions[s].account = call[c].account THEN Revoked(sessions[s]) ELSE sessions[s]]
      BY <1>5 DEF FinishChange, RevokedFor
    <2>5. \A s \in DOMAIN sessions : sessions[s] \in SessionRow /\ Revoked(sessions[s]) \in SessionRow
      <3>1. \A row \in SessionRow : Revoked(row) \in SessionRow
        BY DEF Revoked, Row, SessionRow
      <3> QED
        BY <3>1, InTables
    <2>6. /\ DOMAIN sessions' = DOMAIN sessions
          /\ \A s \in DOMAIN sessions :
                /\ sessions'[s] = IF sessions[s].account = call[c].account
                                  THEN Revoked(sessions[s]) ELSE sessions[s]
                /\ sessions'[s] \in SessionRow
      BY <2>4, <2>5
    <2>7. sessions' \in Seq(SessionRow)
      <3>1. Len(sessions) \in Nat /\ DOMAIN sessions = 1..Len(sessions)
        BY <2>2
      <3>2. sessions' \in [1..Len(sessions) -> SessionRow]
        BY <2>4, <2>6, <3>1
      <3> QED
        BY <3>1, <3>2, SeqDef
    <2> QED
      BY <1>5, <2>1, <2>3, <2>6, <2>7 DEF Changes, FinishChange
  <1> HIDE DEF Refusing
  <1>6. Refusing \/ SignsUp(c) \/ SignsIn(c) \/ Rotates(c) \/ SignsOut(c) \/ Changes(c)
    BY <1>1, <1>2, <1>3, <1>4, <1>5 DEF FinishCall
  <1> QED
    BY <1>6 DEF Refusing

\* The tables stay as they are or one request of the API ends its second step.
LEMMA TableSteps ==
    ASSUME SessionTypes, MintInv, CopiesInv, [WebNext]_allVars
    PROVE  \/ UNCHANGED tables
           \/ \E c \in Call :
                 /\ UNCHANGED webVars /\ now' = now
                 /\ SignsUp(c) \/ SignsIn(c) \/ Rotates(c) \/ SignsOut(c) \/ Changes(c)
  <1>1. \A c \in Call : FinishCall(c) => now' = now
    BY DEF FinishCall, FinishSignUp, FinishSignIn, FinishRefresh, FinishSignOut, FinishChange
  <1> QED
    BY <1>1, TablesWriters, Finishes

-----------------------------------------------------------------------------
(* What a step does to a slot of the API.                                   *)

\* An answer that is no success.
Turned(x) == x.pc = "done" /\ x.answer.status # 200

\* A copy of the row that has the token.
Copy(x, op, token) ==
    /\ x.pc = op
    /\ x.session \in DOMAIN sessions
    /\ x.seen = sessions[x.session]
    /\ x.seen.hash = token

\* A request of the API begins, as x, for a client or for a browser.
Begins(c, x) ==
    \/ /\ c \in Device
       /\ UNCHANGED webVars
       /\ calls' = calls + 1
       /\ \/ x.pc = "signUp"
          \/ x.pc = "change" /\ x.account \in DOMAIN accounts
          \/ Turned(x)
    \/ /\ c \in Request
       /\ \E m \in Email, p \in Password : SubmitSignIn(c, m, p)
       /\ calls' = calls + 1
       /\ (x.pc = "signIn" /\ x.account \in DOMAIN accounts) \/ Turned(x)
    \/ /\ c \in Request
       /\ SubmitSignOut(c)
       /\ calls' = calls + 1
       /\ Copy(x, "signOut", cookie.refresh) \/ Turned(x)
    \/ /\ c \in Request
       /\ Refresh(c)
       /\ ~InFlight(req[c].tokens.refresh)
       /\ \/ Copy(x, "refresh", req[c].tokens.refresh)
          \/ Turned(x) /\ SessionsWith(req[c].tokens.refresh) = {}

\* A request of the API ends with the answer x.
Ends(c, x) ==
    /\ UNCHANGED webVars
    /\ call[c].pc \notin {"idle", "done"}
    /\ x.pc = "done"
    /\ \/ /\ UNCHANGED tables
          /\ Turned(x)
          /\ x.answer.status = 500 \/ (call[c].pc = "refresh" => ~Active(call[c].seen, now))
       \/ /\ SignsUp(c) \/ SignsIn(c) \/ Rotates(c)
          /\ x.answer.status = 200
          /\ x.answer.tokens.refresh = lastToken'
       \/ /\ SignsOut(c) \/ Changes(c)
          /\ Turned(x)

\* The sender takes its answer.
Leaves(c, x) ==
    /\ UNCHANGED tables
    /\ call[c].pc = "done"
    /\ x = Idle
    /\ \/ c \in Device /\ UNCHANGED webVars
       \/ c \in Request /\ (Settle(c) \/ Drop(c) \/ SignedIn(c) \/ SignedOut(c))

\* Refusals, failures and answers without tokens are no successes.
LEMMA TurnedAway ==
    /\ \A e : Turned(Done(Refusal(e))) /\ Done(Refusal(e)) \in CallState
    /\ Turned(Done(Answer(204, NoTokens))) /\ Done(Answer(204, NoTokens)) \in CallState
    /\ Turned(Done(Broken)) /\ Done(Broken) \in CallState
    /\ Done(Broken).answer.status = 500
  <1>1. \A status, tokens : /\ Done(Answer(status, tokens)).pc = "done"
                            /\ Done(Answer(status, tokens)).answer.status = status
    BY DEF Done, Answer
  <1>2. \A e : Turned(Done(Refusal(e))) /\ Done(Refusal(e)) \in CallState
    BY <1>1, AnswersAreStates DEF Turned, Refusals
  <1>3. Turned(Done(Answer(204, NoTokens))) /\ Done(Answer(204, NoTokens)) \in CallState
    BY <1>1, AnswersAreStates DEF Turned
  <1>4. Turned(Done(Broken)) /\ Done(Broken) \in CallState /\ Done(Broken).answer.status = 500
    BY <1>1, AnswersAreStates DEF Turned, Broken, Internal
  <1> QED
    BY <1>2, <1>3, <1>4

\* findByRefreshTokenHash finds the row of the token, if there is one.
LEMMA FoundCopies ==
    ASSUME SessionTypes, NEW op \in {"refresh", "signOut"}, NEW token, NEW missing
    PROVE  LET x == Found(op, token, missing) IN
           \/ SessionsWith(token) = {} /\ x = Done(missing)
           \/ Copy(x, op, token) /\ x \in CallState
  <1>1. CASE SessionsWith(token) = {}
    BY <1>1 DEF Found
  <1>2. CASE SessionsWith(token) # {}
    <2> DEFINE s == CHOOSE s \in SessionsWith(token) : TRUE
               x == [pc |-> op, session |-> s, seen |-> sessions[s]]
    <2>1. s \in SessionsWith(token)
      BY <1>2
    <2>2. s \in DOMAIN sessions /\ sessions[s].hash = token
      BY <2>1 DEF SessionsWith
    <2>3. sessions[s] \in SessionRow /\ s \in Nat
      BY <2>2, InTables
    <2>4. Found(op, token, missing) = x
      BY <1>2 DEF Found
    <2> HIDE DEF s
    <2>5. Copy(x, op, token) /\ x \in CallState
      BY <2>2, <2>3 DEF Copy, CallState
    <2> QED
      BY <2>4, <2>5
  <1> QED
    BY <1>1, <1>2

\* A sign-in knows the account whose password it has verified.
LEMMA SignInWorks ==
    ASSUME SessionTypes, NEW email, NEW password \in Password
    PROVE  LET x == SignInWork(email, password) IN
           /\ x \in CallState
           /\ (x.pc = "signIn" /\ x.account \in DOMAIN accounts) \/ Turned(x)
  <1>1. CASE \E a \in AccountsOf(email) : accounts[a].password = password
    <2> DEFINE a == CHOOSE a \in AccountsOf(email) : accounts[a].password = password
               x == [pc |-> "signIn", password |-> password, account |-> a]
    <2>1. a \in AccountsOf(email) /\ accounts[a].password = password
      BY <1>1
    <2>2. a \in DOMAIN accounts
      BY <2>1 DEF AccountsOf
    <2>3. a \in Nat /\ password \in Accepted
      BY <2>1, <2>2, InTables
    <2>4. SignInWork(email, password) = x
      BY <1>1 DEF SignInWork
    <2> HIDE DEF a
    <2>5. x \in CallState /\ x.pc = "signIn" /\ x.account = a
      BY <2>3 DEF CallState
    <2> QED
      BY <2>2, <2>4, <2>5
  <1>2. CASE ~\E a \in AccountsOf(email) : accounts[a].password = password
    BY <1>2, TurnedAway DEF SignInWork
  <1> QED
    BY <1>1, <1>2

\* A client that asks begins a sign-up, a change of password, or is refused.
LEMMA AsksBegin ==
    ASSUME SessionTypes, NEW c \in Device, Asks(c), UNCHANGED webVars
    PROVE  \E x \in CallState :
              call' = [call EXCEPT ![c] = x] /\ call[c].pc = "idle" /\ Begins(c, x)
  <1>1. ASSUME NEW x \in CallState, Start(c, x),
               x.pc = "signUp" \/ (x.pc = "change" /\ x.account \in DOMAIN accounts) \/ Turned(x)
        PROVE  \E y \in CallState :
              call' = [call EXCEPT ![c] = y] /\ call[c].pc = "idle" /\ Begins(c, y)
    <2>1. call' = [call EXCEPT ![c] = x] /\ call[c].pc = "idle" /\ calls' = calls + 1
      BY <1>1 DEF Start, Free, Idle
    <2>2. Begins(c, x)
      BY <1>1, <2>1 DEF Begins
    <2> QED
      BY <2>1, <2>2
  <1>2. ASSUME NEW m \in Email, NEW p \in Password, BeginSignUp(c, m, p)
        PROVE  \E x \in CallState :
                  Start(c, x) /\ (x.pc = "signUp" \/ Turned(x))
    <2> DEFINE asked == [pc |-> "signUp", email |-> Normalized(m), password |-> p]
    <2>1. \/ \E e : Start(c, Done(Refusal(e)))
          \/ PolicyAccepts(p) /\ Start(c, asked)
      BY <1>2 DEF BeginSignUp
    <2>2. Normalized(m) \in Stored
      BY DEF Email, Typed, Normalized, Stored
    <2>3. PolicyAccepts(p) => asked \in CallState /\ asked.pc = "signUp"
      BY <2>2 DEF CallState, Accepted
    <2> HIDE DEF asked
    <2> QED
      BY <2>1, <2>3, TurnedAway
  <1>3. ASSUME NEW a \in DOMAIN accounts, NEW p \in Password, BeginChange(c, a, p)
        PROVE  \E x \in CallState :
                  Start(c, x) /\ ((x.pc = "change" /\ x.account \in DOMAIN accounts) \/ Turned(x))
    <2> DEFINE asked == [pc |-> "change", account |-> a, password |-> p]
    <2>1. \/ \E e : Start(c, Done(Refusal(e)))
          \/ PolicyAccepts(p) /\ Start(c, asked)
      BY <1>3 DEF BeginChange
    <2>2. PolicyAccepts(p) => asked \in CallState /\ asked.pc = "change" /\ asked.account = a
      BY InTables DEF CallState, Accepted
    <2> HIDE DEF asked
    <2> QED
      BY <2>1, <2>2, TurnedAway
  <1>4. \E x \in CallState :
           /\ Start(c, x)
           /\ x.pc = "signUp" \/ (x.pc = "change" /\ x.account \in DOMAIN accounts) \/ Turned(x)
    BY <1>2, <1>3 DEF Asks
  <1> QED
    BY <1>1, <1>4

\* A browser that signs in or out, or whose request refreshes, begins likewise.
LEMMA BrowsersBegin ==
    ASSUME SessionTypes, NEW r \in Request,
           \/ \E m \in Email, p \in Password : SubmitSignIn(r, m, p)
           \/ SubmitSignOut(r)
           \/ Refresh(r)
    PROVE  \/ call' = call
           \/ \E x \in CallState :
                 call' = [call EXCEPT ![r] = x] /\ call[r].pc = "idle" /\ Begins(r, x)
  <1> DEFINE Goal == \E x \in CallState :
                 call' = [call EXCEPT ![r] = x] /\ call[r].pc = "idle" /\ Begins(r, x)
  <1>1. ASSUME NEW m \in Email, NEW p \in Password, SubmitSignIn(r, m, p) PROVE Goal
    <2>1. Start(r, SignInWork(m, p))
      BY <1>1 DEF SubmitSignIn, BeginSignIn
    <2>2. PICK x \in CallState : x = SignInWork(m, p)
                     /\ ((x.pc = "signIn" /\ x.account \in DOMAIN accounts) \/ Turned(x))
      BY SignInWorks
    <2>3. /\ call' = [call EXCEPT ![r] = x] /\ call[r].pc = "idle" /\ calls' = calls + 1
      BY <2>1, <2>2 DEF Start, Free, Idle
    <2> QED
      BY <1>1, <2>2, <2>3 DEF Begins
  <1>2. ASSUME SubmitSignOut(r) PROVE call' = call \/ Goal
    <2>1. CASE cookie = NoTokens
      BY <1>2, <2>1 DEF SubmitSignOut, Counted
    <2>2. CASE cookie # NoTokens
      <3>1. Start(r, SignOutWork(cookie.refresh))
        BY <1>2, <2>2 DEF SubmitSignOut, BeginSignOut
      <3>2. PICK x \in CallState : x = SignOutWork(cookie.refresh)
                     /\ (Copy(x, "signOut", cookie.refresh) \/ Turned(x))
        BY FoundCopies, TurnedAway DEF SignOutWork
      <3>3. /\ call' = [call EXCEPT ![r] = x] /\ call[r].pc = "idle" /\ calls' = calls + 1
        BY <3>1, <3>2 DEF Start, Free, Idle
      <3> QED
        BY <1>2, <3>2, <3>3 DEF Begins
    <2> QED
      BY <2>1, <2>2
  <1>3. ASSUME Refresh(r) PROVE call' = call \/ Goal
    <2> DEFINE token == req[r].tokens.refresh
    <2>1. CASE InFlight(token)
      BY <1>3, <2>1 DEF Refresh, sessionVars
    <2>2. CASE ~InFlight(token)
      <3>1. call[r].pc = "idle" /\ call' = [call EXCEPT ![r] = RefreshWork(token)]
        BY <1>3, <2>2 DEF Refresh, Idle
      <3>2. PICK x \in CallState : x = RefreshWork(token)
                     /\ (Copy(x, "refresh", token) \/ (Turned(x) /\ SessionsWith(token) = {}))
        BY FoundCopies, TurnedAway DEF RefreshWork
      <3> QED
        BY <1>3, <2>2, <3>1, <3>2 DEF Begins
    <2> QED
      BY <2>1, <2>2
  <1> HIDE DEF Goal
  <1>4. call' = call \/ Goal
    BY <1>1, <1>2, <1>3
  <1> QED
    BY <1>4 DEF Goal

\* A request of the API that is under way ends with an answer.
LEMMA CallsEnd ==
    ASSUME SessionTypes, MintInv, CopiesInv, NEW c \in Call, FinishCall(c) \/ FailCall(c),
           UNCHANGED webVars
    PROVE  \E x \in CallState : call' = [call EXCEPT ![c] = x] /\ Ends(c, x)
  <1>1. ASSUME FailCall(c) PROVE \E x \in CallState : call' = [call EXCEPT ![c] = x] /\ Ends(c, x)
    <2>1. /\ call' = [call EXCEPT ![c] = Done(Broken)]
          /\ call[c].pc \notin {"idle", "done"}
          /\ UNCHANGED tables
      BY <1>1 DEF FailCall, Reply, tables
    <2>2. Ends(c, Done(Broken))
      BY <2>1, TurnedAway DEF Ends, Turned
    <2> QED
      BY <2>1, <2>2, TurnedAway
  <1>2. ASSUME NEW e, UNCHANGED tables, Reply(c, Refusal(e)),
               call[c].pc \in {"signUp", "refresh"},
               call[c].pc = "refresh" => ~Active(call[c].seen, now)
        PROVE  \E x \in CallState : call' = [call EXCEPT ![c] = x] /\ Ends(c, x)
    <2>1. Ends(c, Done(Refusal(e)))
      BY <1>2, TurnedAway DEF Ends, Turned
    <2> QED
      BY <1>2, <2>1, TurnedAway DEF Reply
  <1>3. ASSUME SignsUp(c) \/ SignsIn(c) \/ Rotates(c)
        PROVE  \E x \in CallState : call' = [call EXCEPT ![c] = x] /\ Ends(c, x)
    <2>1. /\ call' = [call EXCEPT ![c] = Done(Minted(NewTokens))]
          /\ call[c].pc \in {"signUp", "signIn", "refresh"}
          /\ lastToken' = Fresh
      BY <1>3 DEF SignsUp, SignsIn, Rotates, Reply, Opens
    <2>2. Done(Minted(NewTokens)) \in CallState
      BY NewPair, AnswersAreStates DEF Minted
    <2>3. /\ Done(Minted(NewTokens)).pc = "done"
          /\ Done(Minted(NewTokens)).answer.status = 200
          /\ Done(Minted(NewTokens)).answer.tokens.refresh = Fresh
      BY NewPair DEF Done, Minted, Answer
    <2>4. Ends(c, Done(Minted(NewTokens)))
      BY <1>3, <2>1, <2>3 DEF Ends
    <2> QED
      BY <2>1, <2>2, <2>4
  <1>4. ASSUME SignsOut(c) \/ Changes(c)
        PROVE  \E x \in CallState : call' = [call EXCEPT ![c] = x] /\ Ends(c, x)
    <2>1. /\ call' = [call EXCEPT ![c] = Done(Answer(204, NoTokens))]
          /\ call[c].pc \in {"signOut", "change"}
      BY <1>4 DEF SignsOut, Changes, Reply
    <2>2. Ends(c, Done(Answer(204, NoTokens)))
      BY <1>4, <2>1, TurnedAway DEF Ends, Turned
    <2> QED
      BY <2>1, <2>2, TurnedAway
  <1> QED
    BY <1>1, <1>2, <1>3, <1>4, Finishes

\* Every step leaves the slots alone or begins, ends or frees one of them.
LEMMA CallSteps ==
    ASSUME SessionTypes, MintInv, CopiesInv, [WebNext]_allVars
    PROVE  \/ call' = call /\ UNCHANGED tables
           \/ \E c \in Call, x \in CallState :
                 /\ call' = [call EXCEPT ![c] = x]
                 /\ \/ call[c].pc = "idle" /\ Begins(c, x) /\ UNCHANGED tables
                    \/ Ends(c, x)
                    \/ Leaves(c, x)
  <1> DEFINE Goal == \E c \in Call, x \in CallState :
                        /\ call' = [call EXCEPT ![c] = x]
                        /\ \/ call[c].pc = "idle" /\ Begins(c, x) /\ UNCHANGED tables
                           \/ Ends(c, x)
                           \/ Leaves(c, x)
  <1>1. Request \subseteq Call /\ Device \subseteq Call /\ Device \cap Request = {}
    BY WebSessionAssumption DEF Device
  <1>2. ASSUME NEW c \in Device, Asks(c), UNCHANGED webVars PROVE Goal
    <2>1. UNCHANGED tables
      BY <1>2 DEF Asks, BeginSignUp, BeginChange, Start, tables
    <2> QED
      BY <1>1, <1>2, <2>1, AsksBegin
  <1>3. ASSUME NEW c \in Call, call[c].pc = "done", call' = [call EXCEPT ![c] = Idle],
               UNCHANGED tables,
               \/ c \in Device /\ UNCHANGED webVars
               \/ c \in Request /\ (Settle(c) \/ Drop(c) \/ SignedIn(c) \/ SignedOut(c))
        PROVE  Goal
    BY <1>3, AnswersAreStates DEF Leaves
  <1>4. ASSUME NEW c \in Device, TakeAnswer(c), UNCHANGED webVars PROVE Goal
    BY <1>1, <1>3, <1>4 DEF TakeAnswer, tables
  <1>5. ASSUME NEW c \in Call, FinishCall(c) \/ FailCall(c), UNCHANGED webVars PROVE Goal
    BY <1>5, CallsEnd
  <1>6. ASSUME NEW r \in Request,
               \/ \E m \in Email, p \in Password : SubmitSignIn(r, m, p)
               \/ SubmitSignOut(r)
               \/ Refresh(r)
        PROVE  call' = call \/ Goal
    <2>1. UNCHANGED tables
      BY <1>6, SendersLeaveTables DEF Browse, RequestStep
    <2> QED
      BY <1>1, <1>6, <2>1, BrowsersBegin
  <1>7. ASSUME NEW r \in Request, Settle(r) \/ Drop(r) \/ SignedIn(r) \/ SignedOut(r) PROVE Goal
    <2>1. UNCHANGED tables
      BY <1>7, SendersLeaveTables DEF Browse, RequestStep
    <2>2. call[r].pc = "done" /\ call' = [call EXCEPT ![r] = Idle]
      BY <1>7 DEF Settle, Drop, SignedIn, SignedOut, TakeAnswer
    <2> QED
      BY <1>1, <1>3, <1>7, <2>1, <2>2
  <1> HIDE DEF Goal
  <1>8. call' = call \/ Goal
    BY <1>2, <1>4, <1>5, <1>6, <1>7, CallWriters
  <1>9. ASSUME ~UNCHANGED tables PROVE call' # call
    <2>1. PICK c \in Call : SignsUp(c) \/ SignsIn(c) \/ Rotates(c) \/ SignsOut(c) \/ Changes(c)
      BY <1>9, TableSteps
    <2>2. call[c].pc # "done"
      BY <2>1 DEF SignsUp, SignsIn, Rotates, SignsOut, Changes
    <2>3. \E answer : call' = [call EXCEPT ![c] = Done(answer)]
      BY <2>1 DEF SignsUp, SignsIn, Rotates, SignsOut, Changes, Reply
    <2>4. call'[c].pc = "done"
      BY <2>3 DEF Done, SessionTypes, WorkType
    <2> QED
      BY <2>2, <2>4
  <1> QED
    BY <1>8, <1>9 DEF Goal

-----------------------------------------------------------------------------
(* What a step does to a request of a browser.                              *)

\* An answer that does not set the cookie.
Plain(x) == x.pc = "answer" /\ x.set.op # "set"
Setting(x, tokens) == x.pc = "answer" /\ x.set.op = "set" /\ x.set.tokens = tokens

\* A request of a browser moves on by itself, to x.
Goes(r, x) ==
    \/ /\ req[r].pc = "idle"
       /\ UNCHANGED <<tables, call, flight, cookie>>
       /\ \/ x.pc = "send" /\ x.tokens = cookie /\ cookie # NoTokens /\ calls' = calls + 1
          \/ Plain(x)
    \/ /\ req[r].pc = "send"
       /\ UNCHANGED <<tables, call, flight, cookie>>
       /\ (x.pc = "unauthorized" /\ x.tokens = req[r].tokens) \/ Plain(x)
    \/ /\ req[r].pc = "unauthorized"
       /\ Refresh(r)
       /\ UNCHANGED <<tables, cookie>>
       /\ x.pc = "refreshing" /\ x.tokens = req[r].tokens
    \/ /\ req[r].pc = "retry"
       /\ UNCHANGED <<tables, call, flight, cookie>>
       /\ Setting(x, req[r].tokens) \/ (Plain(x) /\ fate' # {})
    \/ /\ req[r].pc = "idle"
       /\ \/ \E m \in Email, p \in Password : SubmitSignIn(r, m, p)
          \/ SubmitSignOut(r) /\ fate' # {}
       /\ UNCHANGED <<tables, flight, cookie>>
       /\ x.pc \in {"signingIn", "signingOut"} \/ (call' = call /\ Plain(x))
    \/ /\ req[r].pc \in {"signingIn", "signingOut"}
       /\ SignedIn(r) \/ SignedOut(r)
       /\ UNCHANGED <<tables, flight, cookie>>
       /\ \/ call[r].answer.status = 200 /\ Setting(x, call[r].answer.tokens)
          \/ Plain(x)
    \/ /\ req[r].pc \in {"signingIn", "signingOut"}
       /\ BreakSigning(r)
       /\ UNCHANGED <<tables, call, flight, cookie>>
       /\ Plain(x) /\ fate' # {}
    \/ /\ req[r].pc = "answer"
       /\ UNCHANGED <<tables, call, flight>>
       /\ cookie' = CookieAfter(req[r].set)
       /\ req[r].set.op = "set" /\ fate' = {} => ~(spent[req[r].set.tokens.refresh] > 0)
       /\ x.pc = "idle"

\* The refresh of a token is over, for the request that made it and for all
\* that have waited with it.
Settles(r, token) ==
    /\ token \in Token
    /\ flight[token] = r
    /\ call[r].pc = "done"
    /\ call' = [call EXCEPT ![r] = Idle]
    /\ flight' = [flight EXCEPT ![token] = NoFlight]
    /\ UNCHANGED <<tables, cookie, broken>>
    /\ req' \in [Request -> RequestState]
    /\ \A w \in Request \ Waiting(token) : req'[w] = req[w]
    /\ \A w \in Waiting(token) :
          \/ /\ call[r].answer.status = 200
             /\ req'[w].pc = "retry"
             /\ req'[w].tokens = call[r].answer.tokens
          \/ /\ call[r].answer.status # 200
             /\ Plain(req'[w])

\* The connection of a refresh breaks, for all who wait for it.
Breaks(r, token) ==
    /\ token \in Token
    /\ flight[token] = r
    /\ flight' = [flight EXCEPT ![token] = NoFlight]
    /\ broken' = broken \cup Unheard(r, token)
    /\ fate' # {}
    /\ UNCHANGED <<tables, call, cookie>>
    /\ req' \in [Request -> RequestState]
    /\ \A w \in Request \ Waiting(token) : req'[w] = req[w]
    /\ \A w \in Waiting(token) : Plain(req'[w])

\* What becomes of the fields of a request.
LEMMA MovesAreStates ==
    /\ \A kind \in Kind, tokens \in Pair, pc \in {"send", "retry"} :
          /\ At(pc, kind, tokens) \in RequestState
          /\ At(pc, kind, tokens).pc = pc
          /\ At(pc, kind, tokens).tokens = tokens
    /\ \A set \in CookieChange :
          /\ Answering(set) \in RequestState
          /\ Answering(set).pc = "answer"
          /\ Answering(set).set = set
    /\ Plain(Answering(Keep))
    /\ \A tokens \in Pair :
          /\ Plain(Answering(Clear(tokens)))
          /\ Setting(Answering(Set(tokens)), tokens)
    /\ \A kind : \A tokens \in Pair :
          /\ Plain(Answering(Persisted(kind, Clear(tokens))))
          /\ Persisted(kind, Clear(tokens)) \in CookieChange
    /\ [pc |-> "signingIn"] \in RequestState /\ [pc |-> "signingOut"] \in RequestState
  <1>1. \A kind \in Kind, tokens \in Pair, pc \in {"send", "retry"} :
          /\ At(pc, kind, tokens) \in RequestState
          /\ At(pc, kind, tokens).pc = pc
          /\ At(pc, kind, tokens).tokens = tokens
    BY DEF At, RequestState
  <1>2. \A set \in CookieChange :
          /\ Answering(set) \in RequestState
          /\ Answering(set).pc = "answer"
          /\ Answering(set).set = set
    BY DEF Answering, RequestState
  <1>3. /\ Keep \in CookieChange
        /\ \A tokens \in Pair : Set(tokens) \in CookieChange /\ Clear(tokens) \in CookieChange
    BY AnswersAreStates
  <1>4. Keep.op = "keep" /\ \A tokens : Clear(tokens).op = "clear"
    BY DEF Keep, Clear
  <1>5. \A tokens : Set(tokens).op = "set" /\ Set(tokens).tokens = tokens
    BY DEF Set
  <1>6. Plain(Answering(Keep)) /\ \A tokens \in Pair : Plain(Answering(Clear(tokens)))
    BY <1>2, <1>3, <1>4 DEF Plain
  <1>7. \A tokens \in Pair : Setting(Answering(Set(tokens)), tokens)
    BY <1>2, <1>3, <1>5 DEF Setting
  <1>8. \A kind : \A tokens \in Pair :
           /\ Plain(Answering(Persisted(kind, Clear(tokens))))
           /\ Persisted(kind, Clear(tokens)) \in CookieChange
    BY <1>3, <1>6 DEF Persisted
  <1>9. [pc |-> "signingIn"] \in RequestState /\ [pc |-> "signingOut"] \in RequestState
    BY DEF RequestState
  <1> QED
    BY <1>1, <1>2, <1>6, <1>7, <1>8, <1>9

\* A request keeps its tokens while its pc moves on.
LEMMA KeepsTokens ==
    ASSUME NEW x \in RequestState, x.pc \in {"send", "unauthorized"},
           NEW pc \in {"unauthorized", "refreshing"}
    PROVE  /\ [x EXCEPT !.pc = pc] \in RequestState
           /\ [x EXCEPT !.pc = pc].pc = pc
           /\ [x EXCEPT !.pc = pc].tokens = x.tokens
  <1>1. x \in [pc : {"send", "unauthorized", "refreshing", "retry"}, kind : Kind, tokens : Pair]
    BY DEF RequestState
  <1> QED
    BY <1>1 DEF RequestState

\* The state of a request has its fields.
LEMMA InRequests ==
    ASSUME SessionTypes, NEW r \in Request
    PROVE  /\ req[r] \in RequestState
           /\ req[r].pc \in {"idle", "signingIn", "signingOut", "send", "unauthorized",
                             "refreshing", "retry", "answer"}
           /\ req[r].pc \in {"send", "unauthorized", "refreshing", "retry"}
                => req[r].kind \in Kind /\ req[r].tokens \in Pair
           /\ req[r].pc = "answer" => req[r].set \in CookieChange
           /\ r \in Call
           /\ cookie \in Pair
  <1>1. req[r] \in RequestState /\ cookie \in Pair
    BY DEF SessionTypes, WorkType
  <1>2. r \in Call
    BY WebSessionAssumption
  <1> QED
    BY <1>1, <1>2, RequestFields

\* A request that a browser sends, or that goes on by itself, moves on.
LEMMA RequestsGo ==
    ASSUME SessionTypes, NEW r \in Request,
           \/ \E kind \in Kind : Arrive(r, kind)
           \/ Send(r) \/ Refresh(r) \/ Retry(r) \/ SignedIn(r) \/ SignedOut(r) \/ Respond(r)
           \/ BreakSigning(r)
           \/ \E m \in Email, p \in Password : SubmitSignIn(r, m, p)
           \/ SubmitSignOut(r)
    PROVE  \E x \in RequestState : req' = [req EXCEPT ![r] = x] /\ Goes(r, x)
  <1> DEFINE Goal == \E x \in RequestState : req' = [req EXCEPT ![r] = x] /\ Goes(r, x)
  <1>1. /\ Keep \in CookieChange /\ NoTokens \in Pair
        /\ \A tokens \in Pair : Set(tokens) \in CookieChange /\ Clear(tokens) \in CookieChange
    BY AnswersAreStates
  <1>2. ASSUME NEW x \in RequestState, Become(r, x), Goes(r, x) PROVE Goal
    BY <1>2 DEF Become
  <1>3. ASSUME NEW kind \in Kind, Arrive(r, kind) PROVE Goal
    <2>1. /\ req[r].pc = "idle" /\ calls' = calls + 1
          /\ UNCHANGED <<tables, call, flight, cookie>>
      BY <1>3 DEF Arrive, Idle, Counted, tables
    <2>2. CASE cookie = NoTokens
      <3>1. Become(r, Answering(Keep))
        BY <1>3, <2>2 DEF Arrive
      <3>2. Goes(r, Answering(Keep))
        BY <2>1, MovesAreStates DEF Goes
      <3> QED
        BY <1>1, <1>2, <3>1, <3>2, MovesAreStates
    <2>3. CASE cookie # NoTokens
      <3>1. Become(r, At("send", kind, cookie))
        BY <1>3, <2>3 DEF Arrive
      <3>2. /\ At("send", kind, cookie) \in RequestState
            /\ At("send", kind, cookie).pc = "send"
            /\ At("send", kind, cookie).tokens = cookie
        BY InRequests, MovesAreStates
      <3>3. Goes(r, At("send", kind, cookie))
        BY <2>1, <2>3, <3>2 DEF Goes
      <3> QED
        BY <1>2, <3>1, <3>2, <3>3
    <2> QED
      BY <2>2, <2>3
  <1>4. ASSUME Send(r) PROVE Goal
    <2>1. /\ req[r].pc = "send"
          /\ UNCHANGED <<tables, call, flight, cookie>>
      BY <1>4 DEF Send, sessionVars, tables
    <2> DEFINE x == [req[r] EXCEPT !.pc = "unauthorized"]
    <2>2. Become(r, Answering(Keep)) \/ Become(r, x)
      BY <1>4 DEF Send
    <2>3. x \in RequestState /\ x.pc = "unauthorized" /\ x.tokens = req[r].tokens
      BY <2>1, InRequests, KeepsTokens
    <2> HIDE DEF x
    <2>4. Goes(r, Answering(Keep)) /\ Goes(r, x)
      BY <2>1, <2>3, MovesAreStates DEF Goes
    <2> QED
      BY <1>1, <1>2, <2>2, <2>3, <2>4, MovesAreStates
  <1>5. ASSUME Refresh(r) PROVE Goal
    <2>1. /\ req[r].pc = "unauthorized"
          /\ UNCHANGED <<tables, cookie>>
      BY <1>5 DEF Refresh, sessionVars, tables
    <2> DEFINE x == [req[r] EXCEPT !.pc = "refreshing"]
    <2>2. Become(r, x)
      BY <1>5 DEF Refresh
    <2>3. x \in RequestState /\ x.pc = "refreshing" /\ x.tokens = req[r].tokens
      BY <2>1, InRequests, KeepsTokens
    <2> HIDE DEF x
    <2>4. Goes(r, x)
      BY <1>5, <2>1, <2>3 DEF Goes
    <2> QED
      BY <1>2, <2>2, <2>3, <2>4
  <1>6. ASSUME Retry(r) PROVE Goal
    <2> DEFINE tokens == req[r].tokens
    <2>1. /\ req[r].pc = "retry" /\ tokens \in Pair
          /\ UNCHANGED <<tables, call, flight, cookie>>
      BY <1>6, InRequests DEF Retry, sessionVars, tables
    <2>2. \/ Become(r, Answering(Keep)) /\ fate' # {}
          \/ Become(r, Answering(Clear(tokens))) /\ fate' # {}
          \/ Become(r, Answering(Set(tokens)))
      BY <1>6 DEF Retry, Persisted, AfterRetry
    <2> HIDE DEF tokens
    <2>3. Goes(r, Answering(Set(tokens)))
      BY <2>1, MovesAreStates DEF Goes, tokens
    <2>4. fate' # {} => Goes(r, Answering(Keep)) /\ Goes(r, Answering(Clear(tokens)))
      BY <2>1, MovesAreStates DEF Goes
    <2> QED
      BY <1>1, <1>2, <2>1, <2>2, <2>3, <2>4, MovesAreStates
  <1>7. ASSUME SignedIn(r) \/ SignedOut(r) PROVE Goal
    <2>1. /\ req[r].pc \in {"signingIn", "signingOut"}
          /\ call[r].pc = "done"
          /\ UNCHANGED <<tables, flight, cookie>>
      BY <1>7 DEF SignedIn, SignedOut, TakeAnswer, tables
    <2>2. call[r].answer.tokens \in Pair
      BY <2>1, InSlots, InRequests
    <2>3. \/ Become(r, Answering(Keep)) \/ Become(r, Answering(Clear(NoTokens)))
          \/ /\ call[r].answer.status = 200
             /\ Become(r, Answering(Set(call[r].answer.tokens)))
      BY <1>7 DEF SignedIn, SignedOut
    <2>4. Goes(r, Answering(Keep)) /\ Goes(r, Answering(Clear(NoTokens)))
      BY <1>1, <1>7, <2>1, MovesAreStates DEF Goes
    <2>5. call[r].answer.status = 200 => Goes(r, Answering(Set(call[r].answer.tokens)))
      BY <1>7, <2>1, <2>2, MovesAreStates DEF Goes
    <2> QED
      BY <1>1, <1>2, <2>2, <2>3, <2>4, <2>5, MovesAreStates
  <1>8. ASSUME Respond(r) PROVE Goal
    <2>1. /\ req[r].pc = "answer"
          /\ UNCHANGED <<tables, call, flight>>
          /\ cookie' = CookieAfter(req[r].set)
          /\ Become(r, Idle)
      BY <1>8 DEF Respond, sessionVars, tables
    <2>2. req[r].set.op = "set" /\ fate' = {} => ~(spent[req[r].set.tokens.refresh] > 0)
      <3>1. fate' = fate \cup (IF Overtaken(req[r].set) THEN {"overtaken"} ELSE {})
        BY <1>8 DEF Respond
      <3>2. fate' = {} => ~Overtaken(req[r].set)
        BY <3>1
      <3> QED
        BY <3>2 DEF Overtaken
    <2>3. Goes(r, Idle)
      BY <2>1, <2>2 DEF Goes, Idle
    <2> QED
      BY <1>2, <2>1, <2>3, AnswersAreStates
  <1>9. ASSUME NEW m \in Email, NEW p \in Password, SubmitSignIn(r, m, p) PROVE Goal
    <2>1. /\ req[r].pc = "idle"
          /\ UNCHANGED <<tables, flight, cookie>>
          /\ Become(r, [pc |-> "signingIn"])
      BY <1>9 DEF SubmitSignIn, BeginSignIn, Start, Idle, tables
    <2>2. Goes(r, [pc |-> "signingIn"])
      BY <1>9, <2>1 DEF Goes
    <2> QED
      BY <1>2, <2>1, <2>2, MovesAreStates
  <1>10. ASSUME SubmitSignOut(r) PROVE Goal
    <2>1. /\ req[r].pc = "idle"
          /\ UNCHANGED <<tables, flight, cookie>>
          /\ fate' # {}
          /\ \/ Become(r, [pc |-> "signingOut"])
             \/ call' = call /\ Become(r, Answering(Clear(NoTokens)))
      <3>1. /\ req[r].pc = "idle"
            /\ UNCHANGED <<flight, cookie>>
            /\ fate' # {}
        <4>1. req[r] = Idle /\ UNCHANGED <<flight, cookie>>
          BY <1>10 DEF SubmitSignOut
        <4>2. req[r].pc = "idle"
          BY <4>1 DEF Idle
        <4>3. "signed out" \in fate'
          BY <1>10 DEF SubmitSignOut
        <4> QED
          BY <4>1, <4>2, <4>3
      <3>2. CASE cookie = NoTokens
        BY <1>10, <3>1, <3>2 DEF SubmitSignOut, Counted, tables
      <3>3. CASE cookie # NoTokens
        BY <1>10, <3>1, <3>3 DEF SubmitSignOut, BeginSignOut, Start, tables
      <3> QED
        BY <3>2, <3>3
    <2>2. Goes(r, [pc |-> "signingOut"])
      BY <1>10, <2>1 DEF Goes
    <2>3. call' = call => Goes(r, Answering(Clear(NoTokens)))
      BY <1>1, <1>10, <2>1, MovesAreStates DEF Goes
    <2> QED
      BY <1>1, <1>2, <2>1, <2>2, <2>3, MovesAreStates
  <1>11. ASSUME BreakSigning(r) PROVE Goal
    <2>1. /\ req[r].pc \in {"signingIn", "signingOut"}
          /\ UNCHANGED <<tables, call, flight, cookie>>
          /\ "error" \in fate'
          /\ Become(r, Answering(Keep)) \/ Become(r, Answering(Clear(NoTokens)))
      BY <1>11 DEF BreakSigning, tables
    <2>2. fate' # {}
      BY <2>1
    <2>3. Goes(r, Answering(Keep)) /\ Goes(r, Answering(Clear(NoTokens)))
      BY <1>1, <1>11, <2>1, <2>2, MovesAreStates DEF Goes
    <2>4. /\ Answering(Keep) \in RequestState
          /\ Answering(Clear(NoTokens)) \in RequestState
      BY <1>1, MovesAreStates, AnswersAreStates
    <2>5. CASE Become(r, Answering(Keep))
      BY <1>2, <2>3, <2>4, <2>5
    <2>6. CASE Become(r, Answering(Clear(NoTokens)))
      BY <1>2, <2>3, <2>4, <2>6
    <2> QED
      BY <2>1, <2>5, <2>6
  <1> HIDE DEF Goal
  <1>12. Goal
    BY <1>3, <1>4, <1>5, <1>6, <1>7, <1>8, <1>9, <1>10, <1>11
  <1> QED
    BY <1>12 DEF Goal

\* The end of a refresh, with an answer or without.
LEMMA RefreshesSettle ==
    ASSUME SessionTypes, NEW r \in Request
    PROVE  /\ Settle(r) => \E token \in Token : Settles(r, token)
           /\ Break(r) => \E token \in Token : Breaks(r, token)
  <1>1. ASSUME Settle(r) PROVE \E token \in Token : Settles(r, token)
    <2> DEFINE told(token) ==
                 [w \in Request |->
                    IF w \notin Waiting(token) THEN req[w]
                    ELSE IF call[r].answer.status = 200
                    THEN At("retry", req[w].kind, call[r].answer.tokens)
                    ELSE Answering(Persisted(req[w].kind, Clear(req[w].tokens)))]
    <2>0. TakeAnswer(r) => call' = [call EXCEPT ![r] = Idle] /\ UNCHANGED tables
      BY DEF TakeAnswer, tables
    <2>9. PICK token \in Token :
              /\ flight[token] = r
              /\ call[r].pc = "done"
              /\ TakeAnswer(r)
              /\ flight' = [flight EXCEPT ![token] = NoFlight]
              /\ UNCHANGED <<cookie, lost, broken>>
              /\ req' = told(token)
      BY <1>1, Zenon DEF Settle
    <2>1. /\ flight[token] = r
          /\ call[r].pc = "done"
          /\ call' = [call EXCEPT ![r] = Idle]
          /\ flight' = [flight EXCEPT ![token] = NoFlight]
          /\ UNCHANGED <<tables, cookie, broken>>
          /\ req' = told(token)
      BY <2>0, <2>9
    <2>2. r \in Call /\ call[r].answer.tokens \in Pair
      BY <2>1, InRequests, InSlots
    <2>3. Waiting(token) \subseteq Request
      BY DEF Waiting
    <2>4. ASSUME NEW w \in Waiting(token) PROVE req[w].kind \in Kind /\ req[w].tokens \in Pair
      BY <2>4, InRequests DEF Waiting
    <2>5. ASSUME NEW w \in Waiting(token)
          PROVE  /\ req'[w] \in RequestState
                 /\ \/ /\ call[r].answer.status = 200
                       /\ req'[w].pc = "retry"
                       /\ req'[w].tokens = call[r].answer.tokens
                    \/ call[r].answer.status # 200 /\ Plain(req'[w])
      <3>1. CASE call[r].answer.status = 200
        <4>1. req'[w] = At("retry", req[w].kind, call[r].answer.tokens)
          BY <2>1, <2>3, <2>5, <3>1
        <4> QED
          BY <2>2, <2>4, <3>1, <4>1, MovesAreStates
      <3>2. CASE call[r].answer.status # 200
        <4>1. req'[w] = Answering(Persisted(req[w].kind, Clear(req[w].tokens)))
          BY <2>1, <2>3, <2>5, <3>2
        <4> QED
          BY <2>4, <3>2, <4>1, MovesAreStates
      <3> QED
        BY <3>1, <3>2
    <2>6. \A w \in Request \ Waiting(token) : req'[w] = req[w] /\ req[w] \in RequestState
      BY <2>1, InRequests
    <2>7. req' \in [Request -> RequestState]
      <3>1. \A w \in Request : req'[w] \in RequestState
        BY <2>5, <2>6
      <3> QED
        BY <2>1, <3>1
    <2> QED
      BY <2>1, <2>5, <2>6, <2>7 DEF Settles
  <1>2. ASSUME Break(r) PROVE \E token \in Token : Breaks(r, token)
    <2>1. PICK token \in Token :
              /\ flight[token] = r
              /\ flight' = [flight EXCEPT ![token] = NoFlight]
              /\ broken' = broken \cup Unheard(r, token)
              /\ "error" \in fate'
              /\ UNCHANGED <<tables, call, cookie>>
              /\ req' = [w \in Request |->
                            IF w \in Waiting(token) THEN Answering(Keep) ELSE req[w]]
      BY <1>2 DEF Break, tables
    <2>2. Answering(Keep) \in RequestState /\ Plain(Answering(Keep))
      BY AnswersAreStates, MovesAreStates
    <2>3. Waiting(token) \subseteq Request
      BY DEF Waiting
    <2>4. \A w \in Waiting(token) : req'[w] = Answering(Keep)
      BY <2>1, <2>3
    <2>5. \A w \in Request \ Waiting(token) : req'[w] = req[w]
      BY <2>1
    <2>6. req' \in [Request -> RequestState]
      BY <2>1, <2>2, InRequests
    <2>7. fate' # {}
      BY <2>1
    <2> QED
      BY <2>1, <2>2, <2>4, <2>5, <2>6, <2>7 DEF Breaks
  <1> QED
    BY <1>1, <1>2

\* Every step leaves the requests alone, moves one on, or ends a refresh.
LEMMA RequestSteps ==
    ASSUME SessionTypes, [WebNext]_allVars
    PROVE  \/ UNCHANGED webVars
           \/ \E r \in Request, x \in RequestState : req' = [req EXCEPT ![r] = x] /\ Goes(r, x)
           \/ \E r \in Request, token \in Token : Settles(r, token) \/ Breaks(r, token)
  <1>1. UNCHANGED webVars \/ \E r \in Request : RequestStep(r) \/ Browse(r)
    BY DEF WebNext, allVars
  <1>2. ASSUME NEW r \in Request, RequestStep(r)
        PROVE  \/ UNCHANGED webVars
               \/ \E x \in RequestState : req' = [req EXCEPT ![r] = x] /\ Goes(r, x)
               \/ \E token \in Token : Settles(r, token)
    BY <1>2, RequestsGo, RefreshesSettle DEF RequestStep, Drop
  <1>3. ASSUME NEW r \in Request, Browse(r)
        PROVE  \/ \E x \in RequestState : req' = [req EXCEPT ![r] = x] /\ Goes(r, x)
               \/ \E token \in Token : Breaks(r, token)
    BY <1>3, RequestsGo, RefreshesSettle DEF Browse
  <1> QED
    BY <1>1, <1>2, <1>3

-----------------------------------------------------------------------------
(* Types and tokens to come are preserved.                                  *)

\* Two tables with the same ids are of one length.
LEMMA SameLength ==
    ASSUME NEW S, NEW T, NEW a \in Seq(S), NEW b \in Seq(T), DOMAIN a = DOMAIN b
    PROVE  Len(a) = Len(b)
  <1>1. Len(a) \in Nat /\ Len(b) \in Nat /\ 1..Len(a) = 1..Len(b)
    OBVIOUS
  <1>2. ASSUME NEW m \in Nat, NEW n \in Nat, 1..m = 1..n PROVE ~(m < n)
    <2>1. SUFFICES ASSUME m < n PROVE FALSE
      OBVIOUS
    <2>2. n \in 1..n /\ n \notin 1..m
      BY <2>1
    <2> QED
      BY <1>2, <2>2
  <1>3. ~(Len(a) < Len(b)) /\ ~(Len(b) < Len(a))
    BY <1>1, <1>2
  <1> QED
    BY <1>1, <1>3

\* The tables keep their columns.
LEMMA NextTables ==
    ASSUME SessionTypes, MintInv, CopiesInv, [WebNext]_allVars
    PROVE  TablesType'
  <1>1. TablesType
    BY DEF SessionTypes
  <1>2. lastToken \in Nat /\ Fresh \in Nat
    BY <1>1 DEF TablesType, Fresh
  <1>3. CASE UNCHANGED tables
    BY <1>1, <1>3 DEF TablesType, tables
  <1>4. ASSUME NEW c \in Call, SignsUp(c) PROVE TablesType'
    BY <1>1, <1>2, <1>4 DEF TablesType, SignsUp, Opens
  <1>5. ASSUME NEW c \in Call, SignsIn(c) PROVE TablesType'
    BY <1>1, <1>2, <1>5 DEF TablesType, SignsIn, Opens
  <1>6. ASSUME sessions' \in Seq(SessionRow), DOMAIN sessions' = DOMAIN sessions,
               provedBy' = provedBy
        PROVE  Len(provedBy') = Len(sessions')
    BY <1>1, <1>6, SameLength DEF TablesType
  <1>7. ASSUME NEW c \in Call, Rotates(c) PROVE TablesType'
    <2>1. call[c].seen.hash \in Token
      BY <1>7, InSlots, InTables DEF Rotates
    <2>2. spent' \in [Token -> Nat]
      BY <1>1, <1>7, <2>1 DEF Rotates, TablesType
    <2> QED
      BY <1>1, <1>2, <1>6, <1>7, <2>2 DEF TablesType, Rotates, Saves
  <1>8. ASSUME NEW c \in Call, SignsOut(c) PROVE TablesType'
    BY <1>1, <1>2, <1>6, <1>8 DEF TablesType, SignsOut, Saves
  <1>9. ASSUME NEW c \in Call, Changes(c) PROVE TablesType'
    BY <1>1, <1>2, <1>6, <1>9 DEF TablesType, Changes
  <1> QED
    BY <1>3, <1>4, <1>5, <1>7, <1>8, <1>9, TableSteps

\* Slots, requests, the cookie and the refreshes in flight keep their types.
LEMMA NextWork ==
    ASSUME SessionTypes, MintInv, CopiesInv, [WebNext]_allVars
    PROVE  WorkType'
  <1>1. WorkType
    BY DEF SessionTypes
  <1>2. call' \in [Call -> CallState]
    BY <1>1, CallSteps DEF WorkType
  <1>3. req' \in [Request -> RequestState]
    <2>1. UNCHANGED webVars => req' = req
      BY DEF webVars
    <2>2. \A r \in Request, token \in Token :
             Settles(r, token) \/ Breaks(r, token) => req' \in [Request -> RequestState]
      BY DEF Settles, Breaks
    <2> QED
      BY <1>1, <2>1, <2>2, RequestSteps DEF WorkType
  <1>4. cookie' \in Pair
    <2>1. ASSUME NEW r \in Request, Respond(r) PROVE cookie' \in Pair
      <3>1. cookie' = CookieAfter(req[r].set) /\ req[r].set \in CookieChange
        BY <2>1, InRequests DEF Respond
      <3> QED
        BY <1>1, <3>1, AnswersAreStates DEF WorkType, CookieAfter, CookieChange
    <2> QED
      BY <1>1, <2>1, CookieWriters DEF WorkType
  <1>5. flight' \in [Token -> Request \cup {NoFlight}]
    <2>1. ASSUME NEW r \in Request, Refresh(r)
          PROVE  flight' = flight \/ \E token : flight' = [flight EXCEPT ![token] = r]
      BY <2>1 DEF Refresh
    <2>2. ASSUME NEW r \in Request, Settle(r) \/ Break(r)
          PROVE  \E token : flight' = [flight EXCEPT ![token] = NoFlight]
      BY <2>2 DEF Settle, Break
    <2> QED
      BY <1>1, <2>1, <2>2, FlightWriters DEF WorkType
  <1> QED
    BY <1>2, <1>3, <1>4, <1>5 DEF WorkType

\* Every step preserves the types.
LEMMA NextTypes ==
    ASSUME SessionTypes, MintInv, CopiesInv, [WebNext]_allVars
    PROVE  SessionTypes'
  <1>1. CountsType'
    BY CountWriters, SessionsAssumption DEF SessionTypes, CountsType
  <1> QED
    BY <1>1, NextTables, NextWork DEF SessionTypes

\* What a step does to the tokens to come: none is added without a request
\* that is sent, a request may hand its turn to a call, and one that is minted
\* is no longer to come.
LEMMA MintSteps ==
    ASSUME SessionTypes, MintInv, CopiesInv, [WebNext]_allVars
    PROVE  \/ /\ lastToken' = lastToken
              /\ CallMinters' \subseteq CallMinters /\ RequestMinters' \subseteq RequestMinters
           \/ /\ lastToken' = lastToken /\ calls' = calls + 1
              /\ CallMinters' \subseteq CallMinters
              /\ \E m : RequestMinters' \subseteq RequestMinters \cup {m}
           \/ /\ lastToken' = lastToken /\ calls' = calls + 1
              /\ \E m : CallMinters' \subseteq CallMinters \cup {m}
              /\ RequestMinters' \subseteq RequestMinters
           \/ /\ lastToken' = lastToken
              /\ \E m : CallMinters' \subseteq CallMinters \cup {m}
              /\ \E n \in RequestMinters : RequestMinters' \subseteq RequestMinters \ {n}
           \/ /\ lastToken' = lastToken + 1
              /\ \E m \in CallMinters : CallMinters' \subseteq CallMinters \ {m}
              /\ RequestMinters' \subseteq RequestMinters
  <1>1. call \in [Call -> CallState] /\ req \in [Request -> RequestState]
    BY DEF SessionTypes, WorkType
  <1>2. \/ RequestMinters' \subseteq RequestMinters
        \/ /\ call' = call /\ UNCHANGED tables /\ calls' = calls + 1
           /\ \E m : RequestMinters' \subseteq RequestMinters \cup {m}
    <2>1. CASE UNCHANGED webVars
      BY <2>1 DEF webVars, RequestMinters
    <2>2. ASSUME NEW r \in Request, NEW x \in RequestState,
                 req' = [req EXCEPT ![r] = x], Goes(r, x)
          PROVE  \/ RequestMinters' \subseteq RequestMinters
                 \/ /\ call' = call /\ UNCHANGED tables /\ calls' = calls + 1
                    /\ \E m : RequestMinters' \subseteq RequestMinters \cup {m}
      <3>1. RequestMinters' \subseteq RequestMinters \cup {r}
        BY <1>1, <2>2 DEF RequestMinters
      <3>2. x.pc \notin {"send", "unauthorized"} => RequestMinters' \subseteq RequestMinters
        BY <1>1, <2>2 DEF RequestMinters
      <3>3. r \in RequestMinters => RequestMinters' \subseteq RequestMinters
        BY <3>1
      <3>4. \/ x.pc \notin {"send", "unauthorized"}
            \/ req[r].pc = "send"
            \/ call' = call /\ UNCHANGED tables /\ calls' = calls + 1
        BY <2>2 DEF Goes, Plain, Setting
      <3> QED
        BY <3>1, <3>2, <3>3, <3>4 DEF RequestMinters
    <2>3. ASSUME NEW r \in Request, NEW token \in Token, Settles(r, token) \/ Breaks(r, token)
          PROVE  RequestMinters' \subseteq RequestMinters
      <3>1. \A w \in Request : req'[w] = req[w] \/ req'[w].pc \in {"retry", "answer"}
        BY <2>3 DEF Settles, Breaks, Plain
      <3> QED
        BY <3>1 DEF RequestMinters
    <2> QED
      BY <2>1, <2>2, <2>3, RequestSteps
  <1>3. \/ CallMinters' \subseteq CallMinters /\ lastToken' = lastToken
        \/ \E m : /\ CallMinters' \subseteq CallMinters \cup {m}
                  /\ lastToken' = lastToken
                  /\ \/ calls' = calls + 1
                     \/ \E n \in RequestMinters : RequestMinters' \subseteq RequestMinters \ {n}
        \/ \E m \in CallMinters : /\ CallMinters' \subseteq CallMinters \ {m}
                                  /\ lastToken' = lastToken + 1
                                  /\ UNCHANGED webVars
    <2>1. CASE call' = call /\ UNCHANGED tables
      BY <2>1 DEF CallMinters, tables
    <2>2. ASSUME NEW c \in Call, NEW x \in CallState, call' = [call EXCEPT ![c] = x],
                 call[c].pc = "idle", Begins(c, x), UNCHANGED tables
          PROVE  \E m : /\ CallMinters' \subseteq CallMinters \cup {m}
                        /\ lastToken' = lastToken
                        /\ \/ calls' = calls + 1
                           \/ \E n \in RequestMinters : RequestMinters' \subseteq RequestMinters \ {n}
      <3>1. CallMinters' \subseteq CallMinters \cup {c} /\ lastToken' = lastToken
        BY <1>1, <2>2 DEF CallMinters, tables
      <3>2. calls' = calls + 1 \/ (c \in Request /\ Refresh(c))
        BY <2>2 DEF Begins
      <3>3. ASSUME c \in Request, Refresh(c)
            PROVE  c \in RequestMinters /\ RequestMinters' \subseteq RequestMinters \ {c}
        <4>1. req[c].pc = "unauthorized"
          BY <3>3 DEF Refresh
        <4>2. PICK x2 \in RequestState : req' = [req EXCEPT ![c] = x2] /\ Goes(c, x2)
          BY <3>3, RequestsGo
        <4>3. x2.pc = "refreshing"
          BY <4>1, <4>2 DEF Goes
        <4> QED
          BY <1>1, <3>3, <4>1, <4>2, <4>3 DEF RequestMinters
      <3> QED
        BY <3>1, <3>2, <3>3
    <2>3. ASSUME NEW c \in Call, NEW x \in CallState, call' = [call EXCEPT ![c] = x],
                 x.pc \in {"idle", "done"}
          PROVE  CallMinters' \subseteq CallMinters \ {c}
      BY <1>1, <2>3 DEF CallMinters
    <2>4. ASSUME NEW c \in Call, NEW x \in CallState, call' = [call EXCEPT ![c] = x], Leaves(c, x)
          PROVE  CallMinters' \subseteq CallMinters /\ lastToken' = lastToken
      <3>1. x.pc = "idle" /\ lastToken' = lastToken
        BY <2>4 DEF Leaves, Idle, tables
      <3> QED
        BY <2>3, <2>4, <3>1
    <2>5. ASSUME NEW c \in Call, NEW x \in CallState, call' = [call EXCEPT ![c] = x], Ends(c, x)
          PROVE  \/ CallMinters' \subseteq CallMinters /\ lastToken' = lastToken
                 \/ \E m \in CallMinters : /\ CallMinters' \subseteq CallMinters \ {m}
                                           /\ lastToken' = lastToken + 1
                                           /\ UNCHANGED webVars
      <3>1. CallMinters' \subseteq CallMinters \ {c}
        BY <2>3, <2>5 DEF Ends
      <3>2. CASE SignsUp(c) \/ SignsIn(c) \/ Rotates(c)
        <4>1. c \in CallMinters
          BY <3>2 DEF SignsUp, SignsIn, Rotates, CallMinters
        <4>2. lastToken' = lastToken + 1
          BY <3>2 DEF SignsUp, SignsIn, Rotates, Opens, Fresh
        <4> QED
          BY <2>5, <3>1, <4>1, <4>2 DEF Ends
      <3>3. CASE UNCHANGED tables \/ SignsOut(c) \/ Changes(c)
        <4>1. lastToken' = lastToken
          BY <3>3 DEF SignsOut, Changes, tables
        <4> QED
          BY <3>1, <4>1
      <3> QED
        BY <2>5, <3>2, <3>3 DEF Ends
    <2> QED
      BY <2>1, <2>2, <2>4, <2>5, CallSteps
  <1>4. call' = call => CallMinters' = CallMinters
    BY DEF CallMinters
  <1>5. UNCHANGED tables => lastToken' = lastToken
    BY DEF tables
  <1>6. UNCHANGED webVars => RequestMinters' = RequestMinters
    BY DEF webVars, RequestMinters
  <1>7. CASE \E m : /\ call' = call /\ UNCHANGED tables /\ calls' = calls + 1
                    /\ RequestMinters' \subseteq RequestMinters \cup {m}
    BY <1>4, <1>5, <1>7
  <1>8. CASE RequestMinters' \subseteq RequestMinters
    BY <1>3, <1>8
  <1> QED
    BY <1>2, <1>7, <1>8

\* A finite set that grew by one element at most, or lost one, has so many.
LEMMA Counting ==
    ASSUME NEW S, IsFiniteSet(S), NEW T
    PROVE  /\ Cardinality(S) \in Nat
           /\ T \subseteq S => IsFiniteSet(T) /\ Cardinality(T) \in Nat
                             /\ Cardinality(T) <= Cardinality(S)
           /\ (\E m : T \subseteq S \cup {m}) => IsFiniteSet(T) /\ Cardinality(T) \in Nat
                             /\ Cardinality(T) <= Cardinality(S) + 1
           /\ (\E m \in S : T \subseteq S \ {m}) => IsFiniteSet(T) /\ Cardinality(T) \in Nat
                             /\ Cardinality(T) <= Cardinality(S) - 1
  <1>1. Cardinality(S) \in Nat
    BY FS_CardinalityType
  <1>2. ASSUME NEW bound, IsFiniteSet(bound), T \subseteq bound
        PROVE  IsFiniteSet(T) /\ Cardinality(T) \in Nat /\ Cardinality(T) <= Cardinality(bound)
               /\ Cardinality(bound) \in Nat
    BY <1>2, FS_Subset, FS_CardinalityType
  <1>3. ASSUME NEW m, T \subseteq S \cup {m}
        PROVE  IsFiniteSet(T) /\ Cardinality(T) \in Nat /\ Cardinality(T) <= Cardinality(S) + 1
    <2>1. /\ IsFiniteSet(S \cup {m})
          /\ Cardinality(S \cup {m}) = IF m \in S THEN Cardinality(S) ELSE Cardinality(S) + 1
      BY FS_AddElement
    <2>2. IsFiniteSet(T) /\ Cardinality(T) \in Nat /\ Cardinality(T) <= Cardinality(S \cup {m})
      BY <1>2, <1>3, <2>1
    <2> QED
      BY <1>1, <2>1, <2>2
  <1>4. ASSUME NEW m \in S, T \subseteq S \ {m}
        PROVE  IsFiniteSet(T) /\ Cardinality(T) \in Nat /\ Cardinality(T) <= Cardinality(S) - 1
    <2>1. IsFiniteSet(S \ {m}) /\ Cardinality(S \ {m}) = Cardinality(S) - 1
      BY FS_RemoveElement
    <2> QED
      BY <1>2, <1>4, <2>1
  <1> QED
    BY <1>1, <1>2, <1>3, <1>4

\* Every step keeps the promise that the tokens suffice.
LEMMA NextMint ==
    ASSUME SessionTypes, MintInv, CopiesInv, [WebNext]_allVars
    PROVE  MintInv'
  <1>1. /\ IsFiniteSet(CallMinters) /\ IsFiniteSet(RequestMinters)
        /\ lastToken + Cardinality(CallMinters) + Cardinality(RequestMinters) <= calls + 1
    BY DEF MintInv
  <1>2. Cardinality(CallMinters) \in Nat /\ Cardinality(RequestMinters) \in Nat
    BY <1>1, Counting
  <1>3. lastToken \in Nat /\ calls \in Nat /\ (calls' = calls \/ calls' = calls + 1)
    BY CountWriters DEF SessionTypes, TablesType, CountsType
  <1>4. /\ CallMinters' \subseteq CallMinters => /\ IsFiniteSet(CallMinters')
                                               /\ Cardinality(CallMinters') \in Nat
                                               /\ Cardinality(CallMinters') <= Cardinality(CallMinters)
        /\ (\E m : CallMinters' \subseteq CallMinters \cup {m}) =>
               /\ IsFiniteSet(CallMinters')
               /\ Cardinality(CallMinters') \in Nat
               /\ Cardinality(CallMinters') <= Cardinality(CallMinters) + 1
        /\ (\E m \in CallMinters : CallMinters' \subseteq CallMinters \ {m}) =>
               /\ IsFiniteSet(CallMinters')
               /\ Cardinality(CallMinters') \in Nat
               /\ Cardinality(CallMinters') <= Cardinality(CallMinters) - 1
    BY <1>1, Counting
  <1>5. /\ RequestMinters' \subseteq RequestMinters =>
               /\ IsFiniteSet(RequestMinters')
               /\ Cardinality(RequestMinters') \in Nat
               /\ Cardinality(RequestMinters') <= Cardinality(RequestMinters)
        /\ (\E m : RequestMinters' \subseteq RequestMinters \cup {m}) =>
               /\ IsFiniteSet(RequestMinters')
               /\ Cardinality(RequestMinters') \in Nat
               /\ Cardinality(RequestMinters') <= Cardinality(RequestMinters) + 1
        /\ (\E m \in RequestMinters : RequestMinters' \subseteq RequestMinters \ {m}) =>
               /\ IsFiniteSet(RequestMinters')
               /\ Cardinality(RequestMinters') \in Nat
               /\ Cardinality(RequestMinters') <= Cardinality(RequestMinters) - 1
    BY <1>1, Counting
  <1> DEFINE A == Cardinality(CallMinters)
             B == Cardinality(RequestMinters)
             C == Cardinality(CallMinters')
             D == Cardinality(RequestMinters')
  <1>6. /\ IsFiniteSet(CallMinters') /\ IsFiniteSet(RequestMinters')
        /\ C \in Nat /\ D \in Nat
        /\ \/ lastToken' = lastToken /\ C <= A /\ D <= B
           \/ lastToken' = lastToken /\ calls' = calls + 1 /\ C <= A /\ D <= B + 1
           \/ lastToken' = lastToken /\ calls' = calls + 1 /\ C <= A + 1 /\ D <= B
           \/ lastToken' = lastToken /\ C <= A + 1 /\ D <= B - 1
           \/ lastToken' = lastToken + 1 /\ C <= A - 1 /\ D <= B
    BY <1>4, <1>5, MintSteps
  <1>7. A \in Nat /\ B \in Nat /\ lastToken + A + B <= calls + 1
    BY <1>1, <1>2
  <1> HIDE DEF A, B, C, D
  <1>8. lastToken' + C + D <= calls' + 1
    BY <1>3, <1>6, <1>7
  <1> QED
    BY <1>6, <1>8 DEF MintInv, C, D

-----------------------------------------------------------------------------
(* What a step does to a slot and to a request at once.                     *)

\* A request of a browser moves on and the API is not asked.
Walks(r, x) ==
    /\ req' = [req EXCEPT ![r] = x]
    /\ Goes(r, x)
    /\ req[r].pc \in {"signingIn", "signingOut"} => Plain(x) /\ fate' # {}
    /\ UNCHANGED <<tables, call, flight, broken>>

\* A request signs in or out: the API is asked.
Submits(r, x, y) ==
    /\ req' = [req EXCEPT ![r] = x]
    /\ call' = [call EXCEPT ![r] = y]
    /\ req[r].pc = "idle" /\ call[r].pc = "idle"
    /\ x.pc \in {"signingIn", "signingOut"}
    /\ \/ y.pc = "signIn" /\ y.account \in DOMAIN accounts
       \/ Copy(y, "signOut", cookie.refresh) /\ fate' # {}
       \/ Turned(y)
    /\ UNCHANGED <<tables, flight, cookie, broken>>

\* It takes the answer of the API.
Returns(r, x) ==
    /\ req' = [req EXCEPT ![r] = x]
    /\ call' = [call EXCEPT ![r] = Idle]
    /\ req[r].pc \in {"signingIn", "signingOut"}
    /\ call[r].pc = "done"
    /\ \/ call[r].answer.status = 200 /\ Setting(x, call[r].answer.tokens)
       \/ Plain(x)
    /\ UNCHANGED <<tables, flight, cookie, broken>>

\* It starts the refresh of its token.
Launches(r, x, y) ==
    LET token == req[r].tokens.refresh IN
    /\ req' = [req EXCEPT ![r] = x]
    /\ call' = [call EXCEPT ![r] = y]
    /\ flight' = [flight EXCEPT ![token] = r]
    /\ req[r].pc = "unauthorized" /\ call[r].pc = "idle"
    /\ flight[token] = NoFlight
    /\ fate' = {} => ~(spent[token] > 0)
    /\ x.pc = "refreshing" /\ x.tokens = req[r].tokens
    /\ \/ Copy(y, "refresh", token)
       \/ Turned(y) /\ SessionsWith(token) = {}
    /\ UNCHANGED <<tables, cookie, broken>>

\* Another client asks the API for something, or takes its answer; or the API
\* answers on a connection that is broken.
Asked(c, y) ==
    /\ call' = [call EXCEPT ![c] = y]
    /\ \A t \in Token : flight[t] # NoFlight => flight[t] # c
    /\ \/ c \in Device
       \/ c \in Request /\ y = Idle /\ req[c].pc \notin {"signingIn", "signingOut"}
    /\ \/ /\ call[c].pc = "idle"
          /\ \/ y.pc = "signUp"
             \/ y.pc = "change" /\ y.account \in DOMAIN accounts
             \/ Turned(y)
       \/ call[c].pc = "done" /\ y = Idle
    /\ UNCHANGED <<tables, webVars>>

\* The eight things that a step can be.
LEMMA Steps ==
    ASSUME SessionTypes, MintInv, CopiesInv, [WebNext]_allVars
    PROVE  \/ UNCHANGED <<tables, call, webVars>>
           \/ \E c \in Call, y \in CallState : Asked(c, y)
           \/ \E c \in Call, y \in CallState : call' = [call EXCEPT ![c] = y] /\ Ends(c, y)
           \/ \E r \in Request, x \in RequestState : Walks(r, x) \/ Returns(r, x)
           \/ \E r \in Request, x \in RequestState, y \in CallState :
                 Submits(r, x, y) \/ Launches(r, x, y)
           \/ \E r \in Request, token \in Token : Settles(r, token) \/ Breaks(r, token)
  <1> DEFINE Goal ==
           \/ UNCHANGED <<tables, call, webVars>>
           \/ \E c \in Call, y \in CallState : Asked(c, y)
           \/ \E c \in Call, y \in CallState : call' = [call EXCEPT ![c] = y] /\ Ends(c, y)
           \/ \E r \in Request, x \in RequestState : Walks(r, x) \/ Returns(r, x)
           \/ \E r \in Request, x \in RequestState, y \in CallState :
                 Submits(r, x, y) \/ Launches(r, x, y)
           \/ \E r \in Request, token \in Token : Settles(r, token) \/ Breaks(r, token)
  <1>1. Device \cap Request = {} /\ Device \subseteq Call
    BY DEF Device
  <1>13. \A c \in Device : \A t \in Token : flight[t] # NoFlight => flight[t] # c
    <2>1. \A t \in Token : flight[t] \in Request \cup {NoFlight}
      BY DEF SessionTypes, WorkType
    <2> QED
      BY <1>1, <2>1
  <1>2. ASSUME UNCHANGED allVars PROVE Goal
    BY <1>2 DEF allVars, sessionVars, tables
  <1>3. ASSUME Tick, UNCHANGED webVars PROVE Goal
    BY <1>3 DEF Tick, tables
  <1>4. ASSUME NEW c \in Device, DeviceStep(c), UNCHANGED webVars PROVE Goal
    <2>0. UNCHANGED tables
      BY <1>4, SendersLeaveTables DEF tables
    <2>1. CASE Asks(c)
      <3>1. PICK y \in CallState :
                    call' = [call EXCEPT ![c] = y] /\ call[c].pc = "idle" /\ Begins(c, y)
        BY <1>4, <2>1, AsksBegin
      <3>2. Asked(c, y)
        BY <1>1, <1>4, <1>13, <2>0, <3>1 DEF Begins, Asked
      <3> QED
        BY <1>1, <3>1, <3>2
    <2>2. CASE TakeAnswer(c)
      <3>1. Asked(c, Idle)
        BY <1>4, <1>13, <2>0, <2>2 DEF TakeAnswer, Asked
      <3> QED
        BY <1>1, <3>1, AnswersAreStates
    <2> QED
      BY <1>4, <2>1, <2>2 DEF DeviceStep, Asks
  <1>14. ASSUME NEW r \in Request, Drop(r) PROVE Goal
    <2>1. /\ \A t \in Token : flight[t] # r
          /\ req[r].pc \notin {"signingIn", "signingOut"}
          /\ call[r].pc = "done" /\ call' = [call EXCEPT ![r] = Idle]
          /\ UNCHANGED <<tables, webVars>>
      BY <1>14 DEF Drop, TakeAnswer, tables
    <2>2. Asked(r, Idle)
      BY <2>1 DEF Asked
    <2> QED
      BY <2>2, AnswersAreStates, WebSessionAssumption
  <1>5. ASSUME NEW c \in Call, FinishCall(c) \/ FailCall(c), UNCHANGED webVars PROVE Goal
    BY <1>5, CallsEnd
  <1>6. ASSUME NEW r \in Request, Settle(r) \/ Break(r) PROVE Goal
    BY <1>6, RefreshesSettle
  <1>7. ASSUME NEW r \in Request,
               \/ \E kind \in Kind : Arrive(r, kind)
               \/ Send(r) \/ Retry(r) \/ Respond(r) \/ BreakSigning(r)
        PROVE  Goal
    <2>1. PICK x \in RequestState : req' = [req EXCEPT ![r] = x] /\ Goes(r, x)
      BY <1>7, RequestsGo
    <2>2. UNCHANGED <<tables, call, flight, broken>>
      BY <1>7 DEF Arrive, Counted, Send, Retry, Respond, BreakSigning, sessionVars, tables
    <2>4. req[r].pc \in {"signingIn", "signingOut"} => Plain(x) /\ fate' # {}
      <3>1. req[r] = Idle \/ req[r].pc \in {"send", "retry", "answer"} \/ BreakSigning(r)
        BY <1>7 DEF Arrive, Send, Retry, Respond
      <3>2. BreakSigning(r) => call' = call
        BY DEF BreakSigning
      <3>3. SignedIn(r) \/ SignedOut(r) => call[r].pc = "done" /\ call' = [call EXCEPT ![r] = Idle]
        BY DEF SignedIn, SignedOut, TakeAnswer
      <3>4. call[r].pc = "done" /\ call' = [call EXCEPT ![r] = Idle] => call' # call
        <4>1. r \in Call /\ Idle.pc = "idle"
          BY WebSessionAssumption DEF Idle
        <4>2. call' = [call EXCEPT ![r] = Idle] => call'[r] = Idle
          BY <4>1 DEF SessionTypes, WorkType
        <4> QED
          BY <4>1, <4>2
      <3> QED
        BY <2>1, <2>2, <3>1, <3>3, <3>4 DEF Idle, Goes
    <2>3. Walks(r, x)
      BY <2>1, <2>2, <2>4 DEF Walks
    <2> QED
      BY <2>1, <2>3
  <1>8. ASSUME NEW r \in Request, SignedIn(r) \/ SignedOut(r) PROVE Goal
    <2>1. PICK x \in RequestState : req' = [req EXCEPT ![r] = x] /\ Goes(r, x)
      BY <1>8, RequestsGo
    <2>2. /\ req[r].pc \in {"signingIn", "signingOut"}
          /\ call[r].pc = "done" /\ call' = [call EXCEPT ![r] = Idle]
          /\ broken' = broken
      BY <1>8 DEF SignedIn, SignedOut, TakeAnswer
    <2>3. Returns(r, x)
      BY <2>1, <2>2 DEF Returns, Goes
    <2> QED
      BY <2>1, <2>3
  <1>9. ASSUME NEW r \in Request, Refresh(r) PROVE Goal
    <2>1. PICK x \in RequestState : req' = [req EXCEPT ![r] = x] /\ Goes(r, x)
      BY <1>9, RequestsGo
    <2> DEFINE token == req[r].tokens.refresh
    <2>2. req[r].pc = "unauthorized" /\ broken' = broken
      BY <1>9 DEF Refresh
    <2>3. /\ x.pc = "refreshing" /\ x.tokens = req[r].tokens
          /\ UNCHANGED <<tables, cookie>>
      BY <2>1, <2>2 DEF Goes
    <2>4. CASE InFlight(token)
      <3>1. UNCHANGED <<call, flight>>
        BY <1>9, <2>4 DEF Refresh, sessionVars
      <3>2. Walks(r, x)
        BY <2>1, <2>2, <2>3, <3>1 DEF Walks
      <3> QED
        BY <2>1, <3>2
    <2>5. CASE ~InFlight(token)
      <3>1. /\ call[r].pc = "idle" /\ call' = [call EXCEPT ![r] = RefreshWork(token)]
            /\ flight' = [flight EXCEPT ![token] = r]
        BY <1>9, <2>5 DEF Refresh, Idle
      <3>2. PICK y \in CallState : y = RefreshWork(token)
                     /\ (Copy(y, "refresh", token) \/ (Turned(y) /\ SessionsWith(token) = {}))
        BY FoundCopies, TurnedAway DEF RefreshWork
      <3>3. fate' = {} => ~(spent[token] > 0)
        BY <1>9, <2>5 DEF Refresh
      <3>4. flight[token] = NoFlight
        BY <2>5 DEF InFlight
      <3>5. Launches(r, x, y)
        BY <2>1, <2>2, <2>3, <3>1, <3>2, <3>3, <3>4 DEF Launches
      <3> QED
        BY <2>1, <3>2, <3>5
    <2> QED
      BY <2>4, <2>5
  <1>10. ASSUME NEW r \in Request,
                (\E m \in Email, p \in Password : SubmitSignIn(r, m, p)) \/ SubmitSignOut(r)
         PROVE  Goal
    <2>1. PICK x \in RequestState : req' = [req EXCEPT ![r] = x] /\ Goes(r, x)
      BY <1>10, RequestsGo
    <2>2. req[r].pc = "idle"
      <3>1. req[r] = Idle
        BY <1>10 DEF SubmitSignIn, SubmitSignOut
      <3> QED
        BY <3>1 DEF Idle
    <2>3. \/ call' = call
          \/ \E y \in CallState :
                 call' = [call EXCEPT ![r] = y] /\ call[r].pc = "idle" /\ Begins(r, y)
      BY <1>10, BrowsersBegin
    <2>4. UNCHANGED <<tables, flight, cookie, broken>>
      BY <1>10, SendersLeaveTables DEF tables, Browse, SubmitSignIn, SubmitSignOut
    <2>5. CASE call' = call
      <3>1. Walks(r, x)
        BY <2>1, <2>2, <2>4, <2>5 DEF Walks
      <3> QED
        BY <2>1, <3>1
    <2>6. ASSUME NEW y \in CallState, call' = [call EXCEPT ![r] = y], call[r].pc = "idle",
                 Begins(r, y), call' # call
          PROVE  Submits(r, x, y)
      <3>1. x.pc \in {"signingIn", "signingOut"}
        <4>1. x.pc \notin {"send"} \/ call' = call
          BY <2>1, <2>2 DEF Goes
        <4> QED
          BY <2>1, <2>2, <2>6 DEF Goes
      <3>2. \/ y.pc = "signIn" /\ y.account \in DOMAIN accounts
            \/ Copy(y, "signOut", cookie.refresh) /\ fate' # {}
            \/ Turned(y)
        <4>1. SubmitSignOut(r) => fate' # {}
          <5>1. SubmitSignOut(r) => "signed out" \in fate'
            BY DEF SubmitSignOut
          <5> QED
            BY <5>1
        <4>2. r \notin Device /\ ~Refresh(r)
          BY <1>1, <2>2 DEF Refresh
        <4> QED
          BY <2>6, <4>1, <4>2 DEF Begins
      <3> QED
        BY <2>1, <2>2, <2>4, <2>6, <3>1, <3>2 DEF Submits
    <2> QED
      BY <2>1, <2>3, <2>5, <2>6
  <1> HIDE DEF Goal
  <1>11. Goal
    BY <1>2, <1>3, <1>4, <1>5, <1>6, <1>7, <1>8, <1>9, <1>10, <1>14
       DEF WebNext, RequestStep, Browse
  <1> QED
    BY <1>11 DEF Goal

\* One slot, one request, one entry of the map changes.
LEMMA OneChanges ==
    ASSUME SessionTypes
    PROVE  /\ \A c \in Call : \A y : call' = [call EXCEPT ![c] = y] =>
                 call'[c] = y /\ \A d \in Call : d # c => call'[d] = call[d]
           /\ \A r \in Request : \A x : req' = [req EXCEPT ![r] = x] =>
                 req'[r] = x /\ \A w \in Request : w # r => req'[w] = req[w]
           /\ \A t \in Token : \A r : flight' = [flight EXCEPT ![t] = r] =>
                 flight'[t] = r /\ \A z \in Token : z # t => flight'[z] = flight[z]
  BY DEF SessionTypes, WorkType

\* A token that has been minted is one of the tokens there can be.
LEMMA KnownTokens ==
    ASSUME SessionTypes, MintInv
    PROVE  /\ \A t : Known(t) => t \in Token /\ t <= lastToken /\ t \in Nat
           /\ lastToken <= MaxCalls + 1
           /\ lastToken \in Nat
  <1>1. lastToken \in Nat /\ calls \in Nat /\ calls <= MaxCalls /\ MaxCalls \in Nat
    BY SessionsAssumption DEF SessionTypes, TablesType, CountsType
  <1>2. /\ lastToken + Cardinality(CallMinters) + Cardinality(RequestMinters) <= calls + 1
        /\ Cardinality(CallMinters) \in Nat /\ Cardinality(RequestMinters) \in Nat
    BY FS_CardinalityType DEF MintInv
  <1>3. lastToken <= MaxCalls + 1
    BY <1>1, <1>2
  <1> QED
    BY <1>1, <1>3 DEF Known, Token

\* Every step keeps the map of refreshes in flight true to the requests and
\* to the slots: one request refreshes a token, and the others wait.
LEMMA NextFlight ==
    ASSUME SessionTypes, MintInv, CopiesInv, FlightInv, HeldInv, [WebNext]_allVars
    PROVE  FlightInv'
  <1> DEFINE Owned ==
          \A t \in Token :
             flight'[t] # NoFlight =>
                /\ req'[flight'[t]].pc = "refreshing"
                /\ req'[flight'[t]].tokens.refresh = t
                /\ call'[flight'[t]].pc \in {"refresh", "done"}
                /\ call'[flight'[t]].pc = "refresh" => call'[flight'[t]].seen.hash = t
             Entered ==
          \A c \in Call :
             call'[c].pc = "refresh" =>
                /\ c \in Request
                /\ flight'[call'[c].seen.hash] = c \/ call'[c].seen.hash \in broken'
  <1>0. /\ Request \subseteq Call /\ NoFlight \notin Request /\ Device \cap Request = {}
        /\ Device \subseteq Call
        /\ \A t \in Token : flight[t] \in Request \cup {NoFlight}
        /\ \A c \in Call : call[c].pc = "refresh" => call[c].seen.hash \in Token
        /\ broken \subseteq broken'
    BY WebSessionAssumption, InSlots, InTables, FateWriters DEF Device, SessionTypes, WorkType
  <1>1. CASE UNCHANGED <<tables, call, webVars>>
    BY <1>1 DEF FlightInv, webVars
  <1>2. ASSUME NEW c \in Call, NEW y \in CallState, Asked(c, y) PROVE Owned /\ Entered
    <2>1. /\ call'[c] = y /\ \A d \in Call : d # c => call'[d] = call[d]
          /\ req' = req /\ flight' = flight
          /\ \A t \in Token : flight[t] # NoFlight => flight[t] # c
      BY <1>2, OneChanges DEF Asked, webVars
    <2>2. y.pc # "refresh"
      BY <1>2 DEF Asked, Turned, Idle
    <2> QED
      BY <1>0, <2>1, <2>2 DEF FlightInv
  <1>3. ASSUME NEW c \in Call, NEW y \in CallState, call' = [call EXCEPT ![c] = y], Ends(c, y)
        PROVE  Owned /\ Entered
    <2>1. /\ call'[c] = y /\ \A d \in Call : d # c => call'[d] = call[d]
          /\ req' = req /\ flight' = flight
          /\ y.pc = "done"
      BY <1>3, OneChanges DEF Ends, webVars
    <2> QED
      BY <1>0, <2>1 DEF FlightInv
  <1>4. ASSUME NEW r \in Request, NEW x \in RequestState, Walks(r, x) PROVE Owned /\ Entered
    <2>1. /\ req'[r] = x /\ \A w \in Request : w # r => req'[w] = req[w]
          /\ call' = call /\ flight' = flight
      BY <1>4, OneChanges DEF Walks
    <2>2. req[r].pc # "refreshing"
      BY <1>4 DEF Walks, Goes
    <2>3. \A t \in Token : flight[t] # r
      BY <1>0, <2>2 DEF FlightInv
    <2> QED
      BY <1>0, <2>1, <2>3 DEF FlightInv
  <1>5. ASSUME NEW r \in Request, NEW x \in RequestState, Returns(r, x) PROVE Owned /\ Entered
    <2>1. /\ req'[r] = x /\ \A w \in Request : w # r => req'[w] = req[w]
          /\ call'[r] = Idle /\ \A d \in Call : d # r => call'[d] = call[d]
          /\ flight' = flight
      <3>1. /\ req' = [req EXCEPT ![r] = x] /\ call' = [call EXCEPT ![r] = Idle]
            /\ r \in Call /\ flight' = flight
        BY <1>0, <1>5 DEF Returns
      <3> QED
        BY <3>1, OneChanges
    <2>2. \A t \in Token : flight[t] # r
      BY <1>0, <1>5 DEF FlightInv, Returns
    <2>3. Idle.pc = "idle"
      BY DEF Idle
    <2> QED
      BY <1>0, <2>1, <2>2, <2>3 DEF FlightInv
  <1>6. ASSUME NEW r \in Request, NEW x \in RequestState, NEW y \in CallState, Submits(r, x, y)
        PROVE  Owned /\ Entered
    <2>1. /\ req'[r] = x /\ \A w \in Request : w # r => req'[w] = req[w]
          /\ call'[r] = y /\ \A d \in Call : d # r => call'[d] = call[d]
          /\ flight' = flight
      <3>1. /\ req' = [req EXCEPT ![r] = x] /\ call' = [call EXCEPT ![r] = y]
            /\ r \in Call /\ flight' = flight
        BY <1>0, <1>6 DEF Submits
      <3> QED
        BY <3>1, OneChanges
    <2>2. \A t \in Token : flight[t] # r
      BY <1>0, <1>6 DEF FlightInv, Submits
    <2>3. y.pc # "refresh"
      BY <1>6 DEF Submits, Copy, Turned
    <2> QED
      BY <1>0, <2>1, <2>2, <2>3 DEF FlightInv
  <1>7. ASSUME NEW r \in Request, NEW x \in RequestState, NEW y \in CallState, Launches(r, x, y)
        PROVE  Owned /\ Entered
    <2> DEFINE token == req[r].tokens.refresh
    <2>1. token \in Token
      BY <1>7, KnownTokens DEF Launches, HeldInv
    <2>2. /\ req'[r] = x /\ \A w \in Request : w # r => req'[w] = req[w]
          /\ call'[r] = y /\ \A d \in Call : d # r => call'[d] = call[d]
          /\ flight'[token] = r /\ \A z \in Token : z # token => flight'[z] = flight[z]
      <3>1. /\ req' = [req EXCEPT ![r] = x] /\ call' = [call EXCEPT ![r] = y]
            /\ r \in Call /\ flight' = [flight EXCEPT ![token] = r]
        BY <1>0, <1>7 DEF Launches
      <3> HIDE DEF token
      <3> QED
        BY <2>1, <3>1, OneChanges
    <2>3. \A t \in Token : flight[t] # r
      BY <1>0, <1>7 DEF FlightInv, Launches
    <2>4. /\ x.pc = "refreshing" /\ x.tokens.refresh = token
          /\ y.pc \in {"refresh", "done"}
          /\ y.pc = "refresh" => y.seen.hash = token
          /\ flight[token] = NoFlight
      BY <1>7 DEF Launches, Copy, Turned
    <2> HIDE DEF token
    <2>5. \A c \in Call : c # r /\ call[c].pc = "refresh" =>
             /\ c \in Request
             /\ \/ call[c].seen.hash # token /\ flight[call[c].seen.hash] = c
                \/ call[c].seen.hash \in broken
      BY <1>0, <2>4 DEF FlightInv
    <2>6. Owned
      BY <1>0, <2>1, <2>2, <2>3, <2>4 DEF FlightInv
    <2>7. Entered
      BY <1>0, <2>1, <2>2, <2>4, <2>5
    <2> QED
      BY <2>6, <2>7
  <1>8. ASSUME NEW r \in Request, NEW token \in Token, Settles(r, token) PROVE Owned /\ Entered
    <2>1. /\ call'[r] = Idle /\ \A d \in Call : d # r => call'[d] = call[d]
          /\ flight'[token] = NoFlight /\ \A z \in Token : z # token => flight'[z] = flight[z]
          /\ flight[token] = r /\ call[r].pc = "done"
      <3>1. /\ call' = [call EXCEPT ![r] = Idle] /\ flight' = [flight EXCEPT ![token] = NoFlight]
            /\ r \in Call /\ flight[token] = r /\ call[r].pc = "done"
        BY <1>0, <1>8 DEF Settles
      <3>2. call'[r] = Idle /\ \A d \in Call : d # r => call'[d] = call[d]
        BY <3>1, OneChanges
      <3>3. flight'[token] = NoFlight /\ \A z \in Token : z # token => flight'[z] = flight[z]
        BY <3>1 DEF SessionTypes, WorkType
      <3> QED
        BY <3>1, <3>2, <3>3
    <2>2. Idle.pc = "idle"
      BY DEF Idle
    <2>3. \A w \in Request \ Waiting(token) : req'[w] = req[w]
      BY <1>8 DEF Settles
    <2>4. \A t \in Token : t # token /\ flight[t] # NoFlight =>
             flight[t] \in Request \ Waiting(token) /\ flight[t] # r
      BY <1>0, <2>1 DEF FlightInv, Waiting
    <2>5. \A c \in Call : call[c].pc = "refresh" =>
             call[c].seen.hash # token \/ call[c].seen.hash \in broken
      BY <1>0, <2>1 DEF FlightInv
    <2>6. Owned
      BY <1>0, <2>1, <2>3, <2>4 DEF FlightInv
    <2>7. Entered
      BY <1>0, <2>1, <2>2, <2>5 DEF FlightInv
    <2> QED
      BY <2>6, <2>7
  <1>9. ASSUME NEW r \in Request, NEW token \in Token, Breaks(r, token) PROVE Owned /\ Entered
    <2>1. /\ call' = call
          /\ flight'[token] = NoFlight /\ \A z \in Token : z # token => flight'[z] = flight[z]
          /\ flight[token] = r
          /\ broken' = broken \cup Unheard(r, token)
      <3>1. /\ flight' = [flight EXCEPT ![token] = NoFlight] /\ call' = call
            /\ flight[token] = r /\ broken' = broken \cup Unheard(r, token)
        BY <1>9 DEF Breaks
      <3> QED
        BY <3>1 DEF SessionTypes, WorkType
    <2>2. \A w \in Request \ Waiting(token) : req'[w] = req[w]
      BY <1>9 DEF Breaks
    <2>3. \A t \in Token : t # token /\ flight[t] # NoFlight =>
             flight[t] \in Request \ Waiting(token)
      BY <1>0, <2>1 DEF FlightInv, Waiting
    <2>4. call[r].pc = "refresh" => token \in broken'
      BY <2>1 DEF Unheard
    <2>5. \A c \in Call : call[c].pc = "refresh" =>
             c = r \/ call[c].seen.hash # token \/ call[c].seen.hash \in broken
      BY <1>0, <2>1 DEF FlightInv
    <2>6. Owned
      BY <1>0, <2>1, <2>2, <2>3 DEF FlightInv
    <2>7. call[r].pc = "refresh" => call[r].seen.hash = token
      BY <1>0, <2>1 DEF FlightInv
    <2>8. Entered
      BY <1>0, <2>1, <2>4, <2>5, <2>7 DEF FlightInv
    <2> QED
      BY <2>6, <2>8
  <1>10. broken' # {} => fate' # {}
    BY FateWriters DEF FlightInv
  <1>11. CASE Owned /\ Entered
    BY <1>10, <1>11 DEF FlightInv
  <1> HIDE DEF Owned, Entered
  <1> QED
    BY <1>1, <1>2, <1>3, <1>4, <1>5, <1>6, <1>7, <1>8, <1>9, <1>11, Steps

-----------------------------------------------------------------------------
(* Where tokens are.                                                        *)

\* What a step does to the hashes: none changes, one row gets the next token,
\* or one row gets back the hash of a copy that a request held.
Unrotated ==
    /\ lastToken' = lastToken
    /\ DOMAIN sessions' = DOMAIN sessions
    /\ \A s \in DOMAIN sessions : sessions'[s].hash = sessions[s].hash

Renewed(s) ==
    /\ lastToken' = lastToken + 1
    /\ DOMAIN sessions' = DOMAIN sessions \cup {s}
    /\ sessions'[s].hash = lastToken + 1
    /\ sessions'[s].account \in DOMAIN accounts'
    /\ \A z \in DOMAIN sessions : z # s => sessions'[z].hash = sessions[z].hash

Restored(c) ==
    /\ Reads(c)
    /\ lastToken' = lastToken
    /\ DOMAIN sessions' = DOMAIN sessions
    /\ sessions'[call[c].session].hash = call[c].seen.hash
    /\ \A z \in DOMAIN sessions :
          z # call[c].session => sessions'[z].hash = sessions[z].hash

\* No account, session or owner of a session is ever lost.
LEMMA HashesMove ==
    ASSUME SessionTypes, MintInv, CopiesInv, RowsInv, [WebNext]_allVars
    PROVE  /\ DOMAIN accounts \subseteq DOMAIN accounts'
           /\ DOMAIN sessions \subseteq DOMAIN sessions'
           /\ \A s \in DOMAIN sessions : sessions'[s].account = sessions[s].account
           /\ Unrotated \/ (\E s : Renewed(s)) \/ (\E c \in Call : Restored(c))
  <1> DEFINE Kept == /\ DOMAIN accounts \subseteq DOMAIN accounts'
                     /\ DOMAIN sessions \subseteq DOMAIN sessions'
                     /\ \A s \in DOMAIN sessions : sessions'[s].account = sessions[s].account
             Goal == Kept /\ (Unrotated \/ (\E s : Renewed(s)) \/ (\E c \in Call : Restored(c)))
  <1>0. Fresh = lastToken + 1
    BY DEF Fresh
  <1>1. ASSUME UNCHANGED tables PROVE Goal
    BY <1>1 DEF tables, Unrotated
  <1>2. ASSUME NEW account \in DOMAIN accounts', NEW password,
               DOMAIN accounts \subseteq DOMAIN accounts', Opens(account, password)
        PROVE  Goal
    <2>1. \A s \in DOMAIN sessions : sessions'[s] = sessions[s] /\ s # Len(sessions) + 1
      BY <1>2 DEF Opens
    <2>2. /\ sessions'[Len(sessions) + 1].hash = Fresh
          /\ sessions'[Len(sessions) + 1].account = account
      BY <1>2 DEF Opens, Issued, Row
    <2>3. Renewed(Len(sessions) + 1)
      BY <1>0, <1>2, <2>1, <2>2 DEF Renewed, Opens
    <2> QED
      BY <1>2, <2>1, <2>3 DEF Opens
  <1>3. ASSUME NEW c \in Call, SignsUp(c) PROVE Goal
    BY <1>2, <1>3 DEF SignsUp
  <1>4. ASSUME NEW c \in Call, SignsIn(c) PROVE Goal
    BY <1>2, <1>4 DEF SignsIn, CopiesInv
  <1>5. ASSUME NEW c \in Call, Rotates(c) PROVE Goal
    <2>1. /\ call[c].session \in DOMAIN sessions
          /\ call[c].seen.account = sessions[call[c].session].account
      BY <1>5 DEF Rotates, CopiesInv, Reads
    <2>2. /\ sessions'[call[c].session].hash = Fresh
          /\ sessions'[call[c].session].account = call[c].seen.account
          /\ accounts' = accounts
      BY <1>5 DEF Rotates, Saves, Rotated, Row
    <2>3. sessions[call[c].session].account \in DOMAIN accounts
      BY <2>1 DEF RowsInv
    <2>4. Renewed(call[c].session)
      BY <1>0, <1>5, <2>1, <2>2, <2>3 DEF Renewed, Rotates, Saves
    <2>5. Kept
      BY <1>5, <2>1, <2>2 DEF Rotates, Saves
    <2> QED
      BY <2>4, <2>5
  <1>6. ASSUME NEW c \in Call, SignsOut(c) PROVE Goal
    <2>1. /\ call[c].session \in DOMAIN sessions
          /\ call[c].seen.account = sessions[call[c].session].account
          /\ Reads(c)
      BY <1>6 DEF SignsOut, CopiesInv, Reads
    <2>2. /\ sessions'[call[c].session].hash = call[c].seen.hash
          /\ sessions'[call[c].session].account = call[c].seen.account
          /\ accounts' = accounts
      BY <1>6 DEF SignsOut, Saves, Revoked, Row
    <2>3. Restored(c)
      BY <1>6, <2>1, <2>2 DEF Restored, SignsOut, Saves
    <2>4. Kept
      BY <1>6, <2>1, <2>2 DEF SignsOut, Saves
    <2> QED
      BY <2>3, <2>4
  <1>7. ASSUME NEW c \in Call, Changes(c) PROVE Goal
    <2>1. \A s \in DOMAIN sessions :
             sessions'[s].hash = sessions[s].hash /\ sessions'[s].account = sessions[s].account
      BY <1>7 DEF Changes, Revoked, Row
    <2> QED
      BY <1>7, <2>1 DEF Changes, Unrotated
  <1> HIDE DEF Goal
  <1>8. Goal
    BY <1>1, <1>3, <1>4, <1>5, <1>6, <1>7, TableSteps
  <1> QED
    BY <1>8 DEF Goal

\* Tokens that are known stay known.
LEMMA KnownForEver ==
    ASSUME SessionTypes, MintInv, CopiesInv, RowsInv, [WebNext]_allVars
    PROVE  /\ lastToken' \in {lastToken, lastToken + 1}
           /\ \A t : Known(t) => t \in 1..lastToken'
  <1>1. lastToken' \in {lastToken, lastToken + 1}
    BY HashesMove DEF Unrotated, Renewed, Restored
  <1> QED
    BY <1>1 DEF Known, SessionTypes, TablesType

\* Every step keeps each token in one row.
LEMMA NextRows ==
    ASSUME SessionTypes, MintInv, CopiesInv, RowsInv, [WebNext]_allVars
    PROVE  RowsInv'
  <1>1. /\ lastToken \in Nat
        /\ \A s \in DOMAIN sessions : sessions[s].hash \in 1..lastToken
        /\ \A s \in DOMAIN sessions : sessions[s].account \in DOMAIN accounts
        /\ \A s, z \in DOMAIN sessions : sessions[s].hash = sessions[z].hash => s = z
    BY KnownTokens DEF RowsInv, Known
  <1>2. /\ \A s \in DOMAIN sessions' :
             sessions'[s].hash \in 1..lastToken' /\ sessions'[s].account \in DOMAIN accounts'
        /\ \A s, z \in DOMAIN sessions' : sessions'[s].hash = sessions'[z].hash => s = z
    <2>1. CASE Unrotated
      BY <1>1, <2>1, HashesMove DEF Unrotated
    <2>2. ASSUME NEW s, Renewed(s)
          PROVE  /\ \A k \in DOMAIN sessions' :
                       sessions'[k].hash \in 1..lastToken' /\ sessions'[k].account \in DOMAIN accounts'
                 /\ \A k, z \in DOMAIN sessions' : sessions'[k].hash = sessions'[z].hash => k = z
      <3>1. \A k \in DOMAIN sessions' : k = s \/ (k \in DOMAIN sessions
                 /\ sessions'[k].hash = sessions[k].hash /\ sessions[k].hash # lastToken + 1
                 /\ sessions'[k].hash \in 1..lastToken'
                 /\ sessions'[k].account \in DOMAIN accounts')
        BY <1>1, <2>2, HashesMove DEF Renewed
      <3>2. /\ sessions'[s].hash = lastToken + 1 /\ sessions'[s].hash \in 1..lastToken'
            /\ sessions'[s].account \in DOMAIN accounts'
        BY <1>1, <2>2 DEF Renewed
      <3> QED
        BY <1>1, <3>1, <3>2
    <2>3. ASSUME NEW c \in Call, Restored(c)
          PROVE  /\ \A k \in DOMAIN sessions' :
                       sessions'[k].hash \in 1..lastToken' /\ sessions'[k].account \in DOMAIN accounts'
                 /\ \A k, z \in DOMAIN sessions' : sessions'[k].hash = sessions'[z].hash => k = z
      <3>1. /\ call[c].session \in DOMAIN sessions
            /\ call[c].seen.hash \in 1..lastToken
            /\ \A k \in DOMAIN sessions : sessions[k].hash = call[c].seen.hash => k = call[c].session
        BY <2>3 DEF Restored, CopiesInv, Known
      <3>2. \A k \in DOMAIN sessions' : sessions'[k].hash \in 1..lastToken'
        BY <1>1, <2>3, <3>1 DEF Restored
      <3>3. \A k \in DOMAIN sessions' : sessions'[k].account \in DOMAIN accounts'
        BY <1>1, <2>3, HashesMove DEF Restored
      <3>4. \A k, z \in DOMAIN sessions' : sessions'[k].hash = sessions'[z].hash => k = z
        BY <1>1, <2>3, <3>1 DEF Restored
      <3> QED
        BY <3>2, <3>3, <3>4
    <2> QED
      BY <2>1, <2>2, <2>3, HashesMove
  <1>3. \A t \in superseded' : t \in 1..lastToken'
    <2>1. \A t \in superseded : t \in 1..lastToken'
      BY KnownForEver DEF RowsInv
    <2>2. ASSUME NEW c \in Call, NEW row, Reads(c), Saves(c, row)
          PROVE  \A t \in superseded' : t \in superseded \/ t \in 1..lastToken'
      <3>1. sessions[call[c].session].hash \in 1..lastToken'
        BY <2>2, KnownForEver DEF CopiesInv, RowsInv
      <3> QED
        BY <2>2, <3>1 DEF Saves
    <2>3. \/ superseded' = superseded
          \/ \E c \in Call : \E row : Reads(c) /\ Saves(c, row)
      <3>1. ASSUME NEW c \in Call, SignsUp(c) \/ SignsIn(c) \/ Changes(c) PROVE superseded' = superseded
        BY <3>1 DEF SignsUp, SignsIn, Changes, Opens
      <3>2. ASSUME NEW c \in Call, Rotates(c) \/ SignsOut(c) PROVE \E row : Reads(c) /\ Saves(c, row)
        BY <3>2 DEF Rotates, SignsOut, Reads
      <3> QED
        BY <3>1, <3>2, TableSteps DEF tables
    <2> QED
      BY <2>1, <2>2, <2>3
  <1>4. \A t \in Token : t > lastToken' => spent'[t] = 0
    <2>1. \A t \in Token : t > lastToken' => t > lastToken /\ spent[t] = 0
      BY <1>1, KnownForEver DEF RowsInv, Token
    <2>2. ASSUME NEW c \in Call, Rotates(c)
          PROVE  \A t \in Token : t > lastToken => spent'[t] = spent[t]
      <3>1. call[c].seen.hash \in 1..lastToken
        BY <2>2 DEF Rotates, CopiesInv, Reads, Known
      <3>2. \A t \in Token : t > lastToken => t # call[c].seen.hash
        BY <1>1, <3>1 DEF Token
      <3> QED
        BY <2>2, <3>2 DEF Rotates, SessionTypes, TablesType
    <2>3. \/ spent' = spent
          \/ \E c \in Call : Rotates(c)
      BY TableSteps DEF tables, SignsUp, SignsIn, SignsOut, Changes, Opens
    <2> QED
      BY <2>1, <2>2, <2>3
  <1> QED
    BY <1>2, <1>3, <1>4 DEF RowsInv, Known

\* Every step keeps the copies that requests hold in memory tied to their rows.
LEMMA NextCopies ==
    ASSUME SessionTypes, MintInv, CopiesInv, RowsInv, [WebNext]_allVars
    PROVE  CopiesInv'
  <1>1. CASE call' = call /\ UNCHANGED tables
    BY <1>1 DEF CopiesInv, Reads, Known, tables
  <1>2. ASSUME NEW c \in Call, NEW y, UNCHANGED tables,
               call'[c] = y, \A d \in Call : d # c => call'[d] = call[d],
               y.pc \in {"refresh", "signOut"} =>
                  y.session \in DOMAIN sessions /\ y.seen = sessions[y.session],
               y.pc \in {"signIn", "change"} => y.account \in DOMAIN accounts
        PROVE  CopiesInv'
    <2>1. y.pc \in {"refresh", "signOut"} =>
             /\ y.session \in DOMAIN sessions
             /\ y.seen.account = sessions[y.session].account
             /\ Known(y.seen.hash)
             /\ \A s \in DOMAIN sessions : sessions[s].hash = y.seen.hash => s = y.session
             /\ \A d \in Call : Reads(d) /\ call[d].seen.hash = y.seen.hash
                                   => call[d].session = y.session
      BY <1>2 DEF CopiesInv, RowsInv
    <2>2. /\ sessions' = sessions /\ accounts' = accounts /\ lastToken' = lastToken
      BY <1>2 DEF tables
    <2> QED
      BY <1>2, <2>1, <2>2 DEF CopiesInv, Reads, Known
  <1>3. ASSUME NEW c \in Call, NEW y, call'[c] = y, y.pc = "done",
               \A d \in Call : d # c => call'[d] = call[d]
        PROVE  CopiesInv'
    <2>1. \A d \in Call : call'[d].pc # "done" => d # c /\ call'[d] = call[d]
      BY <1>3
    <2>2. \A d \in Call : Reads(d) =>
             /\ call[d].session \in DOMAIN sessions'
             /\ call[d].seen.account = sessions'[call[d].session].account
             /\ call[d].seen.hash \in 1..lastToken'
      BY HashesMove, KnownForEver DEF CopiesInv
    <2>3. \A d \in Call : Reads(d) =>
             \A s \in DOMAIN sessions' :
                sessions'[s].hash = call[d].seen.hash => s = call[d].session
      <3>1. CASE Unrotated
        BY <3>1 DEF Unrotated, CopiesInv
      <3>2. ASSUME NEW z, Renewed(z)
            PROVE  \A d \in Call : Reads(d) =>
                      \A s \in DOMAIN sessions' :
                         sessions'[s].hash = call[d].seen.hash => s = call[d].session
        <4>1. \A d \in Call : Reads(d) => call[d].seen.hash # lastToken + 1
          BY KnownTokens DEF CopiesInv
        <4> QED
          BY <3>2, <4>1 DEF Renewed, CopiesInv
      <3>3. ASSUME NEW e \in Call, Restored(e)
            PROVE  \A d \in Call : Reads(d) =>
                      \A s \in DOMAIN sessions' :
                         sessions'[s].hash = call[d].seen.hash => s = call[d].session
        BY <3>3 DEF Restored, CopiesInv
      <3> QED
        BY <3>1, <3>2, <3>3, HashesMove
    <2>4. \A d \in Call : Reads(d)' => call'[d] = call[d] /\ Reads(d)
      BY <2>1 DEF Reads
    <2>5. \A d \in Call : call'[d].pc \in {"signIn", "change"} =>
             call'[d].account \in DOMAIN accounts'
      BY <2>1, HashesMove DEF CopiesInv
    <2> QED
      BY <2>2, <2>3, <2>4, <2>5 DEF CopiesInv, Known
  <1>4. ASSUME NEW c \in Call, NEW x, call' = [call EXCEPT ![c] = x],
               \/ call[c].pc = "idle" /\ Begins(c, x) /\ UNCHANGED tables
               \/ Ends(c, x)
               \/ Leaves(c, x)
        PROVE  CopiesInv'
    <2>1. call'[c] = x /\ \A d \in Call : d # c => call'[d] = call[d]
      BY <1>4, OneChanges
    <2>2. CASE Begins(c, x) /\ UNCHANGED tables
      BY <1>2, <2>1, <2>2 DEF Begins, Copy, Turned
    <2>3. CASE Ends(c, x)
      BY <1>3, <2>1, <2>3 DEF Ends
    <2>4. CASE Leaves(c, x)
      BY <1>2, <2>1, <2>4 DEF Leaves, Idle
    <2> QED
      BY <1>4, <2>2, <2>3, <2>4
  <1> QED
    BY <1>1, <1>4, CallSteps

\* Every step keeps the tokens that browsers and answers hold among those that
\* have been minted.
LEMMA NextHeld ==
    ASSUME SessionTypes, MintInv, CopiesInv, RowsInv, HeldInv, [WebNext]_allVars
    PROVE  HeldInv'
  <1> DEFINE New(t) == t \in 1..lastToken'
             Carries(x) == /\ x.pc \in {"send", "unauthorized", "refreshing", "retry"}
                                 => New(x.tokens.refresh)
                           /\ x.pc = "answer" /\ x.set.op = "set" => New(x.set.tokens.refresh)
             Answers(y) == y.pc = "done" /\ y.answer.status = 200 => New(y.answer.tokens.refresh)
  <1>0. Request \subseteq Call /\ Device \subseteq Call
    BY WebSessionAssumption DEF Device
  <1>1. \A t : Known(t) => New(t)
    BY KnownForEver
  <1> HIDE DEF New
  <1>2. /\ cookie = NoTokens \/ New(cookie.refresh)
        /\ \A r \in Request : Carries(req[r])
        /\ \A c \in Call : Answers(call[c])
    BY <1>1 DEF HeldInv
  <1>3. \A x : Plain(x) \/ x.pc \in {"idle", "signingIn", "signingOut"} => Carries(x)
    BY DEF Plain
  <1>4. \A x, tokens : Setting(x, tokens) /\ New(tokens.refresh) => Carries(x)
    BY DEF Setting
  <1>5. \A y : Turned(y) \/ y = Idle \/ y.pc # "done" => Answers(y)
    BY DEF Turned, Idle
  <1>6. \A r \in Request : \A x : req' = [req EXCEPT ![r] = x] /\ Carries(x)
           => \A w \in Request : Carries(req'[w])
    BY <1>2, OneChanges
  <1>7. \A c \in Call : \A y : call' = [call EXCEPT ![c] = y] /\ Answers(y)
           => \A d \in Call : Answers(call'[d])
    BY <1>2, OneChanges
  <1> DEFINE Goal == /\ cookie' = NoTokens \/ New(cookie'.refresh)
                     /\ \A r \in Request : Carries(req'[r])
                     /\ \A c \in Call : Answers(call'[c])
  <1> HIDE DEF Carries, Answers
  <1>8. ASSUME UNCHANGED <<tables, call, webVars>> PROVE Goal
    BY <1>2, <1>8 DEF webVars
  <1>9. ASSUME NEW c \in Call, NEW y \in CallState, Asked(c, y) PROVE Goal
    <2>1. Answers(y)
      BY <1>5, <1>9 DEF Asked
    <2> QED
      BY <1>0, <1>2, <1>7, <1>9, <2>1 DEF Asked, webVars
  <1>10. ASSUME NEW c \in Call, NEW y \in CallState, call' = [call EXCEPT ![c] = y], Ends(c, y)
         PROVE  Goal
    <2>1. CASE Turned(y)
      BY <1>2, <1>5, <1>7, <1>10, <2>1 DEF Ends, webVars
    <2>2. CASE ~Turned(y)
      <3>1. /\ SignsUp(c) \/ SignsIn(c) \/ Rotates(c)
            /\ y.answer.tokens.refresh = lastToken'
        BY <1>10, <2>2 DEF Ends
      <3>2. lastToken' = lastToken + 1 /\ lastToken \in Nat
        BY <3>1, KnownTokens DEF SignsUp, SignsIn, Rotates, Opens, Fresh
      <3>3. Answers(y)
        BY <3>1, <3>2 DEF Answers, New
      <3> QED
        BY <1>2, <1>7, <1>10, <3>3 DEF Ends, webVars
    <2> QED
      BY <2>1, <2>2
  <1>11. ASSUME NEW r \in Request, NEW x \in RequestState, Walks(r, x) PROVE Goal
    <2>1. Carries(req[r])
      BY <1>2
    <2>2. /\ cookie' = NoTokens \/ New(cookie'.refresh)
          /\ Carries(x)
      <3>1. CASE req[r].pc = "answer"
        <4>1. cookie' = CookieAfter(req[r].set) /\ x.pc = "idle"
          BY <1>11, <3>1 DEF Walks, Goes
        <4>2. req[r].set.op \in {"keep", "clear", "set"}
          BY <3>1, InRequests DEF CookieChange
        <4> QED
          BY <1>2, <1>3, <2>1, <3>1, <4>1, <4>2 DEF CookieAfter, Carries
      <3>2. CASE req[r].pc # "answer"
        <4>1. /\ cookie' = cookie
              /\ \/ x.pc = "send" /\ x.tokens = cookie /\ cookie # NoTokens
                 \/ /\ req[r].pc \in {"send", "unauthorized"}
                    /\ x.pc \in {"unauthorized", "refreshing"} /\ x.tokens = req[r].tokens
                 \/ req[r].pc = "retry" /\ Setting(x, req[r].tokens)
                 \/ Plain(x)
                 \/ x.pc \in {"signingIn", "signingOut"}
          BY <1>11, <3>2 DEF Walks, Goes
        <4>2. x.pc = "send" /\ x.tokens = cookie /\ cookie # NoTokens => Carries(x)
          BY <1>2 DEF Carries
        <4>3. /\ req[r].pc \in {"send", "unauthorized"}
              /\ x.pc \in {"unauthorized", "refreshing"} /\ x.tokens = req[r].tokens
              => Carries(x)
          BY <2>1 DEF Carries
        <4>4. req[r].pc = "retry" /\ Setting(x, req[r].tokens) => Carries(x)
          BY <1>4, <2>1 DEF Carries
        <4> QED
          BY <1>2, <1>3, <4>1, <4>2, <4>3, <4>4
      <3> QED
        BY <3>1, <3>2
    <2> QED
      BY <1>2, <1>6, <1>11, <2>2 DEF Walks
  <1>12. ASSUME NEW r \in Request, NEW x \in RequestState, Returns(r, x) PROVE Goal
    <2>1. Carries(x)
      BY <1>0, <1>2, <1>3, <1>4, <1>12 DEF Returns, Answers
    <2>2. Answers(Idle)
      BY <1>5
    <2> QED
      BY <1>0, <1>2, <1>6, <1>7, <1>12, <2>1, <2>2 DEF Returns
  <1>13. ASSUME NEW r \in Request, NEW x \in RequestState, NEW y \in CallState, Submits(r, x, y)
         PROVE  Goal
    <2>1. Carries(x) /\ Answers(y)
      BY <1>3, <1>5, <1>13 DEF Submits, Copy
    <2> QED
      BY <1>0, <1>2, <1>6, <1>7, <1>13, <2>1 DEF Submits
  <1>14. ASSUME NEW r \in Request, NEW x \in RequestState, NEW y \in CallState, Launches(r, x, y)
         PROVE  Goal
    <2>1. Carries(x)
      BY <1>2, <1>14 DEF Launches, Carries
    <2>2. Answers(y)
      BY <1>5, <1>14 DEF Launches, Copy
    <2> QED
      BY <1>0, <1>2, <1>6, <1>7, <1>14, <2>1, <2>2 DEF Launches
  <1>15. ASSUME NEW r \in Request, NEW token \in Token, Settles(r, token) PROVE Goal
    <2>1. ASSUME NEW w \in Request PROVE Carries(req'[w])
      <3>1. CASE w \notin Waiting(token)
        BY <1>2, <1>15, <3>1 DEF Settles
      <3>2. CASE w \in Waiting(token)
        BY <1>0, <1>2, <1>3, <1>15, <3>2 DEF Settles, Answers, Carries
      <3> QED
        BY <3>1, <3>2
    <2>2. Answers(Idle)
      BY <1>5
    <2> QED
      BY <1>0, <1>2, <1>7, <1>15, <2>1, <2>2 DEF Settles
  <1>16. ASSUME NEW r \in Request, NEW token \in Token, Breaks(r, token) PROVE Goal
    <2>1. ASSUME NEW w \in Request PROVE Carries(req'[w])
      BY <1>2, <1>3, <1>16 DEF Breaks
    <2> QED
      BY <1>2, <1>16, <2>1 DEF Breaks
  <1> HIDE DEF Goal
  <1>17. Goal
    BY <1>8, <1>9, <1>10, <1>11, <1>12, <1>13, <1>14, <1>15, <1>16, Steps
  <1> QED
    BY <1>17 DEF Goal, Carries, Answers, New, HeldInv, Known

-----------------------------------------------------------------------------
(* Accounts and revocations.                                                *)

\* Every step keeps one account for each mailbox: the unique index sees the
\* address whatever was typed, because the tables hold it normalized.
LEMMA NextOneAccount ==
    ASSUME SessionTypes, MintInv, CopiesInv, OneAccountPerEmail, [WebNext]_allVars
    PROVE  OneAccountPerEmail'
  <1>1. CASE UNCHANGED tables
    BY <1>1 DEF OneAccountPerEmail, tables
  <1>2. CASE accounts' = accounts
    BY <1>2 DEF OneAccountPerEmail
  <1>3. ASSUME NEW c \in Call, Changes(c) PROVE OneAccountPerEmail'
    BY <1>3 DEF OneAccountPerEmail, Changes
  <1>4. ASSUME NEW c \in Call, SignsUp(c) PROVE OneAccountPerEmail'
    <2> DEFINE new == Len(accounts) + 1
    <2>1. call[c].email \in Stored
      BY <1>4, InSlots DEF SignsUp
    <2>2. \A email \in Stored :
             WellFormed(email) /\ email = Typed(email.address, "stored") /\ email = Normalized(email)
      BY DEF Stored, Typed, WellFormed, Normalized
    <2>3. \A a \in DOMAIN accounts : accounts[a].email # call[c].email
      BY <1>4, <2>1, <2>2 DEF SignsUp, EmailTaken, AccountsOf
    <2>4. \A a \in DOMAIN accounts : accounts[a].email.address # call[c].email.address
      BY <2>1, <2>2, <2>3, InTables
    <2>5. /\ DOMAIN accounts' = DOMAIN accounts \cup {new}
          /\ \A a \in DOMAIN accounts : a # new /\ accounts'[a] = accounts[a]
          /\ accounts'[new].email = call[c].email
      BY <1>4 DEF SignsUp
    <2> HIDE DEF new
    <2> QED
      BY <2>4, <2>5 DEF OneAccountPerEmail
  <1> QED
    BY <1>1, <1>2, <1>3, <1>4, TableSteps DEF SignsIn, Rotates, SignsOut, Saves

\* Every step keeps a token that a row has given up from any row that is not
\* revoked: a new row has a new token, and a save that brings an old token
\* back is one of a sign-out.
LEMMA NextSuperseded ==
    ASSUME SessionTypes, MintInv, CopiesInv, RowsInv, SupersededStaysDead, [WebNext]_allVars
    PROVE  SupersededStaysDead'
  <1>0. /\ \A s \in DOMAIN sessions : sessions[s].hash \in superseded => sessions[s].revoked
        /\ Fresh \notin superseded
        /\ \A s \in DOMAIN sessions : sessions[s].hash # Fresh
        /\ \A s, z \in DOMAIN sessions : sessions[s].hash = sessions[z].hash => s = z
        /\ now \in Nat /\ Fresh \in Nat
    BY KnownTokens, InTables DEF SupersededStaysDead, SessionsWith, RowsInv, Fresh, Known
  <1> DEFINE Goal == \A s \in DOMAIN sessions' : sessions'[s].hash \in superseded' => sessions'[s].revoked
  <1>1. ASSUME UNCHANGED tables PROVE Goal
    BY <1>0, <1>1 DEF tables
  <1>2. ASSUME NEW account, NEW password, Opens(account, password) PROVE Goal
    <2>1. \A s \in DOMAIN sessions' :
             \/ s \in DOMAIN sessions /\ sessions'[s] = sessions[s]
             \/ sessions'[s].hash = Fresh
      BY <1>2 DEF Opens, Issued, Row
    <2> QED
      BY <1>0, <1>2, <2>1 DEF Opens
  <1>3. ASSUME NEW c \in Call, Rotates(c) PROVE Goal
    <2>1. /\ call[c].session \in DOMAIN sessions
          /\ sessions'[call[c].session].hash = Fresh
          /\ DOMAIN sessions' = DOMAIN sessions
          /\ \A s \in DOMAIN sessions : s # call[c].session => sessions'[s] = sessions[s]
          /\ superseded' \subseteq superseded \cup {sessions[call[c].session].hash}
      BY <1>3 DEF Rotates, Saves, Rotated, Row, CopiesInv, Reads
    <2> QED
      BY <1>0, <2>1
  <1>4. ASSUME NEW c \in Call, SignsOut(c) PROVE Goal
    <2>1. /\ call[c].session \in DOMAIN sessions
          /\ sessions'[call[c].session].revoked
          /\ DOMAIN sessions' = DOMAIN sessions
          /\ \A s \in DOMAIN sessions : s # call[c].session => sessions'[s] = sessions[s]
          /\ superseded' \subseteq superseded \cup {sessions[call[c].session].hash}
      BY <1>4 DEF SignsOut, Saves, Revoked, Row, CopiesInv, Reads
    <2> QED
      BY <1>0, <2>1
  <1>5. ASSUME NEW c \in Call, Changes(c) PROVE Goal
    <2>1. \A s \in DOMAIN sessions :
             /\ sessions'[s].hash = sessions[s].hash
             /\ sessions[s].revoked => sessions'[s].revoked
      BY <1>5 DEF Changes, Revoked, Row
    <2> QED
      BY <1>0, <1>5, <2>1 DEF Changes
  <1> HIDE DEF Goal
  <1>6. Goal
    BY <1>1, <1>2, <1>3, <1>4, <1>5, TableSteps DEF SignsUp, SignsIn
  <1> QED
    BY <1>6 DEF Goal, SupersededStaysDead, SessionsWith

\* Every step keeps a session that an old password opened from outliving the
\* change of the password, but by a race.
LEMMA NextOutlive ==
    ASSUME SessionTypes, MintInv, CopiesInv, RowsInv, OnlyRacesOutliveAChange,
           [WebNext]_allVars
    PROVE  OnlyRacesOutliveAChange'
  <1> DEFINE Goal == \A s \in DOMAIN sessions' :
                        /\ ~sessions'[s].revoked /\ now < sessions'[s].until
                        /\ provedBy'[s] # accounts'[sessions'[s].account].password
                        => s \in raced'
             Held == \A s \in DOMAIN sessions :
                        /\ ~sessions[s].revoked /\ now < sessions[s].until
                        /\ provedBy[s] # accounts[sessions[s].account].password
                        => s \in raced
  <1>0. Held
    BY DEF OnlyRacesOutliveAChange, Outlived, Active
  <1>1. ASSUME UNCHANGED tables PROVE Goal
    BY <1>0, <1>1 DEF tables
  <1>2. ASSUME NEW c \in Call, SignsUp(c) PROVE Goal
    <2>1. /\ sessions'[Len(sessions) + 1].account = Len(accounts) + 1
          /\ provedBy'[Len(sessions) + 1] = call[c].password
          /\ accounts'[Len(accounts) + 1].password = call[c].password
      BY <1>2 DEF SignsUp, Opens, Issued, Row
    <2>2. \A s \in DOMAIN sessions :
             /\ sessions'[s] = sessions[s] /\ provedBy'[s] = provedBy[s]
             /\ sessions[s].account \in DOMAIN accounts
                   => accounts'[sessions[s].account] = accounts[sessions[s].account]
      BY <1>2 DEF SignsUp, Opens
    <2> QED
      BY <1>0, <1>2, <2>1, <2>2 DEF SignsUp, Opens, RowsInv
  <1>3. ASSUME NEW c \in Call, SignsIn(c) PROVE Goal
    <2>1. /\ sessions'[Len(sessions) + 1].account = call[c].account
          /\ provedBy'[Len(sessions) + 1] = call[c].password
          /\ accounts[call[c].account].password = call[c].password \/ Len(sessions) + 1 \in raced'
          /\ raced \subseteq raced'
          /\ accounts' = accounts
      BY <1>3 DEF SignsIn, Opens, Issued, Row
    <2>2. \A s \in DOMAIN sessions : sessions'[s] = sessions[s] /\ provedBy'[s] = provedBy[s]
      BY <1>3 DEF SignsIn, Opens
    <2> QED
      BY <1>0, <1>3, <2>1, <2>2 DEF SignsIn, Opens
  <1>4. ASSUME NEW c \in Call, Rotates(c) PROVE Goal
    <2> DEFINE s == call[c].session
    <2>1. /\ s \in DOMAIN sessions
          /\ call[c].seen.account = sessions[s].account
          /\ ~call[c].seen.revoked /\ now < call[c].seen.until
      BY <1>4 DEF Rotates, CopiesInv, Reads, Active
    <2>2. /\ sessions'[s].account = sessions[s].account
          /\ sessions[s] = call[c].seen \/ s \in raced'
          /\ raced \subseteq raced'
          /\ DOMAIN sessions' = DOMAIN sessions
          /\ \A z \in DOMAIN sessions : z # s => sessions'[z] = sessions[z]
          /\ accounts' = accounts /\ provedBy' = provedBy
      BY <1>4, <2>1 DEF Rotates, Saves, Rotated, Row
    <2> HIDE DEF s
    <2> QED
      BY <1>0, <2>1, <2>2
  <1>5. ASSUME NEW c \in Call, SignsOut(c) PROVE Goal
    <2>1. /\ call[c].session \in DOMAIN sessions
          /\ sessions'[call[c].session].revoked
          /\ raced \subseteq raced'
          /\ DOMAIN sessions' = DOMAIN sessions
          /\ \A z \in DOMAIN sessions : z # call[c].session => sessions'[z] = sessions[z]
          /\ accounts' = accounts /\ provedBy' = provedBy
      BY <1>5 DEF SignsOut, Saves, Revoked, Row, CopiesInv, Reads
    <2> QED
      BY <1>0, <2>1
  <1>6. ASSUME NEW c \in Call, Changes(c) PROVE Goal
    <2>1. \A s \in DOMAIN sessions :
             \/ sessions'[s].revoked
             \/ /\ sessions'[s] = sessions[s]
                /\ sessions[s].account \in DOMAIN accounts
                /\ accounts'[sessions[s].account] = accounts[sessions[s].account]
      BY <1>6 DEF Changes, Revoked, Row, RowsInv
    <2> QED
      BY <1>0, <1>6, <2>1 DEF Changes
  <1> HIDE DEF Goal
  <1>7. Goal
    BY <1>1, <1>2, <1>3, <1>4, <1>5, <1>6, TableSteps
  <1>8. \A s \in DOMAIN sessions' : now' < sessions'[s].until => now < sessions'[s].until
    <2>1. now \in Nat /\ (now' = now \/ now' = now + 1)
      BY CountWriters, InTables
    <2>2. sessions' \in Seq(SessionRow)
      BY NextTables DEF TablesType
    <2>3. \A row \in SessionRow : row.until \in Nat
      BY InTables
    <2>4. \A s \in DOMAIN sessions' : sessions'[s].until \in Nat
      BY <2>2, <2>3
    <2> QED
      BY <2>1, <2>4
  <1> QED
    BY <1>7, <1>8 DEF Goal, OnlyRacesOutliveAChange, Outlived, Active

-----------------------------------------------------------------------------
(* Each token buys one token at most.                                       *)

\* Every step keeps a token from being spent twice: the calls that hold a copy
\* of its row are those of the one request that refreshes it, and once it is
\* spent nothing has it but rows and copies that are revoked.
LEMMA NextSpent ==
    ASSUME SessionTypes, MintInv, CopiesInv, RowsInv, FlightInv, SpentInv, [WebNext]_allVars
    PROVE  SpentInv'
  <1>0. /\ \A t \in Token : spent[t] \in Nat /\ (spent[t] > 1 => t \in broken)
        /\ \A s \in DOMAIN sessions : sessions[s].hash \in Token
        /\ \A s \in DOMAIN sessions : spent[sessions[s].hash] > 0 => sessions[s].revoked
        /\ \A c \in Call : call[c].pc = "refresh" =>
              /\ call[c].seen.hash \in Token
              /\ spent[call[c].seen.hash] > 0
                    => call[c].seen.revoked \/ call[c].seen.hash \in broken
        /\ \A t : t \in broken => t \in broken'
    BY InTables, InSlots, FateWriters DEF SpentInv, TokenSpentOnce, SessionTypes, TablesType
  <1>1. \A c \in Call : call'[c].pc = "refresh" =>
           /\ call'[c].seen.hash \in Token
           /\ spent[call'[c].seen.hash] > 0
                 => call'[c].seen.revoked \/ call'[c].seen.hash \in broken
    <2>1. ASSUME NEW c \in Call, NEW x, call' = [call EXCEPT ![c] = x],
                 \/ call[c].pc = "idle" /\ Begins(c, x) /\ UNCHANGED tables
                 \/ Ends(c, x)
                 \/ Leaves(c, x)
          PROVE  \A d \in Call : call'[d].pc = "refresh" =>
                    /\ call'[d].seen.hash \in Token
                    /\ spent[call'[d].seen.hash] > 0
                          => call'[d].seen.revoked \/ call'[d].seen.hash \in broken
      <3>1. call'[c] = x /\ \A d \in Call : d # c => call'[d] = call[d]
        BY <2>1, OneChanges
      <3>2. x.pc = "refresh" => x.session \in DOMAIN sessions /\ x.seen = sessions[x.session]
        BY <2>1 DEF Begins, Ends, Leaves, Copy, Turned, Idle
      <3> QED
        BY <1>0, <3>1, <3>2
    <2> QED
      BY <1>0, <2>1, CallSteps
  <1> DEFINE Goal == /\ \A t \in Token : spent'[t] > 1 => t \in broken'
                     /\ \A s \in DOMAIN sessions' :
                           spent'[sessions'[s].hash] > 0 => sessions'[s].revoked
                     /\ \A c \in Call :
                           call'[c].pc = "refresh" /\ spent'[call'[c].seen.hash] > 0
                              => call'[c].seen.revoked \/ call'[c].seen.hash \in broken'
  <1>2. ASSUME UNCHANGED tables PROVE Goal
    BY <1>0, <1>1, <1>2 DEF tables
  <1>3. ASSUME CallMinters # {} PROVE Fresh \in Token /\ spent[Fresh] = 0 /\ ~Known(Fresh)
    <2>1. Fresh \in Token /\ Fresh > lastToken
      BY <1>3, FreshToken, KnownTokens
    <2> QED
      BY <2>1, KnownTokens DEF RowsInv
  <1>4. ASSUME NEW account, NEW password, CallMinters # {}, Opens(account, password) PROVE Goal
    <2>1. \A s \in DOMAIN sessions' :
             \/ s \in DOMAIN sessions /\ sessions'[s] = sessions[s]
             \/ sessions'[s].hash = Fresh
      BY <1>4 DEF Opens, Issued, Row
    <2>2. spent' = spent
      BY <1>4 DEF Opens
    <2> QED
      BY <1>0, <1>1, <1>3, <1>4, <2>1, <2>2
  <1>5. ASSUME NEW c \in Call, SignsUp(c) \/ SignsIn(c) PROVE Goal
    <2>1. CallMinters # {}
      BY <1>5 DEF SignsUp, SignsIn, CallMinters
    <2> QED
      BY <1>4, <1>5, <2>1 DEF SignsUp, SignsIn
  <1>6. ASSUME NEW c \in Call, Rotates(c) PROVE Goal
    <2> DEFINE token == call[c].seen.hash
    <2>1. /\ call[c].pc = "refresh" /\ CallMinters # {}
          /\ token \in Token /\ Known(token) /\ ~call[c].seen.revoked
          /\ call[c].session \in DOMAIN sessions
          /\ \A s \in DOMAIN sessions : sessions[s].hash = token => s = call[c].session
      BY <1>0, <1>6 DEF Rotates, Active, CallMinters, CopiesInv, Reads
    <2>2. /\ sessions'[call[c].session].hash = Fresh
          /\ DOMAIN sessions' = DOMAIN sessions
          /\ \A s \in DOMAIN sessions : s # call[c].session => sessions'[s] = sessions[s]
          /\ spent' = [spent EXCEPT ![token] = @ + 1]
      BY <1>6 DEF Rotates, Saves, Rotated, Row
    <2>3. \A d \in Call : call'[d].pc = "refresh" =>
             call[d] = call'[d] /\ (call[d].seen.hash # token \/ token \in broken)
      <3>1. call'[c].pc = "done" /\ \A d \in Call : d # c => call'[d] = call[d]
        <4>1. call' = [call EXCEPT ![c] = Done(Minted(NewTokens))]
          BY <1>6 DEF Rotates, Reply
        <4>2. Done(Minted(NewTokens)).pc = "done"
          BY DEF Done
        <4> QED
          BY <4>1, <4>2, OneChanges
      <3>2. \A d \in Call : call[d].pc = "refresh" =>
               flight[call[d].seen.hash] = d \/ call[d].seen.hash \in broken
        BY DEF FlightInv
      <3> QED
        BY <2>1, <3>1, <3>2
    <2> HIDE DEF token
    <2>4. Fresh # token /\ (spent[token] = 0 \/ token \in broken)
      BY <1>0, <1>3, <2>1 DEF token
    <2>5. /\ spent'[token] = spent[token] + 1
          /\ \A t \in Token : t # token => spent'[t] = spent[t]
      BY <2>1, <2>2 DEF SessionTypes, TablesType
    <2>6. \A t \in Token : spent'[t] > 1 => t \in broken'
      BY <1>0, <2>4, <2>5
    <2>7. \A s \in DOMAIN sessions' : spent'[sessions'[s].hash] > 0 => sessions'[s].revoked
      BY <1>0, <1>3, <2>1, <2>2, <2>4, <2>5
    <2>8. \A d \in Call : call'[d].pc = "refresh" /\ spent'[call'[d].seen.hash] > 0
                              => call'[d].seen.revoked \/ call'[d].seen.hash \in broken'
      BY <1>0, <2>3, <2>5
    <2> QED
      BY <2>6, <2>7, <2>8
  <1>7. ASSUME NEW c \in Call, SignsOut(c) PROVE Goal
    <2>1. /\ DOMAIN sessions' = DOMAIN sessions
          /\ \A s \in DOMAIN sessions :
                sessions'[s] = sessions[s] \/ sessions'[s].revoked
          /\ spent' = spent
      BY <1>7 DEF SignsOut, Saves, Revoked, Row
    <2> QED
      BY <1>0, <1>1, <2>1
  <1>8. ASSUME NEW c \in Call, Changes(c) PROVE Goal
    <2>1. /\ DOMAIN sessions' = DOMAIN sessions
          /\ \A s \in DOMAIN sessions :
                sessions'[s] = sessions[s] \/ sessions'[s].revoked
          /\ spent' = spent
      BY <1>8 DEF Changes, Revoked, Row
    <2> QED
      BY <1>0, <1>1, <2>1
  <1> HIDE DEF Goal
  <1>9. Goal
    BY <1>2, <1>5, <1>6, <1>7, <1>8, TableSteps
  <1> QED
    BY <1>9 DEF Goal, SpentInv, TokenSpentOnce

-----------------------------------------------------------------------------
(* A browser whom nothing befell keeps its session.                         *)

\* Until something befalls the browser every refresh in the API has its entry.
LEMMA Unbroken ==
    ASSUME FlightInv, fate' = {}, [WebNext]_allVars
    PROVE  \A c \in Call :
              call[c].pc = "refresh" => c \in Request /\ flight[call[c].seen.hash] = c
  <1>1. broken = {}
    BY FateWriters DEF FlightInv
  <1> QED
    BY <1>1 DEF FlightInv

\* A save over a row that a rotation has changed needs two requests with one
\* token in the API, and the map of refreshes in flight lets in one.
LEMMA NextUndisturbed ==
    ASSUME SessionTypes, MintInv, CopiesInv, RowsInv, FlightInv, Undisturbed, fate' = {},
           [WebNext]_allVars
    PROVE  Undisturbed'
  <1>0. /\ \A c \in Call : call[c].pc # "signOut"
        /\ \A c \in Call : call[c].pc = "refresh" =>
              /\ call[c].session \in DOMAIN sessions
              /\ call[c].seen.hash \in Token
              /\ sessions[call[c].session] \in {call[c].seen, Revoked(call[c].seen)}
              /\ sessions[call[c].session].hash = call[c].seen.hash
              /\ flight[call[c].seen.hash] = c
        /\ Request \subseteq Call /\ Device \subseteq Call
        /\ lastToken \in Nat
    <2>1. \A row : Revoked(row).hash = row.hash
      BY DEF Revoked, Row
    <2>2. \A c \in Call : call[c].pc = "refresh" =>
             /\ call[c].session \in DOMAIN sessions
             /\ call[c].seen.hash \in Token
             /\ flight[call[c].seen.hash] = c
      BY KnownTokens, Unbroken DEF CopiesInv, Reads
    <2> QED
      BY <2>1, <2>2, KnownTokens, WebSessionAssumption DEF Undisturbed, Device
  <1> DEFINE Current(y) == /\ y.pc # "signOut"
                           /\ y.pc = "refresh" =>
                                 /\ y.session \in DOMAIN sessions
                                 /\ sessions[y.session] \in {y.seen, Revoked(y.seen)}
             OnRows == \A t \in 1..lastToken :
                          spent[t] > 0 \/ \E s \in DOMAIN sessions : sessions[s].hash = t
  <1>1. OnRows
    BY DEF Undisturbed, SessionsWith
  <1>2. \A c \in Call : Current(call'[c])
    <2>0. \A c \in Call : Current(call[c])
      BY <1>0
    <2>1. \A c \in Call : \A y : call' = [call EXCEPT ![c] = y] /\ Current(y)
             => \A d \in Call : Current(call'[d])
      BY <2>0, OneChanges
    <2>2. \A y : Turned(y) \/ y = Idle \/ y.pc \in {"done", "signUp", "signIn", "change"} => Current(y)
      BY DEF Turned, Idle
    <2>3. \A y, token : Copy(y, "refresh", token) => Current(y)
      BY DEF Copy
    <2> HIDE DEF Current
    <2>4. ASSUME UNCHANGED call PROVE \A c \in Call : Current(call'[c])
      BY <2>0, <2>4
    <2>5. ASSUME NEW c \in Call, NEW y \in CallState, Asked(c, y)
          PROVE  \A d \in Call : Current(call'[d])
      BY <1>0, <2>1, <2>2, <2>5 DEF Asked
    <2>6. ASSUME NEW c \in Call, NEW y \in CallState, call' = [call EXCEPT ![c] = y], Ends(c, y)
          PROVE  \A d \in Call : Current(call'[d])
      <3>1. y.pc = "done"
        BY <2>6 DEF Ends
      <3>2. Current(y)
        BY <2>2, <3>1
      <3> QED
        BY <2>1, <2>6, <3>2
    <2>7. ASSUME NEW r \in Request, NEW x \in RequestState, NEW y \in CallState,
                 Submits(r, x, y) \/ Launches(r, x, y)
          PROVE  \A d \in Call : Current(call'[d])
      <3>1. call' = [call EXCEPT ![r] = y] /\ r \in Call
        BY <1>0, <2>7 DEF Submits, Launches
      <3>2. Current(y)
        BY <2>2, <2>3, <2>7 DEF Submits, Launches
      <3> QED
        BY <2>1, <3>1, <3>2
    <2>8. ASSUME NEW r \in Request, call' = [call EXCEPT ![r] = Idle]
          PROVE  \A d \in Call : Current(call'[d])
      BY <1>0, <2>1, <2>2, <2>8
    <2> QED
      BY <2>4, <2>5, <2>6, <2>7, <2>8, Steps DEF Walks, Returns, Settles, Breaks
  <1> DEFINE Goal == /\ \A d \in Call : call'[d].pc = "refresh" =>
                           sessions'[call'[d].session] \in {call'[d].seen, Revoked(call'[d].seen)}
                     /\ OnRows'
  <1>3. ASSUME UNCHANGED tables PROVE Goal
    BY <1>1, <1>2, <1>3 DEF tables
  <1>4. ASSUME NEW account, NEW password, Opens(account, password) PROVE Goal
    <2>1. /\ \A s \in DOMAIN sessions : sessions'[s] = sessions[s]
          /\ sessions'[Len(sessions) + 1].hash = lastToken + 1
          /\ DOMAIN sessions' = DOMAIN sessions \cup {Len(sessions) + 1}
          /\ lastToken' = lastToken + 1
          /\ spent' = spent
      BY <1>4 DEF Opens, Issued, Row, Fresh
    <2>2. OnRows'
      BY <1>0, <1>1, <2>1
    <2> QED
      BY <1>2, <2>1, <2>2
  <1>5. ASSUME NEW c \in Call, Rotates(c) PROVE Goal
    <2> DEFINE token == call[c].seen.hash
               s == call[c].session
    <2>1. /\ call[c].pc = "refresh" /\ s \in DOMAIN sessions
          /\ sessions[s].hash = token /\ token \in Token /\ flight[token] = c
      BY <1>0, <1>5 DEF Rotates
    <2>2. /\ sessions'[s].hash = lastToken + 1
          /\ DOMAIN sessions' = DOMAIN sessions
          /\ \A z \in DOMAIN sessions : z # s => sessions'[z] = sessions[z]
          /\ lastToken' = lastToken + 1
          /\ spent' = [spent EXCEPT ![token] = @ + 1]
          /\ call' = [call EXCEPT ![c] = Done(Minted(NewTokens))]
      BY <1>5 DEF Rotates, Saves, Rotated, Row, Fresh, Reply
    <2>3. \A d \in Call : call'[d].pc = "refresh" => call'[d] = call[d] /\ d # c
      <3>1. Done(Minted(NewTokens)).pc = "done"
        BY DEF Done
      <3>2. call' = [call EXCEPT ![c] = Done(Minted(NewTokens))]
        BY <2>2
      <3>3. call'[c].pc = "done" /\ \A d \in Call : d # c => call'[d] = call[d]
        BY <3>1, <3>2, OneChanges
      <3> QED
        BY <3>3
    <2> HIDE DEF token, s
    <2>4. \A d \in Call : call'[d].pc = "refresh" => call'[d].session # s
      BY <1>0, <2>1, <2>3
    <2>5. spent'[token] > 0 /\ \A t \in Token : t # token => spent'[t] = spent[t]
      BY <2>1, <2>2 DEF SessionTypes, TablesType
    <2>6. \A t \in 1..lastToken : t \in Token
      BY KnownTokens DEF Known
    <2>7. OnRows'
      BY <1>0, <1>1, <2>1, <2>2, <2>5, <2>6
    <2> QED
      BY <1>2, <2>2, <2>4, <2>7
  <1>6. ASSUME NEW c \in Call, Changes(c) PROVE Goal
    <2>1. /\ DOMAIN sessions' = DOMAIN sessions
          /\ \A s \in DOMAIN sessions : sessions'[s] \in {sessions[s], Revoked(sessions[s])}
          /\ lastToken' = lastToken /\ spent' = spent
      BY <1>6 DEF Changes
    <2>2. \A row : Revoked(Revoked(row)) = Revoked(row) /\ Revoked(row).hash = row.hash
      BY DEF Revoked, Row
    <2>3. OnRows'
      BY <1>1, <2>1, <2>2
    <2> QED
      BY <1>2, <2>1, <2>2, <2>3
  <1> HIDE DEF Goal
  <1>7. Goal
    BY <1>0, <1>3, <1>4, <1>5, <1>6, TableSteps DEF SignsUp, SignsIn, SignsOut
  <1> QED
    BY <1>2, <1>7 DEF Goal, Undisturbed, SessionsWith

\* A session that has ended stays ended, but for a request that rotates the
\* copy of its row that it read while the session was active.
LEMMA EndedStays ==
    ASSUME SessionTypes, MintInv, CopiesInv, Undisturbed, [WebNext]_allVars, NEW t, Ended(t)
    PROVE  Ended(t)' \/ \E c \in Call : Rotates(c) /\ call[c].seen.hash = t
  <1>1. PICK s \in DOMAIN sessions :
            sessions[s].hash = t /\ (sessions[s].revoked \/ ~(now < sessions[s].until))
    BY DEF Ended, SessionsWith, Active
  <1>2. ASSUME NEW z \in DOMAIN sessions', sessions'[z].hash = t,
               sessions'[z].revoked \/ ~(now' < sessions'[z].until)
        PROVE  Ended(t)'
    BY <1>2 DEF Ended, SessionsWith, Active
  <1>3. CASE UNCHANGED tables
    <2>1. now \in Nat /\ (now' = now \/ now' = now + 1) /\ sessions[s].until \in Nat
      BY CountWriters, InTables
    <2>2. sessions' = sessions
      BY <1>3 DEF tables
    <2> QED
      BY <1>1, <1>2, <2>1, <2>2
  <1>4. ASSUME NEW account, NEW password, Opens(account, password), now' = now PROVE Ended(t)'
    BY <1>1, <1>2, <1>4 DEF Opens
  <1>5. ASSUME NEW c \in Call, Rotates(c), now' = now
        PROVE  Ended(t)' \/ \E d \in Call : Rotates(d) /\ call[d].seen.hash = t
    <2>1. CASE s = call[c].session
      <3>1. sessions[s] \in {call[c].seen, Revoked(call[c].seen)}
        BY <1>5, <2>1 DEF Rotates, Undisturbed
      <3>2. call[c].seen.hash = t
        BY <1>1, <3>1 DEF Revoked, Row
      <3> QED
        BY <1>5, <3>2
    <2>2. CASE s # call[c].session
      BY <1>1, <1>2, <1>5, <2>2 DEF Rotates, Saves
    <2> QED
      BY <2>1, <2>2
  <1>6. ASSUME NEW c \in Call, Changes(c), now' = now PROVE Ended(t)'
    <2>1. sessions'[s] = sessions[s] \/ sessions'[s] = Revoked(sessions[s])
      BY <1>6 DEF Changes
    <2>2. Revoked(sessions[s]).hash = t /\ Revoked(sessions[s]).revoked
      BY <1>1 DEF Revoked, Row
    <2>3. s \in DOMAIN sessions'
      BY <1>6 DEF Changes
    <2> QED
      BY <1>1, <1>2, <1>6, <2>1, <2>2, <2>3
  <1>7. \A c \in Call : ~SignsOut(c)
    BY DEF SignsOut, Undisturbed
  <1> QED
    BY <1>3, <1>4, <1>5, <1>6, <1>7, TableSteps DEF SignsUp, SignsIn

\* So does a refusal stay right.
LEMMA RefusedStays ==
    ASSUME SessionTypes, MintInv, CopiesInv, RowsInv, Undisturbed, [WebNext]_allVars,
           NEW t \in Token, Refused(t)
    PROVE  Refused(t)'
  <1>1. \A c \in Call : ~(Rotates(c) /\ call[c].seen.hash = t)
    BY DEF Refused, Rotates
  <1>2. Ended(t)'
    BY <1>1, EndedStays DEF Refused
  <1>3. spent'[t] = 0
    <2>1. ASSUME NEW c \in Call, Rotates(c) PROVE spent'[t] = spent[t]
      <3>1. call[c].seen.hash # t /\ spent' = [spent EXCEPT ![call[c].seen.hash] = @ + 1]
        BY <1>1, <2>1 DEF Rotates
      <3> QED
        BY <3>1 DEF SessionTypes, TablesType
    <2>2. ASSUME NEW c \in Call, SignsUp(c) \/ SignsIn(c) \/ SignsOut(c) \/ Changes(c)
          PROVE  spent' = spent
      BY <2>2 DEF SignsUp, SignsIn, Opens, SignsOut, Changes
    <2> QED
      BY <2>1, <2>2, TableSteps DEF Refused, tables
  <1>4. now \in Nat /\ (now' = now \/ now' = now + 1)
    BY CountWriters, InTables
  <1>5. ASSUME NEW row, row.until \in Nat, ~Active(row, now) PROVE ~Active(row, now')
    BY <1>4, <1>5 DEF Active
  <1>6. ASSUME NEW c \in Call, call[c].pc = "refresh", call[c].seen.hash = t
        PROVE  ~Active(call[c].seen, now')
    <2>1. call[c].seen.until \in Nat
      BY <1>6, InSlots, InTables
    <2> QED
      BY <1>5, <1>6, <2>1 DEF Refused
  <1>7. ASSUME NEW y, Copy(y, "refresh", t) PROVE ~Active(y.seen, now')
    <2>1. y.session \in DOMAIN sessions /\ y.seen = sessions[y.session] /\ y.seen.hash = t
      BY <1>7 DEF Copy
    <2>2. PICK s \in DOMAIN sessions : sessions[s].hash = t /\ ~Active(sessions[s], now)
      BY DEF Refused, Ended, SessionsWith
    <2>3. s = y.session
      BY <2>1, <2>2 DEF RowsInv
    <2>4. y.seen.until \in Nat
      BY <2>1, InTables
    <2> QED
      BY <1>5, <2>1, <2>2, <2>3, <2>4
  <1>8. ASSUME NEW c \in Call, call'[c].pc = "refresh", call'[c].seen.hash = t
        PROVE  ~Active(call'[c].seen, now')
    <2>1. CASE call'[c] = call[c]
      BY <1>6, <1>8, <2>1
    <2>2. ASSUME NEW d \in Call, NEW x, call' = [call EXCEPT ![d] = x], d = c,
                 \/ call[d].pc = "idle" /\ Begins(d, x) /\ UNCHANGED tables
                 \/ Ends(d, x)
                 \/ Leaves(d, x)
          PROVE  ~Active(call'[c].seen, now')
      <3>1. call'[c] = x
        BY <2>2, OneChanges
      <3>2. x.pc = "refresh" /\ x.seen.hash = t
        BY <1>8, <3>1
      <3>3. Begins(d, x)
        BY <2>2, <3>2 DEF Ends, Leaves, Idle
      <3>4. Copy(x, "refresh", x.seen.hash)
        BY <3>2, <3>3 DEF Begins, Copy, Turned
      <3> QED
        BY <1>7, <3>1, <3>2, <3>4
    <2>3. ASSUME NEW d \in Call, NEW x, call' = [call EXCEPT ![d] = x], d # c
          PROVE  call'[c] = call[c]
      BY <2>3, OneChanges
    <2> QED
      BY <2>1, <2>2, <2>3, CallSteps
  <1> QED
    BY <1>2, <1>3, <1>8 DEF Refused

\* What a step does to a refresh that is in flight when it is done: nothing;
\* the API ends it; or it has begun with this step.
LEMMA FlightMoves ==
    ASSUME SessionTypes, MintInv, CopiesInv, FlightInv, HeldInv, [WebNext]_allVars,
           NEW t \in Token, flight'[t] # NoFlight
    PROVE  \/ flight'[t] = flight[t] /\ call'[flight[t]] = call[flight[t]]
           \/ flight'[t] = flight[t] /\ Ends(flight[t], call'[flight[t]])
           \/ /\ UNCHANGED tables
              /\ Known(t)
              /\ fate' = {} => ~(spent[t] > 0)
              /\ \/ Copy(call'[flight'[t]], "refresh", t)
                 \/ Turned(call'[flight'[t]]) /\ SessionsWith(t) = {}
  <1> DEFINE Stays == flight'[t] = flight[t] /\ call'[flight[t]] = call[flight[t]]
             Over == flight'[t] = flight[t] /\ Ends(flight[t], call'[flight[t]])
             New == /\ UNCHANGED tables
                    /\ Known(t)
                    /\ fate' = {} => ~(spent[t] > 0)
                    /\ \/ Copy(call'[flight'[t]], "refresh", t)
                       \/ Turned(call'[flight'[t]]) /\ SessionsWith(t) = {}
  <1>0. /\ Request \subseteq Call
        /\ flight[t] \in Request \cup {NoFlight}
        /\ flight[t] # NoFlight =>
              /\ req[flight[t]].pc = "refreshing"
              /\ req[flight[t]].tokens.refresh = t
    BY WebSessionAssumption DEF FlightInv, SessionTypes, WorkType
  <1>1. ASSUME NEW c \in Call, NEW y, call' = [call EXCEPT ![c] = y], flight' = flight,
               flight[t] # c
        PROVE  Stays
    BY <1>0, <1>1, OneChanges
  <1>2. ASSUME UNCHANGED <<tables, call, webVars>> PROVE Stays
    BY <1>2 DEF webVars
  <1>3. ASSUME NEW c \in Call, NEW y \in CallState, Asked(c, y) PROVE Stays
    <2>1. call' = [call EXCEPT ![c] = y] /\ flight' = flight /\ flight[t] # c
      BY <1>3 DEF Asked, webVars
    <2> QED
      BY <1>1, <2>1
  <1>4. ASSUME NEW c \in Call, NEW y \in CallState, call' = [call EXCEPT ![c] = y], Ends(c, y)
        PROVE  Stays \/ Over
    <2>1. call'[c] = y /\ flight' = flight
      BY <1>4, OneChanges DEF Ends, webVars
    <2>2. CASE flight[t] # c
      BY <1>1, <1>4, <2>1, <2>2
    <2>3. CASE flight[t] = c
      BY <1>4, <2>1, <2>3
    <2> QED
      BY <2>2, <2>3
  <1>5. ASSUME NEW r \in Request, NEW x \in RequestState, Walks(r, x) PROVE Stays
    BY <1>5 DEF Walks
  <1>6. ASSUME NEW r \in Request, NEW x \in RequestState, Returns(r, x) PROVE Stays
    <2>1. /\ call' = [call EXCEPT ![r] = Idle] /\ flight' = flight /\ r \in Call
          /\ req[r].pc # "refreshing"
      BY <1>0, <1>6 DEF Returns
    <2> QED
      BY <1>0, <1>1, <2>1
  <1>7. ASSUME NEW r \in Request, NEW x \in RequestState, NEW y \in CallState, Submits(r, x, y)
        PROVE  Stays
    <2>1. /\ call' = [call EXCEPT ![r] = y] /\ flight' = flight /\ r \in Call
          /\ req[r].pc # "refreshing"
      BY <1>0, <1>7 DEF Submits
    <2> QED
      BY <1>0, <1>1, <2>1
  <1>8. ASSUME NEW r \in Request, NEW x \in RequestState, NEW y \in CallState, Launches(r, x, y)
        PROVE  Stays \/ New
    <2> DEFINE token == req[r].tokens.refresh
    <2>1. token \in Token /\ Known(token)
      BY <1>8, KnownTokens DEF Launches, HeldInv
    <2>2. /\ call' = [call EXCEPT ![r] = y] /\ r \in Call
          /\ flight' = [flight EXCEPT ![token] = r]
          /\ req[r].pc = "unauthorized"
          /\ UNCHANGED tables
          /\ fate' = {} => ~(spent[token] > 0)
          /\ Copy(y, "refresh", token) \/ (Turned(y) /\ SessionsWith(token) = {})
      BY <1>0, <1>8 DEF Launches
    <2> HIDE DEF token
    <2>3. /\ call'[r] = y /\ \A d \in Call : d # r => call'[d] = call[d]
          /\ flight'[token] = r /\ \A z \in Token : z # token => flight'[z] = flight[z]
      BY <2>1, <2>2, OneChanges
    <2>4. CASE t = token
      BY <2>1, <2>2, <2>3, <2>4
    <2>5. CASE t # token
      <3>1. flight'[t] = flight[t] /\ flight[t] \in Call /\ flight[t] # r
        BY <1>0, <2>2, <2>3, <2>5
      <3> QED
        BY <2>3, <3>1
    <2> QED
      BY <2>4, <2>5
  <1>9. ASSUME NEW r \in Request, NEW token \in Token, Settles(r, token) PROVE Stays
    <2>1. /\ call' = [call EXCEPT ![r] = Idle] /\ r \in Call
          /\ flight' = [flight EXCEPT ![token] = NoFlight]
          /\ flight[token] = r /\ r # NoFlight
      BY <1>0, <1>9, WebSessionAssumption DEF Settles
    <2>2. t # token /\ flight'[t] = flight[t]
      BY <2>1 DEF SessionTypes, WorkType
    <2>3. flight[t] # r /\ flight[t] \in Call
      BY <1>0, <2>1, <2>2 DEF FlightInv
    <2>4. \A d \in Call : d # r => call'[d] = call[d]
      BY <2>1, OneChanges
    <2> QED
      BY <2>2, <2>3, <2>4
  <1>10. ASSUME NEW r \in Request, NEW token \in Token, Breaks(r, token) PROVE Stays
    <2>1. flight' = [flight EXCEPT ![token] = NoFlight] /\ call' = call
      BY <1>10 DEF Breaks
    <2>2. flight'[t] = flight[t]
      BY <2>1 DEF SessionTypes, WorkType
    <2> QED
      BY <2>1, <2>2
  <1> HIDE DEF Stays, Over, New
  <1>11. Stays \/ Over \/ New
    BY <1>2, <1>3, <1>4, <1>5, <1>6, <1>7, <1>8, <1>9, <1>10, Steps
  <1> QED
    BY <1>11 DEF Stays, Over, New

\* A request clears the cookie of a browser whom nothing befell for one reason:
\* the refresh that it waited for was refused.
LEMMA ClearsAreRefusals ==
    ASSUME SessionTypes, NEW r \in Request, fate' = {}, [WebNext]_allVars,
           \A w \in Request : req[w].pc # "signingOut"
    PROVE  /\ req'[r].pc # "signingOut"
           /\ Clearing(req'[r]) =>
                 \/ req'[r] = req[r]
                 \/ \E token \in Token :
                       /\ flight[token] \in Request
                       /\ call[flight[token]].pc = "done"
                       /\ call[flight[token]].answer.status \notin {200, 500}
                       /\ r \in Waiting(token)
                       /\ req'[r].set.tokens = req[r].tokens
  <1> DEFINE Source == \E token \in Token :
                       /\ flight[token] \in Request
                       /\ call[flight[token]].pc = "done"
                       /\ call[flight[token]].answer.status \notin {200, 500}
                       /\ r \in Waiting(token)
                       /\ req'[r].set.tokens = req[r].tokens
             Goal == /\ req'[r].pc # "signingOut"
                     /\ Clearing(req'[r]) => req'[r] = req[r] \/ Source
  <1>0. /\ \A f : f \in fate' => FALSE
        /\ req \in [Request -> RequestState]
        /\ \A w \in Request : \A x : Become(w, x) => req'[r] = IF r = w THEN x ELSE req[r]
    BY DEF SessionTypes, WorkType, Become
  <1>1. /\ Answering(Keep).pc = "answer" /\ Answering(Keep).set.op = "keep"
        /\ \A tokens : /\ Answering(Set(tokens)).pc = "answer"
                        /\ Answering(Set(tokens)).set.op = "set"
        /\ \A tokens : /\ Answering(Clear(tokens)).pc = "answer"
                        /\ Answering(Clear(tokens)).set.tokens = tokens
        /\ Idle.pc = "idle"
    BY DEF Answering, Keep, Set, Clear, Idle
  <1>2. \A x : /\ x.pc \notin {"answer", "signingOut"}
                   \/ x = Answering(Keep) \/ \E tokens : x = Answering(Set(tokens))
               => x.pc # "signingOut" /\ ~Clearing(x)
    BY <1>1 DEF Clearing
  <1>3. ASSUME NEW w \in Request, NEW x, Become(w, x), x.pc # "signingOut" /\ ~Clearing(x)
        PROVE  Goal
    BY <1>0, <1>3
  <1> HIDE DEF Goal
  <1>4. ASSUME req' = req PROVE Goal
    BY <1>4 DEF Goal
  <1>5. ASSUME NEW w \in Request, NEW kind \in Kind, Arrive(w, kind) PROVE Goal
    <2>1. Become(w, Answering(Keep)) \/ Become(w, At("send", kind, cookie))
      BY <1>5 DEF Arrive
    <2>2. At("send", kind, cookie).pc = "send"
      BY DEF At
    <2> QED
      BY <1>2, <1>3, <2>1, <2>2
  <1>6. ASSUME NEW w \in Request, Send(w) \/ Refresh(w) PROVE Goal
    <2>1. \/ Become(w, Answering(Keep))
          \/ \E pc \in {"unauthorized", "refreshing"} : Become(w, [req[w] EXCEPT !.pc = pc])
      BY <1>6 DEF Send, Refresh
    <2>2. req[w].pc \in {"send", "unauthorized"} /\ req[w] \in RequestState
      BY <1>0, <1>6 DEF Send, Refresh
    <2>3. \A pc \in {"unauthorized", "refreshing"} : [req[w] EXCEPT !.pc = pc].pc = pc
      BY <2>2, KeepsTokens
    <2>4. CASE Become(w, Answering(Keep))
      BY <1>2, <1>3, <2>4
    <2>5. ASSUME NEW pc \in {"unauthorized", "refreshing"}, Become(w, [req[w] EXCEPT !.pc = pc])
          PROVE  Goal
      BY <1>2, <1>3, <2>3, <2>5
    <2> QED
      BY <2>1, <2>4, <2>5
  <1>7. ASSUME NEW w \in Request, Retry(w) PROVE Goal
    <2>1. \/ req[w].kind # "page" /\ ~AccessAccepted(req[w].tokens, now)
          \/ Become(w, Answering(Keep))
          \/ Become(w, Answering(Set(req[w].tokens)))
      BY <1>7 DEF Retry, AfterRetry, Persisted
    <2>2. req[w].kind # "page" /\ ~AccessAccepted(req[w].tokens, now) => "refused twice" \in fate'
      BY <1>7 DEF Retry
    <2> QED
      BY <1>0, <1>2, <1>3, <2>1, <2>2
  <1>8. ASSUME NEW w \in Request, SignedIn(w) PROVE Goal
    <2>1. Become(w, Answering(Set(call[w].answer.tokens))) \/ Become(w, Answering(Keep))
      BY <1>8 DEF SignedIn
    <2> QED
      BY <1>2, <1>3, <2>1
  <1>9. ASSUME NEW w \in Request, NEW m \in Email, NEW p \in Password, SubmitSignIn(w, m, p)
        PROVE  Goal
    <2>1. Become(w, [pc |-> "signingIn"])
      BY <1>9 DEF SubmitSignIn
    <2>2. [pc |-> "signingIn"].pc = "signingIn"
      OBVIOUS
    <2> QED
      BY <1>2, <1>3, <2>1, <2>2
  <1>10. ASSUME NEW w \in Request, Respond(w) PROVE Goal
    <2>1. Become(w, Idle)
      BY <1>10 DEF Respond
    <2> QED
      BY <1>1, <1>2, <1>3, <2>1
  <1>11. ASSUME NEW w \in Request, SubmitSignOut(w) \/ SignedOut(w) \/ Break(w) \/ BreakSigning(w)
         PROVE  FALSE
    <2>1. SubmitSignOut(w) => "signed out" \in fate'
      BY DEF SubmitSignOut
    <2>2. Break(w) \/ BreakSigning(w) => "error" \in fate'
      BY DEF Break, BreakSigning
    <2>3. ~SignedOut(w)
      BY DEF SignedOut
    <2> QED
      BY <1>0, <1>11, <2>1, <2>2, <2>3
  <1>12. ASSUME NEW w \in Request, Settle(w) PROVE Goal
    <2> DEFINE told(token) ==
                 [v \in Request |->
                    IF v \notin Waiting(token) THEN req[v]
                    ELSE IF call[w].answer.status = 200
                    THEN At("retry", req[v].kind, call[w].answer.tokens)
                    ELSE Answering(Persisted(req[v].kind, Clear(req[v].tokens)))]
    <2>1. PICK token \in Token :
              /\ flight[token] = w
              /\ call[w].pc = "done"
              /\ req' = told(token)
              /\ fate' = fate \cup (IF call[w].answer.status = 500 THEN {"error"} ELSE {})
      BY <1>12, Zenon DEF Settle
    <2>2. call[w].answer.status # 500
      <3>1. call[w].answer.status = 500 => "error" \in fate'
        BY <2>1
      <3> QED
        BY <1>0, <3>1
    <2>3. CASE r \notin Waiting(token)
      <3>1. req'[r] = req[r]
        BY <2>1, <2>3
      <3> QED
        BY <3>1 DEF Goal
    <2>4. CASE r \in Waiting(token) /\ call[w].answer.status = 200
      <3>1. req'[r] = At("retry", req[r].kind, call[w].answer.tokens)
        BY <2>1, <2>4
      <3>2. req'[r].pc = "retry"
        BY <3>1 DEF At
      <3> QED
        BY <1>2, <3>2 DEF Goal
    <2>5. CASE r \in Waiting(token) /\ call[w].answer.status # 200
      <3>1. req'[r] = Answering(Persisted(req[r].kind, Clear(req[r].tokens)))
        BY <2>1, <2>5
      <3>2. CASE req[r].kind = "page"
        <4>1. req'[r] = Answering(Keep)
          BY <3>1, <3>2 DEF Persisted
        <4> QED
          BY <1>2, <4>1 DEF Goal
      <3>3. CASE req[r].kind # "page"
        <4>1. req'[r] = Answering(Clear(req[r].tokens))
          BY <3>1, <3>3 DEF Persisted
        <4>2. req'[r].set.tokens = req[r].tokens /\ req'[r].pc = "answer"
          BY <1>1, <4>1
        <4>3. Source
          BY <2>1, <2>2, <2>5, <4>2
        <4>4. req'[r].pc # "signingOut"
          BY <4>2
        <4> HIDE DEF Source
        <4> QED
          BY <4>3, <4>4 DEF Goal
      <3> HIDE DEF Source
      <3> QED
        BY <3>2, <3>3
    <2> QED
      BY <2>3, <2>4, <2>5
  <1>13. Goal
    <2>1. ASSUME NEW w \in Request, RequestStep(w) PROVE Goal
      <3>1. Drop(w) => Goal
        BY <1>4 DEF Drop, webVars
      <3>2. /\ Send(w) \/ Refresh(w) \/ Settle(w) \/ Retry(w) \/ SignedIn(w) \/ Respond(w) => Goal
            /\ ~SignedOut(w)
        BY <1>6, <1>7, <1>8, <1>10, <1>11, <1>12
      <3> QED
        BY <2>1, <3>1, <3>2, Zenon DEF RequestStep
    <2>2. ASSUME NEW w \in Request, Browse(w) PROVE Goal
      <3>1. /\ \A kind \in Kind : Arrive(w, kind) => Goal
            /\ \A m \in Email, pw \in Password : SubmitSignIn(w, m, pw) => Goal
            /\ ~SubmitSignOut(w) /\ ~Break(w) /\ ~BreakSigning(w)
        BY <1>5, <1>9, <1>11
      <3> QED
        BY <2>2, <3>1, Zenon DEF Browse
    <2> QED
      BY <1>4, <2>1, <2>2, RequestWriters
  <1> QED
    BY <1>13 DEF Goal

\* A refresh is refused for a session that has ended.
LEMMA NextRefused ==
    ASSUME SessionTypes, MintInv, CopiesInv, RowsInv, FlightInv, HeldInv, Undisturbed,
           Unspent, RefusedRightly, fate' = {}, [WebNext]_allVars
    PROVE  RefusedRightly'
  <1> DEFINE Told(t) == /\ flight[t] # NoFlight
                        /\ call[flight[t]].pc = "done"
                        /\ call[flight[t]].answer.status \notin {200, 500}
  <1>0. Request \subseteq Call
    BY WebSessionAssumption
  <1>1. ASSUME NEW t \in Token, Told(t)' PROVE Refused(t)
    <2>1. CASE flight'[t] = flight[t] /\ call'[flight[t]] = call[flight[t]]
      BY <1>1, <2>1 DEF RefusedRightly
    <2>2. CASE flight'[t] = flight[t] /\ Ends(flight[t], call'[flight[t]])
      <3> DEFINE c == flight[t]
                 y == call'[c]
      <3>1. c \in Request /\ c \in Call /\ flight[t] # NoFlight
        BY <1>0, <1>1, <2>2 DEF SessionTypes, WorkType
      <3>2. Ends(c, y) /\ y.answer.status \notin {200, 500}
        BY <1>1, <2>2
      <3>3. call[c].pc = "refresh" /\ call[c].seen.hash = t
        BY <3>1, <3>2 DEF FlightInv, Ends
      <3> HIDE DEF c, y
      <3>4. UNCHANGED tables /\ ~Active(call[c].seen, now)
        BY <3>2, <3>3 DEF Ends, SignsOut, Changes
      <3>5. /\ call[c].session \in DOMAIN sessions
            /\ sessions[call[c].session] \in {call[c].seen, Revoked(call[c].seen)}
        BY <3>1, <3>3 DEF CopiesInv, Reads, Undisturbed
      <3>6. /\ sessions[call[c].session].hash = t
            /\ ~Active(sessions[call[c].session], now)
        BY <3>3, <3>4, <3>5 DEF Revoked, Row, Active
      <3>7. Ended(t)
        BY <3>5, <3>6 DEF Ended, SessionsWith
      <3>8. spent[t] = 0
        BY <3>1, <3>3 DEF Unspent, c
      <3>9. \A d \in Call : call[d].pc = "refresh" /\ call[d].seen.hash = t => d = c
        BY Unbroken DEF c
      <3> QED
        BY <3>4, <3>7, <3>8, <3>9 DEF Refused
    <2>3. ASSUME Known(t), ~(spent[t] > 0),
                 \/ Copy(call'[flight'[t]], "refresh", t)
                 \/ Turned(call'[flight'[t]]) /\ SessionsWith(t) = {}
          PROVE  FALSE
      <3>1. call'[flight'[t]].pc = "done"
        BY <1>1
      <3>2. SessionsWith(t) = {}
        BY <2>3, <3>1 DEF Copy
      <3> QED
        BY <2>3, <3>2 DEF Undisturbed, Known
    <2> QED
      BY <1>1, <2>1, <2>2, <2>3, FlightMoves
  <1>2. ASSUME NEW t \in Token, Told(t)' PROVE Refused(t)'
    BY <1>1, <1>2, RefusedStays
  <1>3. ASSUME NEW r \in Request
        PROVE  /\ req'[r].pc # "signingOut"
               /\ Clearing(req'[r]) => /\ req'[r].set.tokens.refresh \in Token
                                      /\ Refused(req'[r].set.tokens.refresh)
    <2>1. CASE req'[r] = req[r]
      BY <2>1 DEF RefusedRightly
    <2>2. ASSUME NEW token \in Token,
                 /\ flight[token] \in Request
                 /\ call[flight[token]].pc = "done"
                 /\ call[flight[token]].answer.status \notin {200, 500}
                 /\ r \in Waiting(token)
                 /\ req'[r].set.tokens = req[r].tokens
          PROVE  req'[r].set.tokens.refresh = token /\ Refused(token)
      <3>1. req[r].tokens.refresh = token
        BY <2>2 DEF Waiting
      <3>2. flight[token] # NoFlight
        BY <2>2, WebSessionAssumption
      <3> QED
        BY <2>2, <3>1, <3>2 DEF RefusedRightly
    <2>3. \A w \in Request : req[w].pc # "signingOut"
      BY DEF RefusedRightly
    <2> QED
      BY <2>1, <2>2, <2>3, ClearsAreRefusals
  <1>4. ASSUME NEW t, t \in Token, Refused(t) PROVE Refused(t)'
    BY <1>4, RefusedStays
  <1> QED
    BY <1>2, <1>3, <1>4 DEF RefusedRightly, Refused, Ended, SessionsWith, Clearing

\* A refresh that is in flight has not spent its token until it has succeeded.
LEMMA NextUnspent ==
    ASSUME SessionTypes, MintInv, CopiesInv, RowsInv, FlightInv, HeldInv, Unspent, fate' = {},
           [WebNext]_allVars
    PROVE  Unspent'
  <1>0. Request \subseteq Call /\ \A t \in Token : spent[t] \in Nat
    BY WebSessionAssumption DEF SessionTypes, TablesType
  <1>1. \/ spent' = spent
        \/ \E c \in Call : Rotates(c)
    BY TableSteps DEF tables, SignsUp, SignsIn, Opens, SignsOut, Changes
  <1>2. ASSUME NEW c \in Call, Rotates(c)
        PROVE  /\ flight[call[c].seen.hash] = c
               /\ call[c].pc = "refresh" /\ call'[c].pc = "done"
               /\ \A t \in Token : t # call[c].seen.hash => spent'[t] = spent[t]
    <2>1. call[c].pc = "refresh" /\ spent' = [spent EXCEPT ![call[c].seen.hash] = @ + 1]
      BY <1>2 DEF Rotates
    <2>2. call' = [call EXCEPT ![c] = Done(Minted(NewTokens))]
      BY <1>2 DEF Rotates, Reply
    <2>3. Done(Minted(NewTokens)).pc = "done"
      BY DEF Done
    <2>4. call'[c].pc = "done"
      BY <2>2, <2>3, OneChanges
    <2> QED
      BY <2>1, <2>4, Unbroken DEF SessionTypes, TablesType
  <1>3. ASSUME NEW t \in Token, flight'[t] # NoFlight
        PROVE  \/ spent'[t] = 0
               \/ call'[flight'[t]].pc = "done" /\ call'[flight'[t]].answer.status = 200
    <2>1. CASE flight'[t] = flight[t] /\ call'[flight[t]] = call[flight[t]]
      <3>1. spent'[t] = spent[t]
        <4>1. ASSUME NEW c \in Call, Rotates(c) PROVE t # call[c].seen.hash
          BY <1>2, <2>1, <4>1
        <4> QED
          BY <1>1, <1>2, <4>1
      <3> QED
        BY <1>3, <2>1, <3>1 DEF Unspent
    <2>2. CASE flight'[t] = flight[t] /\ Ends(flight[t], call'[flight[t]])
      <3> DEFINE c == flight[t]
                 y == call'[c]
      <3>1. c \in Call /\ flight[t] # NoFlight
        BY <1>0, <1>3, <2>2 DEF SessionTypes, WorkType
      <3>2. Ends(c, y)
        BY <2>2
      <3>3. call[c].pc = "refresh" /\ call[c].seen.hash = t
        BY <3>1, <3>2 DEF FlightInv, Ends
      <3>4. spent[t] = 0
        BY <3>1, <3>3 DEF Unspent
      <3> HIDE DEF c, y
      <3>5. CASE y.answer.status = 200
        BY <2>2, <3>2, <3>5 DEF Ends, c, y
      <3>6. CASE y.answer.status # 200
        <4>1. UNCHANGED tables
          BY <3>2, <3>3, <3>6 DEF Ends, SignsOut, Changes
        <4> QED
          BY <3>4, <4>1 DEF tables
      <3> QED
        BY <3>5, <3>6
    <2>3. CASE UNCHANGED tables /\ ~(spent[t] > 0)
      BY <1>0, <2>3 DEF tables
    <2> QED
      BY <1>3, <2>1, <2>2, <2>3, FlightMoves
  <1> QED
    BY <1>3 DEF Unspent

\* Whoever spends the token of the cookie renews it, until the answer with the
\* new one has reached the browser.
LEMMA NextRenewed ==
    ASSUME SessionTypes, MintInv, CopiesInv, RowsInv, FlightInv, HeldInv, CookieRenewed,
           fate' = {}, [WebNext]_allVars
    PROVE  CookieRenewed'
  <1>0. /\ Request \subseteq Call /\ Device \subseteq Call /\ Device \cap Request = {}
        /\ NoFlight \notin Request
    BY WebSessionAssumption DEF Device
  <1>1. ASSUME NEW r \in Request, Renewing(r)'
        PROVE  CookieRenewed'
    BY <1>1 DEF CookieRenewed
  <1>2. ASSUME UNCHANGED <<spent, cookie>>, \A r \in Request : Renewing(r) => Renewing(r)'
        PROVE  CookieRenewed'
    BY <1>2 DEF CookieRenewed
  <1>3. ASSUME NEW w \in Request, Renewing(w), call'[w] = call[w], req'[w] = req[w],
               req[w].pc = "refreshing" =>
                  flight'[req[w].tokens.refresh] = flight[req[w].tokens.refresh]
        PROVE  Renewing(w)'
    BY <1>3 DEF Renewing
  <1>4. CASE UNCHANGED <<tables, call, webVars>>
    BY <1>2, <1>4 DEF tables, webVars, Renewing
  <1>5. ASSUME NEW c \in Call, NEW y \in CallState, Asked(c, y) PROVE CookieRenewed'
    <2>1. /\ call' = [call EXCEPT ![c] = y]
          /\ req' = req /\ flight' = flight /\ UNCHANGED <<spent, cookie>>
          /\ \A t \in Token : flight[t] # NoFlight => flight[t] # c
      BY <1>5 DEF Asked, webVars, tables
    <2>2. \A d \in Call : d # c => call'[d] = call[d]
      BY <2>1, OneChanges
    <2>3. ASSUME NEW w \in Request, Renewing(w) PROVE Renewing(w)'
      <3>1. CASE req[w].pc = "refreshing"
        <4>1. req[w].tokens.refresh \in Token
          BY <3>1, KnownTokens DEF HeldInv
        <4>2. flight[req[w].tokens.refresh] = w
          BY <2>3, <3>1 DEF Renewing
        <4>3. w # c
          BY <1>0, <2>1, <4>1, <4>2
        <4> QED
          BY <1>0, <1>3, <2>1, <2>2, <2>3, <4>3
      <3>2. CASE req[w].pc # "refreshing"
        BY <2>1, <2>3, <3>2 DEF Renewing
      <3> QED
        BY <3>1, <3>2
    <2> QED
      BY <1>2, <2>1, <2>3
  <1>6. ASSUME NEW c \in Call, NEW y \in CallState, call' = [call EXCEPT ![c] = y], Ends(c, y)
        PROVE  CookieRenewed'
    <2>1. /\ call'[c] = y /\ \A d \in Call : d # c => call'[d] = call[d]
          /\ req' = req /\ flight' = flight /\ cookie' = cookie
          /\ call[c].pc \notin {"idle", "done"}
      BY <1>6, OneChanges DEF Ends, webVars
    <2>2. CASE Rotates(c)
      <3>1. /\ call[c].pc = "refresh" /\ y.pc = "done" /\ y.answer.status = 200
        BY <1>6, <2>2 DEF Ends, Rotates, SignsOut, Changes, tables, Fresh,
                          SessionTypes, TablesType
      <3>2. /\ c \in Request /\ flight[call[c].seen.hash] = c
            /\ call[c].seen.hash \in Token
        BY <3>1, InSlots, InTables, Unbroken
      <3>3. req[c].pc = "refreshing" /\ req[c].tokens.refresh = call[c].seen.hash
        BY <1>0, <3>2 DEF FlightInv
      <3>4. Renewing(c)'
        BY <2>1, <3>1, <3>2, <3>3 DEF Renewing
      <3> QED
        BY <1>1, <3>2, <3>4
    <2>3. CASE ~Rotates(c)
      <3>1. spent' = spent
        BY <1>6, <2>3 DEF Ends, tables, SignsUp, SignsIn, Opens, SignsOut, Changes
      <3>2. ASSUME NEW w \in Request, Renewing(w) PROVE Renewing(w)'
        <4>1. CASE w = c
          BY <2>1, <3>2, <4>1 DEF Renewing
        <4>2. CASE w # c
          BY <1>0, <1>3, <2>1, <3>2, <4>2
        <4> QED
          BY <4>1, <4>2
      <3> QED
        BY <1>2, <2>1, <3>1, <3>2
    <2> QED
      BY <2>2, <2>3
  <1>7. ASSUME NEW r \in Request, NEW x \in RequestState, Walks(r, x) PROVE CookieRenewed'
    <2>1. /\ req'[r] = x /\ \A w \in Request : w # r => req'[w] = req[w]
          /\ call' = call /\ flight' = flight /\ spent' = spent
      BY <1>7, OneChanges DEF Walks, tables
    <2>2. \A w \in Request : w # r /\ Renewing(w) => Renewing(w)'
      BY <1>3, <2>1
    <2>3. CASE req[r].pc = "answer"
      <3>1. /\ cookie' = CookieAfter(req[r].set)
            /\ req[r].set.op = "set" => ~(spent[req[r].set.tokens.refresh] > 0)
        BY <1>7, <2>3 DEF Walks, Goes
      <3>2. req[r].set.op \in {"keep", "clear", "set"}
        BY <2>3, InRequests DEF CookieChange
      <3>3. CASE req[r].set.op = "keep"
        <4>1. cookie' = cookie /\ ~Renewing(r)
          BY <2>3, <3>1, <3>3 DEF CookieAfter, Renewing
        <4> QED
          BY <1>2, <2>1, <2>2, <4>1
      <3>4. CASE req[r].set.op = "clear"
        BY <3>1, <3>4 DEF CookieAfter, CookieRenewed
      <3>5. CASE req[r].set.op = "set"
        BY <2>1, <3>1, <3>5 DEF CookieAfter, CookieRenewed
      <3> QED
        BY <3>2, <3>3, <3>4, <3>5
    <2>4. CASE req[r].pc # "answer"
      <3>1. /\ cookie' = cookie
            /\ req[r].pc \in {"idle", "send", "unauthorized"}
                  \/ (req[r].pc = "retry" /\ Setting(x, req[r].tokens))
        BY <1>7, <2>4 DEF Walks, Goes
      <3>2. Renewing(r) => Renewing(r)'
        BY <2>1, <3>1 DEF Renewing, Setting
      <3> QED
        BY <1>2, <2>1, <2>2, <3>1, <3>2
    <2> QED
      BY <2>3, <2>4
  <1>8. ASSUME NEW r \in Request, req[r].pc \in {"idle", "signingIn", "signingOut", "unauthorized"},
               NEW x, req' = [req EXCEPT ![r] = x], NEW y, call' = [call EXCEPT ![r] = y],
               UNCHANGED <<tables, cookie>>,
               \A t \in Token : flight[t] # NoFlight => flight'[t] = flight[t]
        PROVE  CookieRenewed'
    <2>1. /\ \A w \in Request : w # r => req'[w] = req[w]
          /\ \A w \in Request : w # r => call'[w] = call[w]
      BY <1>0, <1>8, OneChanges
    <2>2. ~Renewing(r)
      BY <1>8 DEF Renewing
    <2>3. ASSUME NEW w \in Request, Renewing(w) PROVE Renewing(w)'
      <3>1. req[w].pc = "refreshing" => req[w].tokens.refresh \in Token
        BY KnownTokens DEF HeldInv
      <3>2. req[w].pc = "refreshing" => flight[req[w].tokens.refresh] = w
        BY <2>3 DEF Renewing
      <3> QED
        BY <1>0, <1>3, <1>8, <2>1, <2>2, <2>3, <3>1, <3>2
    <2> QED
      BY <1>2, <1>8, <2>3 DEF tables
  <1>9. ASSUME NEW r \in Request, NEW x \in RequestState, Returns(r, x) PROVE CookieRenewed'
    BY <1>8, <1>9 DEF Returns
  <1>10. ASSUME NEW r \in Request, NEW x \in RequestState, NEW y \in CallState, Submits(r, x, y)
         PROVE  CookieRenewed'
    BY <1>8, <1>10 DEF Submits
  <1>11. ASSUME NEW r \in Request, NEW x \in RequestState, NEW y \in CallState, Launches(r, x, y)
         PROVE  CookieRenewed'
    <2>1. req[r].tokens.refresh \in Token
      BY <1>11, KnownTokens DEF Launches, HeldInv
    <2>2. /\ flight' = [flight EXCEPT ![req[r].tokens.refresh] = r]
          /\ flight[req[r].tokens.refresh] = NoFlight
      BY <1>11 DEF Launches
    <2>3. \A t \in Token : flight[t] # NoFlight => flight'[t] = flight[t]
      BY <2>1, <2>2, OneChanges
    <2>4. /\ req[r].pc = "unauthorized" /\ UNCHANGED <<tables, cookie>>
          /\ req' = [req EXCEPT ![r] = x] /\ call' = [call EXCEPT ![r] = y]
      BY <1>11 DEF Launches
    <2> QED
      BY <1>8, <2>3, <2>4
  <1>12. ASSUME NEW r \in Request, NEW token \in Token, Settles(r, token) PROVE CookieRenewed'
    <2>1. /\ call' = [call EXCEPT ![r] = Idle] /\ r \in Call
          /\ flight' = [flight EXCEPT ![token] = NoFlight]
          /\ flight[token] = r
          /\ UNCHANGED <<spent, cookie>>
          /\ \A w \in Request \ Waiting(token) : req'[w] = req[w]
      BY <1>0, <1>12 DEF Settles, tables
    <2>2. \A d \in Call : d # r => call'[d] = call[d]
      BY <2>1, OneChanges
    <2>3. \A t \in Token : t # token => flight'[t] = flight[t]
      BY <2>1 DEF SessionTypes, WorkType
    <2>4. ASSUME NEW w \in Request, Renewing(w) PROVE Renewing(w)'
      <3>1. CASE w \in Waiting(token)
        <4>1. w = r /\ call[r].answer.status = 200
          BY <2>1, <2>4, <3>1 DEF Renewing, Waiting
        <4>2. req'[w].pc = "retry"
          BY <1>12, <3>1, <4>1 DEF Settles
        <4> QED
          BY <4>2 DEF Renewing
      <3>2. CASE w \notin Waiting(token)
        <4>1. req'[w] = req[w]
          BY <2>1, <3>2
        <4>2. CASE req[w].pc = "refreshing"
          <5>1. req[w].tokens.refresh # token /\ req[w].tokens.refresh \in Token
            BY <3>2, <4>2, KnownTokens DEF Waiting, HeldInv
          <5>2. flight[req[w].tokens.refresh] = w
            BY <2>4, <4>2 DEF Renewing
          <5>3. w # r
            BY <1>0, <2>1, <5>1, <5>2 DEF FlightInv
          <5> QED
            BY <1>0, <1>3, <2>2, <2>3, <2>4, <4>1, <5>1, <5>3
        <4>3. CASE req[w].pc # "refreshing"
          BY <2>4, <4>1, <4>3 DEF Renewing
        <4> QED
          BY <4>2, <4>3
      <3> QED
        BY <3>1, <3>2
    <2> QED
      BY <1>2, <2>1, <2>4
  <1> QED
    BY <1>4, <1>5, <1>6, <1>7, <1>9, <1>10, <1>11, <1>12, Steps DEF Breaks

\* A refresh that is refused is one whose session has ended, and its answer
\* clears the cookie that it was about, so that no live session is taken from
\* the browser.
LEMMA NextServed ==
    ASSUME SessionTypes, MintInv, CopiesInv, RowsInv, FlightInv, HeldInv, Undisturbed, Served,
           fate' = {}, [WebNext]_allVars
    PROVE  Served'
  <1>1. ASSUME NEW r \in Request, Respond(r) PROVE ~lost'
    <2> DEFINE set == req[r].set
    <2>1. /\ req[r].pc = "answer"
          /\ ~Overtaken(set)
          /\ lost' = (lost \/ (set.op = "clear" /\ Live(cookie)))
      <3>1. Overtaken(set) => "overtaken" \in fate'
        BY <1>1 DEF Respond
      <3> QED
        BY <1>1, <3>1 DEF Respond
    <2>2. ASSUME set.op = "clear" PROVE ~Live(cookie)
      <3>1. set.tokens.refresh \in Token /\ Refused(set.tokens.refresh)
        BY <2>1, <2>2 DEF Served, RefusedRightly, Clearing
      <3>2. NoTokens.refresh \notin Token
        BY DEF NoTokens, Tokens, NoToken, Token
      <3>3. cookie = NoTokens \/ cookie = set.tokens
        BY <2>1, <2>2, <3>1, <3>2 DEF Overtaken, Refused
      <3>4. CASE cookie = NoTokens
        <4>1. \A s \in DOMAIN sessions : sessions[s].hash \in Token
          BY InTables
        <4> QED
          BY <3>2, <3>4, <4>1 DEF Live, SessionsWith
      <3>5. CASE cookie = set.tokens
        <4>1. PICK s \in DOMAIN sessions :
                  sessions[s].hash = cookie.refresh /\ ~Active(sessions[s], now)
          BY <3>1, <3>5 DEF Refused, Ended, SessionsWith
        <4>2. \A z \in DOMAIN sessions : sessions[z].hash = cookie.refresh => z = s
          BY <4>1 DEF RowsInv
        <4> QED
          BY <4>1, <4>2 DEF Live, SessionsWith
      <3> QED
        BY <3>3, <3>4, <3>5
    <2> QED
      BY <2>1, <2>2 DEF Served
  <1>2. ~lost'
    BY <1>1, FateWriters DEF Served
  <1> QED
    BY <1>2, NextRefused, NextUnspent, NextRenewed DEF Served

\* Every step keeps the session of a browser whom nothing befalls.
LEMMA NextCause ==
    ASSUME SessionTypes, MintInv, CopiesInv, RowsInv, FlightInv, HeldInv, CauseInv,
           [WebNext]_allVars
    PROVE  CauseInv'
  BY FateWriters, NextUndisturbed, NextServed DEF CauseInv

-----------------------------------------------------------------------------
(* The beginning and the theorems.                                          *)

\* At the beginning there is nobody, or one client with an account and a token.
LEMMA Beginning ==
    ASSUME WebInit
    PROVE  /\ TablesType
           /\ lastToken \in {0, 1}
           /\ DOMAIN accounts \subseteq {1}
           /\ DOMAIN sessions = 1..lastToken
           /\ \A s \in DOMAIN sessions :
                 /\ sessions[s].hash = s
                 /\ sessions[s].account \in DOMAIN accounts
                 /\ provedBy[s] = accounts[sessions[s].account].password
           /\ cookie \in Pair
           /\ cookie = NoTokens \/ cookie.refresh \in 1..lastToken
  <1>0. /\ lastToken = Len(sessions)
        /\ customers = DOMAIN accounts
        /\ spent = [t \in Token |-> 0]
        /\ cookie = IF sessions = <<>> THEN NoTokens ELSE Tokens(1, AccessTtl)
        /\ MaxCalls \in Nat /\ RefreshTtl \in Nat /\ AccessTtl \in Nat
        /\ spent \in [Token -> Nat]
    BY SessionsAssumption DEF WebInit, Init
  <1>1. CASE accounts = <<>> /\ sessions = <<>> /\ provedBy = <<>>
    <2>1. /\ accounts \in Seq(AccountRow) /\ sessions \in Seq(SessionRow)
          /\ provedBy \in Seq(Password) /\ lastToken = 0
          /\ DOMAIN accounts = {} /\ DOMAIN sessions = {} /\ Len(provedBy) = Len(sessions)
      BY <1>0, <1>1
    <2>2. cookie = NoTokens /\ NoTokens \in Pair
      BY <1>0, <1>1, AnswersAreStates
    <2>3. 1..lastToken = {}
      BY <2>1
    <2> QED
      BY <1>0, <2>1, <2>2, <2>3 DEF TablesType
  <1>2. ASSUME NEW m \in Address, NEW p \in Password, PolicyAccepts(p),
               accounts = << [email |-> Typed(m, "stored"), password |-> p] >>,
               sessions = << Issued(1, 1, 0, RefreshTtl) >>, provedBy = <<p>>
        PROVE  /\ TablesType
               /\ lastToken \in {0, 1}
               /\ DOMAIN accounts \subseteq {1}
               /\ DOMAIN sessions = 1..lastToken
               /\ \A s \in DOMAIN sessions :
                     /\ sessions[s].hash = s
                     /\ sessions[s].account \in DOMAIN accounts
                     /\ provedBy[s] = accounts[sessions[s].account].password
               /\ cookie \in Pair
               /\ cookie = NoTokens \/ cookie.refresh \in 1..lastToken
    <2> DEFINE account == [email |-> Typed(m, "stored"), password |-> p]
               row == Issued(1, 1, 0, RefreshTtl)
    <2>1. account \in AccountRow /\ account.password = p
      BY <1>2 DEF AccountRow, Stored, Accepted
    <2>2. 1 \in Token
      BY <1>0 DEF Token
    <2>3. row \in SessionRow /\ row.hash = 1 /\ row.account = 1
      BY <1>0, <2>2 DEF Issued, Row, SessionRow
    <2>4. Tokens(1, AccessTtl) \in Pair /\ Tokens(1, AccessTtl).refresh = 1
      BY <1>0 DEF Tokens, Pair
    <2>5. accounts = <<account>> /\ sessions = <<row>> /\ provedBy = <<p>>
      BY <1>2
    <2> HIDE DEF account, row
    <2>6. /\ accounts \in Seq(AccountRow) /\ sessions \in Seq(SessionRow)
          /\ provedBy \in Seq(Password)
          /\ Len(sessions) = 1 /\ Len(provedBy) = 1 /\ sessions # <<>>
          /\ DOMAIN accounts = {1} /\ DOMAIN sessions = {1}
          /\ accounts[1] = account /\ sessions[1] = row /\ provedBy[1] = p
      BY <2>1, <2>3, <2>5
    <2>7. lastToken = 1 /\ 1..lastToken = {1} /\ cookie = Tokens(1, AccessTtl)
      BY <1>0, <2>6
    <2> QED
      BY <1>0, <2>1, <2>3, <2>4, <2>6, <2>7 DEF TablesType
  <1> QED
    BY <1>1, <1>2 DEF WebInit, Init

\* The invariant holds at the beginning.
LEMMA InitSession ==
    ASSUME WebInit
    PROVE  SessionInv
  <1>1. /\ now = 0 /\ calls = 0 /\ faults = 0 /\ raced = {} /\ superseded = {}
        /\ call = [c \in Call |-> Idle] /\ req = [r \in Request |-> Idle]
        /\ flight = [t \in Token |-> NoFlight]
        /\ spent = [t \in Token |-> 0]
        /\ fate = {} /\ lost = FALSE /\ broken = {}
    BY DEF WebInit, Init
  <1>2. /\ \A c \in Call : call[c] = Idle
        /\ \A r \in Request : req[r] = Idle /\ call[r] = Idle
        /\ \A t \in Token : flight[t] = NoFlight
        /\ \A t \in Token : spent[t] = 0
        /\ Idle.pc = "idle"
    BY <1>1, WebSessionAssumption DEF Idle
  <1>3. SessionTypes
    <2>1. CountsType
      BY <1>1, SessionsAssumption DEF CountsType
    <2>2. WorkType
      BY <1>1, Beginning, AnswersAreStates DEF WorkType
    <2> QED
      BY <2>1, <2>2, Beginning DEF SessionTypes
  <1>4. MintInv
    <2>1. CallMinters = {} /\ RequestMinters = {}
      BY <1>2 DEF CallMinters, RequestMinters
    <2>2. /\ IsFiniteSet(CallMinters) /\ Cardinality(CallMinters) = 0
          /\ IsFiniteSet(RequestMinters) /\ Cardinality(RequestMinters) = 0
      BY <2>1, FS_EmptySet
    <2> QED
      BY <1>1, <2>2, Beginning DEF MintInv
  <1>5. FlightInv
    BY <1>1, <1>2 DEF FlightInv
  <1>6. HeldInv
    BY <1>2, Beginning DEF HeldInv, Known
  <1>7. RowsInv
    BY <1>1, <1>2, Beginning DEF RowsInv, Known
  <1>8. CopiesInv
    BY <1>2 DEF CopiesInv, Reads
  <1>9. OneAccountPerEmail
    BY Beginning DEF OneAccountPerEmail
  <1>10. SupersededStaysDead
    BY <1>1 DEF SupersededStaysDead
  <1>11. OnlyRacesOutliveAChange
    BY Beginning DEF OnlyRacesOutliveAChange, Outlived
  <1>12. \A s \in DOMAIN sessions : sessions[s].hash \in Token
    BY <1>3, InTables
  <1>13. SpentInv
    BY <1>2, <1>12 DEF SpentInv, TokenSpentOnce
  <1>14. Undisturbed
    BY <1>2, Beginning DEF Undisturbed, SessionsWith
  <1>15. CookieRenewed
    <2>1. cookie # NoTokens => cookie.refresh \in Token
      BY <1>3, <1>4, Beginning, KnownTokens DEF Known
    <2> QED
      BY <1>2, <2>1 DEF CookieRenewed
  <1>16. Served
    BY <1>1, <1>2, <1>15 DEF Served, RefusedRightly, Unspent, Clearing
  <1> QED
    BY <1>3, <1>4, <1>5, <1>6, <1>7, <1>8, <1>9, <1>10, <1>11, <1>13, <1>14, <1>16
       DEF SessionInv, CauseInv

\* And every step keeps it.
LEMMA NextSession ==
    ASSUME SessionInv, [WebNext]_allVars
    PROVE  SessionInv'
  BY NextTypes, NextMint, NextFlight, NextHeld, NextRows, NextCopies, NextOneAccount,
     NextSuperseded, NextOutlive, NextSpent, NextCause
     DEF SessionInv

\* In every state of the API and the BFF the invariant holds: whatever clients
\* send, however their steps interleave, whichever calls and connections fail.
THEOREM SessionsCorrect == WebSpec => []SessionInv
  <1>1. WebInit => SessionInv
    BY InitSession
  <1>2. SessionInv /\ [WebNext]_allVars => SessionInv'
    BY NextSession
  <1> QED
    BY <1>1, <1>2, PTL DEF WebSpec

\* Rows, requests and the map of refreshes are well formed (TypeOK).
THEOREM TypeCorrect == WebSpec => []TypeOK
  <1>1. SessionInv => TypeOK
    <2>1. ASSUME SessionInv PROVE SessionsTypeOK
      <3>1. /\ \A a \in DOMAIN accounts : /\ accounts[a].email \in Email
                                          /\ accounts[a].password \in Password
                                          /\ PolicyAccepts(accounts[a].password)
        <4>1. Stored \subseteq Email
          BY DEF Stored, Email, Spelling
        <4> QED
          BY <2>1, <4>1, InTables DEF SessionInv, Accepted
      <3>2. \A s \in DOMAIN sessions : sessions[s] \in SessionRow /\ sessions[s].account \in customers
        BY <2>1, InTables DEF SessionInv, RowsInv, SessionTypes, TablesType
      <3>3. lastToken \in 0..(MaxCalls + 1)
        BY <2>1, KnownTokens, SessionsAssumption DEF SessionInv
      <3> QED
        BY <2>1, <3>1, <3>2, <3>3 DEF SessionInv, SessionTypes, TablesType, CountsType, SessionsTypeOK
    <2>2. ASSUME SessionInv PROVE cookie.refresh \in Token \cup {NoToken}
      BY <2>2, KnownTokens DEF SessionInv, HeldInv, NoTokens, Tokens
    <2>3. ASSUME SessionInv, NEW t \in Token, InFlight(t) PROVE call[flight[t]] # Idle
      BY <2>3 DEF SessionInv, FlightInv, InFlight, Idle
    <2> QED
      BY <2>1, <2>2, <2>3, InRequests DEF TypeOK, SessionInv
  <1> QED
    BY <1>1, SessionsCorrect, PTL

\* However many sign-ups with one address are under way at once, and however
\* they spell it, one account comes out of them.
THEOREM OneAccount == WebSpec => []OneAccountPerEmail
  <1>1. SessionInv => OneAccountPerEmail
    BY DEF SessionInv
  <1> QED
    BY <1>1, SessionsCorrect, PTL

\* A token that a rotation replaced opens nothing ever again, although requests
\* save rows that they read before it.
THEOREM DeadTokensStayDead == WebSpec => []SupersededStaysDead
  <1>1. SessionInv => SupersededStaysDead
    BY DEF SessionInv
  <1> QED
    BY <1>1, SessionsCorrect, PTL

\* A change of password ends every session that an old one opened, but for
\* those that were between their read and their write when it committed.
THEOREM PasswordChangesHold == WebSpec => []OnlyRacesOutliveAChange
  <1>1. SessionInv => OnlyRacesOutliveAChange
    BY DEF SessionInv
  <1> QED
    BY <1>1, SessionsCorrect, PTL

\* However many requests of a browser meet a 401 at once, their refresh token
\* is spent once, unless the connection of its refresh broke while the API was
\* working on it.
THEOREM TokensAreSpentOnce == WebSpec => []TokenSpentOnce
  <1>1. SessionInv => TokenSpentOnce
    BY DEF SessionInv, SpentInv
  <1> QED
    BY <1>1, SessionsCorrect, PTL

\* A browser loses a live session, or is left with a token that no session has,
\* only for one of the causes that SessionLostForACause names: not for a
\* refresh that its requests share, nor for a refusal that was right.
THEOREM SessionsAreLostForACause == WebSpec => []SessionLostForACause
  <1>1. ASSUME SessionInv PROVE SessionLostForACause
    <2>1. SUFFICES ASSUME fate = {} PROVE SessionLostForACause
      BY DEF SessionLostForACause
    <2>2. Undisturbed /\ Served
      BY <1>1, <2>1 DEF SessionInv, CauseInv
    <2>3. ASSUME Quiet, cookie # NoTokens PROVE SessionsWith(cookie.refresh) # {}
      <3>1. \A r \in Request : ~Renewing(r)
        BY <2>3 DEF Quiet, Renewing, Idle
      <3>2. ~(spent[cookie.refresh] > 0)
        BY <2>2, <2>3, <3>1 DEF Served, CookieRenewed
      <3>3. cookie.refresh \in 1..lastToken
        BY <1>1, <2>3 DEF SessionInv, HeldInv, Known
      <3> QED
        BY <2>2, <3>2, <3>3 DEF Undisturbed
    <2> QED
      BY <2>2, <2>3 DEF SessionLostForACause, Served
  <1> QED
    BY <1>1, SessionsCorrect, PTL

=============================================================================
