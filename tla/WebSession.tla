----------------------------- MODULE WebSession -----------------------------
(***************************************************************************)
(* The BFF of the web application in front of the identity module: the     *)
(* encrypted cookie that carries a browser's tokens (server/session.ts),   *)
(* the fetch that renews them after a 401 and tries once more              *)
(* (server/api-client.ts), signing in and out (server/auth-actions.ts).    *)
(*                                                                         *)
(* A request of a browser reads the cookie it was sent with, whatever has  *)
(* become of the browser's cookie since, and its answer brings what it did *)
(* to the cookie.  Requests of one browser overlap: the cart page itself   *)
(* makes two.  One process serves them, which merges the refreshes that    *)
(* start with one token while the first of them is in flight.              *)
(*                                                                         *)
(* The slots of requests are slots of the API too, for the refresh, the    *)
(* sign-in or the sign-out that a request makes; the other slots belong to *)
(* clients of the API that are no browser.                                 *)
(***************************************************************************)
EXTENDS Sessions

CONSTANTS
    Request,  \* slots of the requests that browsers have under way
    NoFlight  \* marks a token that nobody is refreshing

ASSUME WebSessionAssumption ==
    /\ Request \subseteq Call
    /\ NoFlight \notin Request

VARIABLES
    cookie,  \* the tokens in the browser's cookie, NoTokens if it has none
    req,     \* what each request is doing
    flight,  \* inFlightRefreshes: the request that refreshes each token
    fate,    \* history: what befell the browser's session
    lost,    \* history: a live session was taken from the browser
    broken   \* history: tokens whose refresh went on in the API unheard

webVars == <<cookie, req, flight, fate, lost, broken>>
allVars == <<sessionVars, webVars>>

\* A page is rendered by a server component, which cannot write cookies; an
\* action is a route handler, which can.
Kind == {"page", "action"}

\* What an answer does to the cookie: leaves it, clears it (on account of
\* the tokens that were refused) or sets it.
Keep == [op |-> "keep", tokens |-> NoTokens]
Clear(refused) == [op |-> "clear", tokens |-> refused]
Set(tokens) == [op |-> "set", tokens |-> tokens]

At(pc, kind, tokens) == [pc |-> pc, kind |-> kind, tokens |-> tokens]
Answering(set) == [pc |-> "answer", set |-> set]
Become(r, state) == req' = [req EXCEPT ![r] = state]

\* persist(): while a page is rendered the write is refused, the request ends
\* with SessionExpiredError and the cookie stays as it is.
Persisted(kind, set) == IF kind = "page" THEN Keep ELSE set

-----------------------------------------------------------------------------
WebInit ==
    /\ Init
    /\ cookie = IF sessions = <<>> THEN NoTokens ELSE Tokens(1, AccessTtl)
    /\ req = [r \in Request |-> Idle]
    /\ flight = [t \in Token |-> NoFlight]
    /\ fate = {}
    /\ lost = FALSE
    /\ broken = {}

Counted ==
    /\ calls < MaxCalls
    /\ calls' = calls + 1
    /\ UNCHANGED <<now, accounts, customers, sessions, lastToken, call, faults,
                   provedBy, raced, superseded, spent>>

\* authedFetch and createAuthenticatedApi: read the store; without a session
\* there is nothing to send.
Arrive(r, kind) ==
    /\ req[r] = Idle
    /\ Counted
    /\ Become(r, IF cookie = NoTokens THEN Answering(Keep) ELSE At("send", kind, cookie))
    /\ UNCHANGED <<cookie, flight, fate, lost, broken>>

\* The first call of the API: whatever it answers but 401 is the answer.
Send(r) ==
    /\ req[r].pc = "send"
    /\ Become(r, IF AccessAccepted(req[r].tokens, now) THEN Answering(Keep)
                 ELSE [req[r] EXCEPT !.pc = "unauthorized"])
    /\ UNCHANGED <<sessionVars, cookie, flight, fate, lost, broken>>

\* MUTANT of InFlight: every request refreshes for itself.
NeverInFlight(token) == FALSE

InFlight(token) == flight[token] # NoFlight

\* refreshTokens: join the refresh of this token, or start it.  Starting late
\* is starting with a token that another refresh has used up since.
Refresh(r) ==
    LET token == req[r].tokens.refresh IN
    /\ req[r].pc = "unauthorized"
    /\ Become(r, [req[r] EXCEPT !.pc = "refreshing"])
    /\ IF InFlight(token)
       THEN UNCHANGED <<sessionVars, flight, fate>>
       ELSE /\ call[r] = Idle
            /\ call' = [call EXCEPT ![r] = RefreshWork(token)]
            /\ flight' = [flight EXCEPT ![token] = r]
            /\ fate' = IF spent[token] > 0 THEN fate \cup {"late"} ELSE fate
            /\ UNCHANGED <<now, accounts, customers, sessions, lastToken, calls,
                           faults, provedBy, raced, superseded, spent>>
    /\ UNCHANGED <<cookie, lost, broken>>

\* MUTANT of Waiting: an error settles nobody's promise.
ToldOfSuccess(token) ==
    {w \in Request :
        /\ req[w].pc = "refreshing" /\ req[w].tokens.refresh = token
        /\ call[flight[token]].pc = "done" /\ call[flight[token]].answer.status = 200}

Waiting(token) == {w \in Request : req[w].pc = "refreshing" /\ req[w].tokens.refresh = token}

\* doRefreshTokens: tokens, or null for every answer that is not 2xx.  The
\* entry is deleted and everyone who waited learns the result.
Settle(r) ==
    \E token \in Token :
        /\ flight[token] = r
        /\ call[r].pc = "done"
        /\ LET answer == call[r].answer IN
           /\ req' = [w \in Request |->
                        IF w \notin Waiting(token) THEN req[w]
                        ELSE IF answer.status = 200 THEN At("retry", req[w].kind, answer.tokens)
                        ELSE Answering(Persisted(req[w].kind, Clear(req[w].tokens)))]
           /\ fate' = fate \cup (IF answer.status = 500 THEN {"error"} ELSE {})
        /\ flight' = [flight EXCEPT ![token] = NoFlight]
        /\ TakeAnswer(r)
        /\ UNCHANGED <<cookie, lost, broken>>

\* The refresh that a broken connection leaves behind in the API.
Unheard(r, token) == IF call[r].pc = "refresh" THEN {token} ELSE {}

\* The connection breaks at any moment before the answer: fetch rejects and so
\* do all the requests that wait, with a 500 and the cookie as it was.  The
\* entry is deleted at once.  The API knows nothing of it and goes on.
Break(r) ==
    \E token \in Token :
        /\ flight[token] = r
        /\ faults < MaxFaults
        /\ faults' = faults + 1
        /\ req' = [w \in Request |-> IF w \in Waiting(token) THEN Answering(Keep) ELSE req[w]]
        /\ flight' = [flight EXCEPT ![token] = NoFlight]
        /\ fate' = fate \cup {"error"}
        /\ broken' = broken \cup Unheard(r, token)
        /\ UNCHANGED <<now, accounts, customers, sessions, lastToken, call, calls,
                       provedBy, raced, superseded, spent, cookie, lost>>

\* What the API answers on a broken connection reaches nobody.
Drop(r) ==
    /\ \A token \in Token : flight[token] # r
    /\ req[r].pc \notin {"signingIn", "signingOut"}
    /\ TakeAnswer(r)
    /\ UNCHANGED webVars

AfterRetry(kind, tokens) ==
    Answering(IF AccessAccepted(tokens, now) THEN Set(tokens) ELSE Clear(tokens))

\* store.write, then exactly one more try: a second 401 clears the cookie.
Retry(r) ==
    LET kind == req[r].kind IN
    /\ req[r].pc = "retry"
    /\ Become(r, IF kind = "page" THEN Answering(Persisted(kind, Set(req[r].tokens)))
                 ELSE AfterRetry(kind, req[r].tokens))
    /\ fate' = IF kind = "page" THEN fate \cup {"rendered"}
               ELSE IF ~AccessAccepted(req[r].tokens, now) THEN fate \cup {"refused twice"}
               ELSE fate
    /\ UNCHANGED <<sessionVars, cookie, flight, lost, broken>>

-----------------------------------------------------------------------------
(* Signing in and out.                                                      *)

\* signInAction calls the API whatever the cookie holds.
SubmitSignIn(r, email, password) ==
    /\ req[r] = Idle
    /\ BeginSignIn(r, email, password)
    /\ Become(r, [pc |-> "signingIn"])
    /\ UNCHANGED <<cookie, flight, fate, lost, broken>>

SignedIn(r) ==
    /\ req[r].pc = "signingIn"
    /\ TakeAnswer(r)
    /\ Become(r, Answering(IF call[r].answer.status = 200
                           THEN Set(call[r].answer.tokens) ELSE Keep))
    /\ UNCHANGED <<cookie, flight, fate, lost, broken>>

\* signOutAction without a session only clears.
SubmitSignOut(r) ==
    /\ req[r] = Idle
    /\ IF cookie = NoTokens
       THEN Counted /\ Become(r, Answering(Clear(NoTokens)))
       ELSE BeginSignOut(r, cookie.refresh) /\ Become(r, [pc |-> "signingOut"])
    /\ fate' = fate \cup {"signed out"}
    /\ UNCHANGED <<cookie, flight, lost, broken>>

\* Whatever came of the call, the cookie is cleared.
SignedOut(r) ==
    /\ req[r].pc = "signingOut"
    /\ TakeAnswer(r)
    /\ Become(r, Answering(Clear(NoTokens)))
    /\ UNCHANGED <<cookie, flight, fate, lost, broken>>

\* The connection of a sign-in or a sign-out breaks: signInAction fails with
\* it, signOutAction ignores the failure and clears.  The API goes on.
BreakSigning(r) ==
    /\ req[r].pc \in {"signingIn", "signingOut"}
    /\ faults < MaxFaults
    /\ faults' = faults + 1
    /\ Become(r, Answering(IF req[r].pc = "signingIn" THEN Keep ELSE Clear(NoTokens)))
    /\ fate' = fate \cup {"error"}
    /\ UNCHANGED <<now, accounts, customers, sessions, lastToken, call, calls,
                   provedBy, raced, superseded, spent, cookie, flight, lost, broken>>

\* MUTANT of CookieAfter: Set-Cookie of a renewal is not sent.
CookieUnset(set) == IF set.op = "clear" THEN NoTokens ELSE cookie

CookieAfter(set) ==
    IF set.op = "keep" THEN cookie ELSE IF set.op = "clear" THEN NoTokens ELSE set.tokens

Live(tokens) == \E s \in SessionsWith(tokens.refresh) : Active(sessions[s], now)

\* An answer is overtaken when it sets a cookie that a later refresh has used
\* up, or when it clears, for tokens that nothing was bought with, a cookie
\* that holds others by now: the browser has signed in again.
Overtaken(set) ==
    \/ set.op = "set" /\ spent[set.tokens.refresh] > 0
    \/ /\ set.op = "clear"
       /\ set.tokens # NoTokens /\ cookie \notin {NoTokens, set.tokens}
       /\ spent[set.tokens.refresh] = 0

\* The answer reaches the browser, in any order with the others.
Respond(r) ==
    /\ req[r].pc = "answer"
    /\ LET set == req[r].set IN
       /\ cookie' = CookieAfter(set)
       /\ fate' = fate \cup (IF Overtaken(set) THEN {"overtaken"} ELSE {})
       /\ lost' = (lost \/ (set.op = "clear" /\ Live(cookie)))
    /\ Become(r, Idle)
    /\ UNCHANGED <<sessionVars, flight, broken>>

-----------------------------------------------------------------------------
Device == Call \ Request

\* A client of the API that signs up or changes a password.
DeviceStep(c) ==
    \/ \E m \in Email, p \in Password : BeginSignUp(c, m, p)
    \/ \E a \in DOMAIN accounts, p \in Password : BeginChange(c, a, p)
    \/ TakeAnswer(c)

RequestStep(r) ==
    \/ Send(r) \/ Refresh(r) \/ Settle(r) \/ Drop(r) \/ Retry(r)
    \/ SignedIn(r) \/ SignedOut(r) \/ Respond(r)

Browse(r) ==
    \/ \E kind \in Kind : Arrive(r, kind)
    \/ \E m \in Email, p \in Password : SubmitSignIn(r, m, p)
    \/ SubmitSignOut(r)
    \/ Break(r) \/ BreakSigning(r)

WebNext ==
    \/ \E c \in Device : DeviceStep(c) /\ UNCHANGED webVars
    \/ \E c \in Call : (FinishCall(c) \/ FailCall(c)) /\ UNCHANGED webVars
    \/ Tick /\ UNCHANGED webVars
    \/ \E r \in Request : RequestStep(r) \/ Browse(r)

WebSpec == WebInit /\ [][WebNext]_allVars

(***************************************************************************)
(* A request of a browser that the servers have taken up goes on, in the   *)
(* BFF and in the API.  Browsers, other clients, the clock and faults owe  *)
(* nothing.                                                                *)
(***************************************************************************)
WebFairness ==
    \A r \in Request : WF_allVars((FinishCall(r) /\ UNCHANGED webVars) \/ RequestStep(r))

WebLiveSpec == WebSpec /\ WebFairness

-----------------------------------------------------------------------------
(* Properties.                                                              *)

\* Requests are in a state of theirs, and an entry of the map belongs to a
\* request whose refresh is in the API or answered.
TypeOK ==
    /\ SessionsTypeOK
    /\ cookie.refresh \in Token \cup {NoToken}
    /\ \A r \in Request :
        req[r].pc \in {"idle", "send", "unauthorized", "refreshing", "retry",
                       "signingIn", "signingOut", "answer"}
    /\ \A t \in Token : InFlight(t) => call[flight[t]] # Idle

\* api-client.ts 19-33: however many requests meet a 401 together, one token
\* buys one new one, although refresh-session.service.ts reads and saves in two
\* steps.  The map cannot know of a refresh whose connection broke while the
\* API was working on it: only such a token can be spent again beside it.
TokenSpentOnce == \A t \in Token : spent[t] > 1 => t \in broken

Quiet == \A r \in Request : req[r] = Idle

\* What a browser loses its session for, although the session lives.  It is
\* one of these: a page was rendered with an access token that had run out and
\* could not keep the new ones; the API or the connection failed; the user
\* signed out; a renewed access token was refused as well; a request whose 401
\* came when another had already used the token up asked for a refresh of its
\* own ("late"); an answer came after a newer one ("overtaken").  For nothing
\* else is a live session taken, or the browser left with a token that no
\* session has: not for sharing a refresh, nor for a refusal that was right.
SessionLostForACause ==
    \/ fate # {}
    \/ /\ ~lost
       /\ Quiet /\ cookie # NoTokens => SessionsWith(cookie.refresh) # {}

\* The retry happens once and the refresh that others joined tells them all:
\* no request is left waiting or going round.
RequestsEnd == \A r \in Request : req[r] # Idle ~> req[r] = Idle

=============================================================================
