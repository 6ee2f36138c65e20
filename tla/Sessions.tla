------------------------------ MODULE Sessions ------------------------------
(***************************************************************************)
(* The identity module of the API: accounts, customers and sessions rows   *)
(* and the five endpoints of AuthController that change them.              *)
(*                                                                         *)
(* Refresh, sign-in and sign-out open no transaction: the row is read,     *)
(* changed in memory and saved whole, and anything may happen in between.  *)
(* Sign-up looks for the email and inserts in one transaction, which at    *)
(* READ COMMITTED does not keep another sign-up away.  Change-password     *)
(* reads and verifies the account before its transaction begins.           *)
(* A request is therefore two steps, Begin... (the read) and Finish... (the *)
(* write), with an answer left in its slot for whoever sent it.  Who sends  *)
(* requests is left to the module that extends this one.                   *)
(***************************************************************************)
EXTENDS SessionDomain, Sequences, FiniteSets

CONSTANTS
    Address,     \* addresses of mailboxes
    Password,    \* passwords, each given by its length
    Call,        \* slots of requests that the API is working on
    RefreshTtl,  \* lifetime of a refresh token, in ticks
    AccessTtl,   \* lifetime of an access token, in ticks
    MaxClock,    \* bound: ticks of the clock
    MaxCalls,    \* bound: requests ever sent
    MaxFaults    \* bound: requests that end in an error of the database

ASSUME SessionsAssumption ==
    /\ Password \subseteq Nat
    /\ {RefreshTtl, AccessTtl} \subseteq Nat \ {0}
    /\ {MaxClock, MaxCalls, MaxFaults} \subseteq Nat

VARIABLES
    now,         \* the clock
    accounts,    \* accounts rows, in the order they were inserted
    customers,   \* accounts that have a customers row
    sessions,    \* sessions rows, in the order they were inserted
    lastToken,   \* refresh tokens minted so far
    call,        \* what each slot is doing
    calls,       \* requests sent so far
    faults,      \* errors of the database so far
    provedBy,    \* history: the password that opened each session
    raced,       \* history: sessions saved over a change not seen
    superseded,  \* history: tokens whose hash a row no longer holds
    spent        \* history: times each token bought a new one

sessionVars == <<now, accounts, customers, sessions, lastToken, call, calls,
                 faults, provedBy, raced, superseded, spent>>

Email == {Typed(a, s) : a \in Address, s \in Spelling}
Token == 1..(MaxCalls + 1)
Idle == [pc |-> "idle"]
Done(answer) == [pc |-> "done", answer |-> answer]
Free(c) == call[c] = Idle /\ calls < MaxCalls

\* findByEmail, with the value that Email.of made of what was typed.
AccountsOf(email) ==
    {a \in DOMAIN accounts : WellFormed(email) /\ accounts[a].email = Normalized(email)}
Fresh == lastToken + 1
NewTokens == Tokens(Fresh, now + AccessTtl)

\* findByRefreshTokenHash: the hash column is unique.
SessionsWith(token) == {s \in DOMAIN sessions : sessions[s].hash = token}

-----------------------------------------------------------------------------
\* Nobody has signed up yet, or one client has, with the least password that
\* the policy accepts, and holds token 1.
Init ==
    /\ now = 0
    /\ \/ accounts = <<>> /\ sessions = <<>> /\ provedBy = <<>>
       \/ \E m \in Address, p \in Password :
            /\ PolicyAccepts(p)
            /\ \A q \in Password : PolicyAccepts(q) => p <= q
            /\ accounts = << [email |-> Typed(m, "stored"), password |-> p] >>
            /\ sessions = << Issued(1, 1, 0, RefreshTtl) >>
            /\ provedBy = <<p>>
    /\ customers = DOMAIN accounts
    /\ lastToken = Len(sessions)
    /\ call = [c \in Call |-> Idle]
    /\ calls = 0
    /\ faults = 0
    /\ raced = {}
    /\ superseded = {}
    /\ spent = [t \in Token |-> 0]

Start(c, work) ==
    /\ Free(c)
    /\ call' = [call EXCEPT ![c] = work]
    /\ calls' = calls + 1
    /\ UNCHANGED <<now, accounts, customers, sessions, lastToken, faults,
                   provedBy, raced, superseded, spent>>

Reply(c, answer) == call' = [call EXCEPT ![c] = Done(answer)]

\* A sessions row inserted by a request that verified the password.
Open(account, password) ==
    /\ sessions' = Append(sessions, Issued(account, Fresh, now, RefreshTtl))
    /\ provedBy' = Append(provedBy, password)
    /\ lastToken' = Fresh

\* PrismaSessionRepository.save writes every column of the object in memory.
Save(s, seen, row) ==
    /\ sessions' = [sessions EXCEPT ![s] = row]
    /\ raced' = IF sessions[s] = seen THEN raced ELSE raced \cup {s}
    /\ superseded' = superseded \cup ({sessions[s].hash} \ {row.hash})

-----------------------------------------------------------------------------
\* SignUpService: email and policy, then the look-up in the transaction.
BeginSignUp(c, email, password) ==
    Start(c, IF ~WellFormed(email) THEN Done(Refusal("INVALID_EMAIL"))
             ELSE IF ~PolicyAccepts(password) THEN Done(Refusal("PASSWORD_POLICY_VIOLATED"))
             ELSE IF AccountsOf(email) # {} THEN Done(Refusal("EMAIL_ALREADY_REGISTERED"))
             ELSE [pc |-> "signUp", email |-> Normalized(email), password |-> password])

\* MUTANT of EmailTaken: the unique index on accounts.email is missing.
EmailNeverTaken(email) == FALSE

\* The unique index answers for a sign-up that committed in between.
EmailTaken(email) == AccountsOf(email) # {}

\* MUTANT of Provision: the customer is left for later.
ProvisionLater(account) == UNCHANGED customers

\* ProvisionCustomerService, in the transaction of the sign-up.
Provision(account) == customers' = customers \cup {account}

\* Account, event, customer and first session commit together.
FinishSignUp(c) ==
    LET x == call[c] IN
    /\ x.pc = "signUp"
    /\ IF EmailTaken(x.email)
       THEN /\ Reply(c, Refusal("EMAIL_ALREADY_REGISTERED"))
            /\ UNCHANGED <<accounts, customers, sessions, provedBy, lastToken>>
       ELSE /\ accounts' = Append(accounts, [email |-> x.email, password |-> x.password])
            /\ Provision(Len(accounts) + 1)
            /\ Open(Len(accounts) + 1, x.password)
            /\ Reply(c, Minted(NewTokens))
    /\ UNCHANGED <<now, calls, faults, raced, superseded, spent>>

\* SignInService up to the verification: every refusal looks the same.
SignInWork(email, password) ==
    IF \E a \in AccountsOf(email) : accounts[a].password = password
    THEN [pc |-> "signIn", password |-> password,
          account |-> CHOOSE a \in AccountsOf(email) : accounts[a].password = password]
    ELSE Done(Refusal("INVALID_CREDENTIALS"))

BeginSignIn(c, email, password) == Start(c, SignInWork(email, password))

\* findByAccount finds the customer: the sign-up committed it with the account.
FinishSignIn(c) ==
    LET x == call[c] IN
    /\ x.pc = "signIn"
    /\ x.account \in customers
    /\ Open(x.account, x.password)
    /\ raced' = IF accounts[x.account].password = x.password THEN raced
                ELSE raced \cup {Len(sessions) + 1}
    /\ Reply(c, Minted(NewTokens))
    /\ UNCHANGED <<now, accounts, customers, calls, faults, superseded, spent>>

\* Refresh and sign-out find the row by the hash of the token presented.
Found(op, token, missing) ==
    IF SessionsWith(token) = {} THEN Done(missing)
    ELSE LET s == CHOOSE s \in SessionsWith(token) : TRUE
         IN [pc |-> op, session |-> s, seen |-> sessions[s]]

RefreshWork(token) == Found("refresh", token, Refusal("SESSION_NOT_FOUND"))
BeginRefresh(c, token) == Start(c, RefreshWork(token))

FinishRefresh(c) ==
    LET x == call[c] IN
    /\ x.pc = "refresh"
    /\ x.seen.account \in customers
    /\ IF RotateVerdict(x.seen, now) # "OK"
       THEN /\ Reply(c, Refusal(RotateVerdict(x.seen, now)))
            /\ UNCHANGED <<sessions, raced, superseded, lastToken, spent>>
       ELSE /\ Save(x.session, x.seen, Rotated(x.seen, Fresh, now, RefreshTtl))
            /\ lastToken' = Fresh
            /\ spent' = [spent EXCEPT ![x.seen.hash] = @ + 1]
            /\ Reply(c, Minted(NewTokens))
    /\ UNCHANGED <<now, accounts, customers, calls, faults, provedBy>>

\* A token that is not there is no error for a sign-out.
SignOutWork(token) == Found("signOut", token, Answer(204, NoTokens))
BeginSignOut(c, token) == Start(c, SignOutWork(token))

FinishSignOut(c) ==
    LET x == call[c] IN
    /\ x.pc = "signOut"
    /\ Save(x.session, x.seen, Revoked(x.seen))
    /\ Reply(c, Answer(204, NoTokens))
    /\ UNCHANGED <<now, accounts, customers, calls, faults, provedBy, lastToken, spent>>

\* ChangePasswordService up to its transaction: the current password was
\* right, the new one keeps the policy and is not the current one.
BeginChange(c, account, password) ==
    /\ account \in DOMAIN accounts
    /\ Start(c, IF ~PolicyAccepts(password) THEN Done(Refusal("PASSWORD_POLICY_VIOLATED"))
                ELSE IF accounts[account].password = password
                THEN Done(Refusal("SAME_PASSWORD"))
                ELSE [pc |-> "change", account |-> account, password |-> password])

\* MUTANT of RevokedFor: the sessions of the account are left alone.
RevokedForNobody(account) == sessions

\* revokeAllForAccount: one UPDATE over the rows that are not revoked yet.
RevokedFor(account) ==
    [s \in DOMAIN sessions |->
        IF sessions[s].account = account THEN Revoked(sessions[s]) ELSE sessions[s]]

FinishChange(c) ==
    LET x == call[c] IN
    /\ x.pc = "change"
    /\ accounts' = [accounts EXCEPT ![x.account].password = x.password]
    /\ sessions' = RevokedFor(x.account)
    /\ Reply(c, Answer(204, NoTokens))
    /\ UNCHANGED <<now, customers, lastToken, calls, faults, provedBy, raced,
                   superseded, spent>>

-----------------------------------------------------------------------------
\* The database fails before anything was written.
FailCall(c) ==
    /\ call[c].pc \notin {"idle", "done"}
    /\ faults < MaxFaults
    /\ faults' = faults + 1
    /\ Reply(c, Broken)
    /\ UNCHANGED <<now, accounts, customers, sessions, lastToken, calls, provedBy,
                   raced, superseded, spent>>

Tick ==
    /\ now < MaxClock
    /\ now' = now + 1
    /\ UNCHANGED <<accounts, customers, sessions, lastToken, call, calls, faults,
                   provedBy, raced, superseded, spent>>

\* The sender takes its answer and the slot is free again.
TakeAnswer(c) ==
    /\ call[c].pc = "done"
    /\ call' = [call EXCEPT ![c] = Idle]
    /\ UNCHANGED <<now, accounts, customers, sessions, lastToken, calls, faults,
                   provedBy, raced, superseded, spent>>

FinishCall(c) == FinishSignUp(c) \/ FinishSignIn(c) \/ FinishRefresh(c)
                 \/ FinishSignOut(c) \/ FinishChange(c)

-----------------------------------------------------------------------------
(* Properties.                                                              *)

SessionRow == [account : Nat \ {0}, hash : Token, until : Nat, revoked : BOOLEAN]

\* Every row has its columns, the stored password keeps the policy, and every
\* session belongs to an account that has a customer.
SessionsTypeOK ==
    /\ now \in 0..MaxClock
    /\ \A a \in DOMAIN accounts : /\ accounts[a].email \in Email
                                  /\ accounts[a].password \in Password
                                  /\ PolicyAccepts(accounts[a].password)
    /\ customers = DOMAIN accounts
    /\ \A s \in DOMAIN sessions : /\ sessions[s] \in SessionRow
                                  /\ sessions[s].account \in customers
    /\ lastToken \in 0..(MaxCalls + 1)
    /\ calls \in 0..MaxCalls
    /\ faults \in 0..MaxFaults
    /\ spent \in [Token -> Nat]

\* Two sign-ups with one address, however it is spelled, pass the look-up together and one account
\* comes out of them (sign-up.service.ts 48-50).
OneAccountPerEmail ==
    \A a, b \in DOMAIN accounts : accounts[a].email.address = accounts[b].email.address => a = b

\* Session's comment: an old token matches no row and is refused.  Neither
\* does it come back by a save of what was read before the rotation, unless
\* that save revokes the session as well.
SupersededStaysDead ==
    \A t \in superseded : \A s \in SessionsWith(t) : sessions[s].revoked

Outlived(s) ==
    /\ Active(sessions[s], now)
    /\ provedBy[s] # accounts[sessions[s].account].password

\* A session opened with an old password outlives the change of the password
\* only when a refresh, a sign-in or a sign-out was between its read and its
\* write while the change committed.
OnlyRacesOutliveAChange == \A s \in DOMAIN sessions : Outlived(s) => s \in raced

\* change-password.service.ts 14-16: once the change has committed no old
\* session lives, so a revoked session is never taken back.
RevocationIsFinal ==
    [][\A s \in DOMAIN sessions : sessions[s].revoked => sessions'[s].revoked]_sessionVars

=============================================================================
