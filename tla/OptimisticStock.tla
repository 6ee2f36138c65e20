--------------------------- MODULE OptimisticStock ---------------------------
(***************************************************************************)
(* OptimisticStockRepository, the other implementation of the port         *)
(* StockRepository: read the row, decide, update it where its version is   *)
(* still the one that was read, and from the top again otherwise.          *)
(*                                                                         *)
(* It runs inside a transaction of its caller at READ COMMITTED.  A read   *)
(* sees what was committed last.  An update waits for the transaction that *)
(* has updated the row, and what it wrote is seen when it commits; the     *)
(* rest of the transaction may fail and take it back.                      *)
(***************************************************************************)
EXTENDS StockDomain

CONSTANTS
    Sku,          \* the stock-keeping units
    Quantity,     \* the amounts an operation may ask for
    MaxUnits,     \* bound: units a row is registered with
    Caller,       \* transactions under way at the same time
    MaxAttempts,  \* maxAttempts of the adapter
    MaxCalls      \* bound: transactions ever begun

\* What the constants are; modules that take an instance assume it.
OptimisticAssumption ==
    /\ Quantity \subseteq Nat
    /\ MaxUnits \in Nat
    /\ MaxAttempts \in Nat \ {0}
    /\ MaxCalls \in Nat

VARIABLES
    registered,  \* the SKUs that have a stock_items row
    stock,       \* the committed counters of each row
    version,     \* the committed version of each row
    work,        \* what each transaction is doing
    calls        \* transactions begun

stockVars == <<registered, stock, version, work, calls>>

Idle == [pc |-> "idle"]
Continue(c, state) == work' = [work EXCEPT ![c] = state]

\* Rows that a transaction has updated and not committed.
Locked(s) == \E c \in Caller : work[c].pc = "commit" /\ work[c].sku = s

Init ==
    /\ registered = {}
    /\ stock = [s \in Sku |-> NewRow(0)]
    /\ version = [s \in Sku |-> 0]
    /\ work = [c \in Caller |-> Idle]
    /\ calls = 0

Called ==
    /\ calls < MaxCalls
    /\ calls' = calls + 1

\* create: the primary key refuses a second row.
Create(c, s, units) ==
    /\ Called
    /\ work[c] = Idle
    /\ IF s \in registered THEN UNCHANGED <<registered, stock>>
       ELSE /\ registered' = registered \cup {s}
            /\ stock' = [stock EXCEPT ![s] = NewRow(units)]
    /\ UNCHANGED <<version, work>>

\* since is history: the version when the call began.
BeginMutate(c, s, op, q) ==
    /\ Called
    /\ work[c] = Idle
    /\ Continue(c, [pc |-> "read", sku |-> s, op |-> op, q |-> q, attempt |-> 1,
                    since |-> version[s]])
    /\ UNCHANGED <<registered, stock, version>>

\* findUnique and the change: no row, or a change that throws, is no retry.
Read(c) ==
    LET x == work[c] s == x.sku IN
    /\ x.pc = "read"
    /\ Continue(c, IF s \notin registered \/ ~ChangeAccepted(x.op, stock[s], x.q) THEN Idle
                   ELSE [pc |-> "write", sku |-> s, op |-> x.op, q |-> x.q,
                         attempt |-> x.attempt, since |-> x.since,
                         row |-> Changed(x.op, stock[s], x.q), seen |-> version[s]])
    /\ UNCHANGED <<registered, stock, version, calls>>

\* MUTANT of StillCurrent: the update has no condition on the version.
AlwaysCurrent(s, seen) == TRUE

StillCurrent(s, seen) == version[s] = seen

\* MUTANT of Again: the update is tried again with what was read before.
AgainUnread(x) == [x EXCEPT !.attempt = @ + 1]

\* The next attempt begins with a new read.
Again(x) == [pc |-> "read", sku |-> x.sku, op |-> x.op, q |-> x.q,
             attempt |-> x.attempt + 1, since |-> x.since]

\* updateMany waits for the row and counts the rows it has updated.
Write(c) ==
    LET x == work[c] IN
    /\ x.pc = "write"
    /\ ~Locked(x.sku)
    /\ Continue(c, IF StillCurrent(x.sku, x.seen)
                   THEN [pc |-> "commit", sku |-> x.sku, row |-> x.row]
                   ELSE IF x.attempt < MaxAttempts THEN Again(x)
                   ELSE [pc |-> "contention", sku |-> x.sku, since |-> x.since])
    /\ UNCHANGED <<registered, stock, version, calls>>

Commit(c) ==
    LET x == work[c] IN
    /\ x.pc = "commit"
    /\ stock' = [stock EXCEPT ![x.sku] = x.row]
    /\ version' = [version EXCEPT ![x.sku] = @ + 1]
    /\ Continue(c, Idle)
    /\ UNCHANGED <<registered, calls>>

\* The rest of the transaction fails, or its process stops.
Rollback(c) ==
    /\ work[c].pc \in {"read", "write", "commit"}
    /\ Continue(c, Idle)
    /\ UNCHANGED <<registered, stock, version, calls>>

\* StockContentionError reaches the caller.
ReportContention(c) ==
    /\ work[c].pc = "contention"
    /\ Continue(c, Idle)
    /\ UNCHANGED <<registered, stock, version, calls>>

Advance(c) == Read(c) \/ Write(c) \/ Commit(c) \/ ReportContention(c)

Next ==
    \E c \in Caller :
        \/ \E s \in Sku, units \in 0..MaxUnits : Create(c, s, units)
        \/ \E s \in Sku, op \in StockOperations, q \in Quantity : BeginMutate(c, s, op, q)
        \/ Advance(c)
        \/ Rollback(c)

Spec == Init /\ [][Next]_stockVars

-----------------------------------------------------------------------------
(* Properties.                                                              *)

\* The promise of the port, the same as the pessimistic adapter keeps: one
\* accepted operation at a time, decided on the counters it changes.
Ledger == INSTANCE StockLedger WITH OpeningStock <- 0..MaxUnits
LedgerSpec == Ledger!Spec

\* A caller is told of contention only when as many others as it had attempts
\* have committed a change of that row since it began.
ContentionIsEarned ==
    \A c \in Caller :
        work[c].pc = "contention" => version[work[c].sku] >= work[c].since + MaxAttempts

=============================================================================
