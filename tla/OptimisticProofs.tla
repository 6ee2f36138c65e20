-------------------------- MODULE OptimisticProofs --------------------------
(***************************************************************************)
(* What OptimisticStockRepository guarantees for any number of SKUs,       *)
(* callers and attempts.                                                   *)
(*                                                                         *)
(* A caller holds a change that it computed from the row it read.  The     *)
(* version tells whether that row is still the committed one: it only      *)
(* grows, with every commit, and a row with an uncommitted update changes  *)
(* by that update alone.  ComputedInv says so, and the refinement follows. *)
(***************************************************************************)
EXTENDS OptimisticStock, TLAPS

Rows == [onHand : Nat, reserved : Nat]

\* row is what some accepted operation makes of the row before it.
Computed(before, row) ==
    \E op \in StockOperations, q \in Quantity :
        ChangeAccepted(op, before, q) /\ row = Changed(op, before, q)

Reading == [pc : {"read"}, sku : Sku, op : StockOperations, q : Quantity,
            attempt : Nat, since : Nat]
Writing == [pc : {"write"}, sku : Sku, op : StockOperations, q : Quantity,
            attempt : Nat, since : Nat, row : Rows, seen : Nat]
Committing == [pc : {"commit"}, sku : Sku, row : Rows]
Losing == [pc : {"contention"}, sku : Sku, since : Nat]

StateInv ==
    /\ registered \subseteq Sku
    /\ stock \in [Sku -> Rows]
    /\ version \in [Sku -> Nat]
    /\ work \in [Caller -> {Idle} \cup Reading \cup Writing \cup Committing \cup Losing]

\* What was read may be old, but never newer than what is committed.
SeenInv ==
    \A c \in Caller :
        work[c].pc = "write" =>
            /\ work[c].sku \in registered
            /\ work[c].seen <= version[work[c].sku]
            /\ StillCurrent(work[c].sku, work[c].seen) => Computed(stock[work[c].sku], work[c].row)

\* An update that waits for its commit was computed from the committed row,
\* and its row waits for nobody else.
CommitInv ==
    \A c \in Caller :
        work[c].pc = "commit" =>
            /\ work[c].sku \in registered
            /\ Computed(stock[work[c].sku], work[c].row)
            /\ \A d \in Caller :
                 work[d].pc = "commit" /\ work[d].sku = work[c].sku => d = c

ComputedInv == StateInv /\ SeenInv /\ CommitInv

\* Every attempt that was lost, was lost to a commit of its own.
LostInv ==
    \A c \in Caller :
        /\ work[c].pc = "read" =>
            work[c].since + work[c].attempt <= version[work[c].sku] + 1
        /\ work[c].pc = "write" => work[c].since + work[c].attempt <= work[c].seen + 1
        /\ work[c].pc = "contention" =>
            work[c].since + MaxAttempts <= version[work[c].sku]

-----------------------------------------------------------------------------
\* Idle and the records of a caller at work are told apart by pc.
LEMMA WorkStates ==
    ASSUME StateInv, NEW c \in Caller
    PROVE  /\ work[c].pc = "read" => work[c] \in Reading
           /\ work[c].pc = "write" => work[c] \in Writing
           /\ work[c].pc = "commit" => work[c] \in Committing
           /\ work[c].pc = "contention" => work[c] \in Losing
<1>1. work[c] \in {Idle} \cup Reading \cup Writing \cup Committing \cup Losing
    BY DEF StateInv
<1> QED
    BY <1>1 DEF Idle, Reading, Writing, Committing, Losing

\* The operations of the domain keep counters natural.
LEMMA ChangedRow ==
    ASSUME NEW op \in StockOperations, NEW q \in Nat, NEW row \in Rows,
           ChangeAccepted(op, row, q)
    PROVE  Changed(op, row, q) \in Rows
BY DEF Rows, StockOperations, Transitions, ChangeAccepted, Changed, Counters, AfterReserve,
       AfterConfirm, AfterRelease, AfterRestock, AfterRestore, CanReserve, Available,
       ReservedCovers, Rehydratable

LEMMA InitComputed == Init => ComputedInv
BY DEF Init, ComputedInv, StateInv, SeenInv, CommitInv, NewRow, Counters, Rows, Idle

\* Types, one action at a time.
LEMMA NextState ==
    ASSUME OptimisticAssumption, ComputedInv, [Next]_stockVars
    PROVE  StateInv'
<1> USE DEF OptimisticAssumption, ComputedInv
<1>1. ASSUME NEW c \in Caller, NEW s \in Sku, NEW units \in 0..MaxUnits, Create(c, s, units)
      PROVE  StateInv'
    BY <1>1 DEF Create, StateInv, NewRow, Counters, Rows
<1>2. ASSUME NEW c \in Caller, NEW s \in Sku, NEW op \in StockOperations, NEW q \in Quantity,
             BeginMutate(c, s, op, q)
      PROVE  StateInv'
    BY <1>2 DEF BeginMutate, Continue, StateInv, Reading
<1>3. ASSUME NEW c \in Caller, Read(c) PROVE StateInv'
    <2>1. work[c] \in Reading
        BY <1>3, WorkStates DEF Read
    <2>2. ASSUME work[c].sku \in registered,
                 ChangeAccepted(work[c].op, stock[work[c].sku], work[c].q)
          PROVE  Changed(work[c].op, stock[work[c].sku], work[c].q) \in Rows
        BY <2>1, <2>2, ChangedRow DEF Reading, StateInv
    <2>3. work'[c] \in {Idle} \cup Writing
        BY <1>3, <2>1, <2>2 DEF Read, Continue, Reading, Writing, StateInv
    <2> QED
        BY <1>3, <2>3 DEF Read, Continue, StateInv
<1>4. ASSUME NEW c \in Caller, Write(c) PROVE StateInv'
    <2>1. work[c] \in Writing
        BY <1>4, WorkStates DEF Write
    <2>2. work'[c] \in Reading \cup Committing \cup Losing
        BY <1>4, <2>1 DEF Write, Continue, Again, Reading, Writing, Committing, Losing, StateInv
    <2> QED
        BY <1>4, <2>2 DEF Write, Continue, StateInv
<1>5. ASSUME NEW c \in Caller, Commit(c) PROVE StateInv'
    <2>1. work[c] \in Committing
        BY <1>5, WorkStates DEF Commit
    <2> QED
        BY <1>5, <2>1 DEF Commit, Continue, Committing, StateInv
<1>6. ASSUME NEW c \in Caller, Rollback(c) \/ ReportContention(c) PROVE StateInv'
    BY <1>6 DEF Rollback, ReportContention, Continue, StateInv
<1>7. CASE UNCHANGED stockVars
    BY <1>7 DEF stockVars, StateInv
<1> QED
    BY <1>1, <1>2, <1>3, <1>4, <1>5, <1>6, <1>7 DEF Next, Advance

\* A commit is that of the one caller whose update the row waits for.
LEMMA CommitWrites ==
    ASSUME ComputedInv, NEW c \in Caller, Commit(c)
    PROVE  /\ work[c] \in Committing
           /\ stock' = [stock EXCEPT ![work[c].sku] = work[c].row]
           /\ version' = [version EXCEPT ![work[c].sku] = @ + 1]
           /\ \A d \in Caller \ {c} : work'[d] = work[d]
           /\ work'[c] = Idle
           /\ registered' = registered
BY WorkStates DEF ComputedInv, StateInv, Commit, Continue

\* Versions only grow, so a change computed from a row that has been
\* committed over stays out of date.
LEMMA NextSeen ==
    ASSUME OptimisticAssumption, ComputedInv, [Next]_stockVars
    PROVE  SeenInv'
<1> USE DEF ComputedInv
<1> SUFFICES ASSUME NEW d \in Caller, work'[d].pc = "write"
             PROVE  /\ work'[d].sku \in registered'
                    /\ work'[d].seen <= version'[work'[d].sku]
                    /\ version'[work'[d].sku] = work'[d].seen
                         => Computed(stock'[work'[d].sku], work'[d].row)
    BY DEF SeenInv, StillCurrent
<1> DEFINE Goal == /\ work'[d].sku \in registered'
                   /\ work'[d].seen <= version'[work'[d].sku]
                   /\ version'[work'[d].sku] = work'[d].seen
                        => Computed(stock'[work'[d].sku], work'[d].row)
<1>a. work'[d] = work[d] /\ work[d].pc = "write" =>
        /\ work[d] \in Writing
        /\ work[d].sku \in registered
        /\ work[d].seen <= version[work[d].sku]
        /\ version[work[d].sku] = work[d].seen => Computed(stock[work[d].sku], work[d].row)
    BY WorkStates DEF SeenInv, StillCurrent
\* Of a caller whose step it is not, only Create and Commit change what counts.
<1>b. ASSUME work'[d] = work[d], stock' = stock, version' = version, registered \subseteq registered'
      PROVE  Goal
    BY <1>a, <1>b
<1>1. ASSUME NEW c \in Caller, NEW s \in Sku, NEW units \in 0..MaxUnits, Create(c, s, units)
      PROVE  Goal
    <2>1. work'[d] = work[d] /\ work[d].pc = "write"
        BY <1>1 DEF Create
    <2>2. stock'[work[d].sku] = stock[work[d].sku]
        BY <1>1, <1>a, <2>1 DEF Create, StateInv
    <2> QED
        BY <1>1, <1>a, <2>1, <2>2 DEF Create
<1>2. ASSUME NEW c \in Caller, NEW s \in Sku, NEW op \in StockOperations, NEW q \in Quantity,
             BeginMutate(c, s, op, q)
      PROVE  Goal
    BY <1>2, <1>b DEF BeginMutate, Continue, StateInv
<1>3. ASSUME NEW c \in Caller, Read(c) PROVE Goal
    <2>1. CASE c # d
        BY <1>3, <1>b, <2>1 DEF Read, Continue, StateInv
    <2>2. CASE c = d
        <3>1. work[d] \in Reading
            BY <1>3, <2>2, WorkStates DEF Read
        <3>2. /\ work[d].sku \in registered
              /\ ChangeAccepted(work[d].op, stock[work[d].sku], work[d].q)
              /\ work'[d].sku = work[d].sku
              /\ work'[d].seen = version[work[d].sku]
              /\ work'[d].row = Changed(work[d].op, stock[work[d].sku], work[d].q)
            BY <1>3, <2>2 DEF Read, Continue, StateInv, Idle
        <3>3. Computed(stock'[work'[d].sku], work'[d].row)
            BY <1>3, <3>1, <3>2 DEF Read, Computed, Reading
        <3> QED
            BY <1>3, <3>1, <3>2, <3>3 DEF Read, Reading, StateInv
    <2> QED
        BY <2>1, <2>2
<1>4. ASSUME NEW c \in Caller, Write(c) PROVE Goal
    <2>1. c # d
        BY <1>4 DEF Write, Continue, Again, StateInv
    <2> QED
        BY <1>4, <1>b, <2>1 DEF Write, Continue, StateInv
<1>5. ASSUME NEW c \in Caller, Commit(c) PROVE Goal
    <2>1. work[c] \in Committing /\ work'[d] = work[d]
        BY <1>5, CommitWrites DEF Idle
    <2>2. CASE work[c].sku = work[d].sku
        BY <1>5, <1>a, <2>1, <2>2, CommitWrites DEF StateInv, Writing
    <2>3. CASE work[c].sku # work[d].sku
        BY <1>5, <1>a, <2>1, <2>3, CommitWrites DEF StateInv, Writing
    <2> QED
        BY <2>2, <2>3
<1>6. ASSUME NEW c \in Caller, Rollback(c) \/ ReportContention(c) PROVE Goal
    BY <1>6, <1>b DEF Rollback, ReportContention, Continue, StateInv, Idle
<1>7. CASE UNCHANGED stockVars
    BY <1>7, <1>b DEF stockVars
<1> QED
    BY <1>1, <1>2, <1>3, <1>4, <1>5, <1>6, <1>7 DEF Next, Advance

\* An update waits while its row has another uncommitted one.
LEMMA NextCommit ==
    ASSUME OptimisticAssumption, ComputedInv, [Next]_stockVars
    PROVE  CommitInv'
<1> USE DEF ComputedInv
<1>1. ASSUME NEW c \in Caller, NEW s \in Sku, NEW units \in 0..MaxUnits, Create(c, s, units)
      PROVE  CommitInv'
    <2>1. \A d \in Caller : work[d].pc = "commit" =>
            work[d].sku \in registered /\ stock'[work[d].sku] = stock[work[d].sku]
        BY <1>1 DEF Create, CommitInv, StateInv
    <2> QED
        BY <1>1, <2>1 DEF Create, CommitInv
<1>2. ASSUME NEW c \in Caller, NEW s \in Sku, NEW op \in StockOperations, NEW q \in Quantity,
             BeginMutate(c, s, op, q)
      PROVE  CommitInv'
    BY <1>2 DEF BeginMutate, Continue, StateInv, CommitInv
<1>3. ASSUME NEW c \in Caller, Read(c) PROVE CommitInv'
    <2>1. work'[c].pc # "commit" /\ \A d \in Caller \ {c} : work'[d] = work[d]
        BY <1>3 DEF Read, Continue, StateInv, Idle
    <2> QED
        BY <1>3, <2>1 DEF Read, CommitInv
<1>4. ASSUME NEW c \in Caller, Write(c) PROVE CommitInv'
    <2>1. \A d \in Caller \ {c} : work'[d] = work[d]
        BY <1>4 DEF Write, Continue, StateInv
    <2>2. CASE StillCurrent(work[c].sku, work[c].seen)
        <3>1. work'[c].pc = "commit" /\ work'[c].sku = work[c].sku /\ work'[c].row = work[c].row
            BY <1>4, <2>2 DEF Write, Continue, StateInv
        <3>2. work[c].sku \in registered /\ Computed(stock[work[c].sku], work[c].row)
            BY <1>4, <2>2 DEF Write, SeenInv
        <3>3. \A d \in Caller : work[d].pc = "commit" => work[d].sku # work[c].sku
            BY <1>4 DEF Write, Locked
        <3> QED
            BY <1>4, <2>1, <3>1, <3>2, <3>3 DEF Write, CommitInv
    <2>3. CASE ~StillCurrent(work[c].sku, work[c].seen)
        <3>1. work'[c].pc # "commit"
            BY <1>4, <2>3 DEF Write, Continue, Again, StateInv
        <3> QED
            BY <1>4, <2>1, <3>1 DEF Write, CommitInv
    <2> QED
        BY <2>2, <2>3
<1>5. ASSUME NEW c \in Caller, Commit(c) PROVE CommitInv'
    <2>1. work'[c].pc # "commit"
        BY <1>5, CommitWrites DEF Idle
    <2>2. \A d \in Caller \ {c} : work[d].pc = "commit" =>
            /\ work'[d] = work[d]
            /\ work[d].sku # work[c].sku
            /\ stock'[work[d].sku] = stock[work[d].sku]
        BY <1>5, CommitWrites DEF CommitInv, Commit, StateInv
    <2> QED
        BY <1>5, <2>1, <2>2, CommitWrites DEF CommitInv
<1>6. ASSUME NEW c \in Caller, Rollback(c) \/ ReportContention(c) PROVE CommitInv'
    BY <1>6 DEF Rollback, ReportContention, Continue, StateInv, Idle, CommitInv
<1>7. CASE UNCHANGED stockVars
    BY <1>7 DEF stockVars, CommitInv
<1> QED
    BY <1>1, <1>2, <1>3, <1>4, <1>5, <1>6, <1>7 DEF Next, Advance

LEMMA NextComputed ==
    ASSUME OptimisticAssumption PROVE ComputedInv /\ [Next]_stockVars => ComputedInv'
BY NextState, NextSeen, NextCommit DEF ComputedInv

-----------------------------------------------------------------------------
\* No row has more reserved than there is on hand.
RowsCovered == \A s \in registered : stock[s].reserved \in 0..stock[s].onHand

\* What an accepted operation leaves can be read back.
LEMMA ChangedCovers ==
    ASSUME NEW op \in StockOperations, NEW q \in Nat, NEW row \in Rows,
           ChangeAccepted(op, row, q)
    PROVE  Changed(op, row, q).reserved \in 0..Changed(op, row, q).onHand
BY DEF Rows, StockOperations, Transitions, ChangeAccepted, Changed, Counters, AfterReserve,
       AfterConfirm, AfterRelease, AfterRestock, AfterRestore, CanReserve, Available,
       ReservedCovers, Rehydratable

\* Only a commit writes counters, and it writes what was computed from them.
LEMMA NextCovered ==
    ASSUME OptimisticAssumption, ComputedInv, RowsCovered, [Next]_stockVars
    PROVE  RowsCovered'
<1>1. ASSUME NEW c \in Caller, Commit(c) PROVE RowsCovered'
    <2>1. Computed(stock[work[c].sku], work[c].row)
        BY <1>1 DEF Commit, ComputedInv, CommitInv
    <2>2. work[c].sku \in Sku /\ stock[work[c].sku] \in Rows
        BY <1>1, CommitWrites DEF Committing, ComputedInv, StateInv
    <2>3. work[c].row.reserved \in 0..work[c].row.onHand
        BY <2>1, <2>2, ChangedCovers DEF Computed, OptimisticAssumption
    <2> QED
        BY <1>1, <2>2, <2>3, CommitWrites DEF RowsCovered, ComputedInv, StateInv
<1>2. ASSUME NEW c \in Caller, NEW s \in Sku, NEW units \in 0..MaxUnits, Create(c, s, units)
      PROVE  RowsCovered'
    BY <1>2 DEF Create, RowsCovered, NewRow, Counters, ComputedInv, StateInv, OptimisticAssumption
<1>3. (\E c \in Caller : Commit(c) \/ \E s \in Sku, units \in 0..MaxUnits : Create(c, s, units))
      \/ UNCHANGED <<registered, stock>>
    BY DEF Next, stockVars, BeginMutate, Advance, Read, Write, Rollback, ReportContention
<1> QED
    BY <1>1, <1>2, <1>3 DEF RowsCovered

\* The optimistic adapter does not oversell either: reserved <= onHand in every
\* committed row, whoever else changes it (stock-item.ts, rehydrate).
THEOREM RowsStayCovered == OptimisticAssumption => (Spec => []RowsCovered)
<1> SUFFICES ASSUME OptimisticAssumption PROVE Spec => []RowsCovered
    OBVIOUS
<1>1. Init => RowsCovered
    BY DEF Init, RowsCovered
<1>2. ComputedInv /\ RowsCovered /\ [Next]_stockVars => RowsCovered'
    BY NextCovered
<1>3. Init => ComputedInv
    BY InitComputed
<1>4. ComputedInv /\ [Next]_stockVars => ComputedInv'
    BY NextComputed
<1> QED
    BY <1>1, <1>2, <1>3, <1>4, PTL DEF Spec

-----------------------------------------------------------------------------
\* Versions never go back.
LEMMA VersionsGrow ==
    ASSUME ComputedInv, [Next]_stockVars, NEW s \in Sku
    PROVE  version'[s] \in Nat /\ version[s] <= version'[s]
<1> USE DEF ComputedInv, StateInv
<1>1. ASSUME NEW c \in Caller, Commit(c) PROVE version'[s] \in Nat /\ version[s] <= version'[s]
    BY <1>1, CommitWrites DEF Committing
<1>2. (\E c \in Caller : Commit(c)) \/ version' = version
    BY DEF Next, stockVars, Create, BeginMutate, Advance, Read, Write, Rollback,
           ReportContention
<1> QED
    BY <1>1, <1>2

LEMMA NextLost ==
    ASSUME OptimisticAssumption, ComputedInv, LostInv, [Next]_stockVars
    PROVE  LostInv'
<1> USE DEF ComputedInv, OptimisticAssumption
<1> SUFFICES ASSUME NEW d \in Caller
             PROVE  /\ work'[d].pc = "read" =>
                        work'[d].since + work'[d].attempt <= version'[work'[d].sku] + 1
                    /\ work'[d].pc = "write" =>
                        work'[d].since + work'[d].attempt <= work'[d].seen + 1
                    /\ work'[d].pc = "contention" =>
                        work'[d].since + MaxAttempts <= version'[work'[d].sku]
    BY DEF LostInv
<1>1. CASE work'[d] = work[d]
    <2>1. /\ work[d].pc = "read" => work[d] \in Reading
          /\ work[d].pc = "contention" => work[d] \in Losing
        BY WorkStates
    <2>2. \A s \in Sku : version'[s] \in Nat /\ version[s] <= version'[s] /\ version[s] \in Nat
        BY VersionsGrow DEF StateInv
    <2> QED
        BY <1>1, <2>1, <2>2 DEF LostInv, Reading, Losing
<1>2. ASSUME NEW s \in Sku, NEW op \in StockOperations, NEW q \in Quantity,
             BeginMutate(d, s, op, q)
      PROVE  /\ work'[d].pc = "read" /\ version' = version
             /\ work'[d].since + work'[d].attempt = version[work'[d].sku] + 1
             /\ version[work'[d].sku] \in Nat
    BY <1>2 DEF BeginMutate, Continue, StateInv
<1>3. CASE Read(d)
    <2>1. work[d] \in Reading
        BY <1>3, WorkStates DEF Read
    <2>2. \/ work'[d] = Idle
          \/ /\ work'[d].pc = "write"
             /\ work'[d].since = work[d].since /\ work'[d].attempt = work[d].attempt
             /\ work'[d].seen = version[work[d].sku]
        BY <1>3 DEF Read, Continue, StateInv
    <2> QED
        BY <1>3, <2>1, <2>2 DEF Read, LostInv, Idle
<1>4. CASE Write(d)
    <2>1. work[d] \in Writing /\ version' = version
        BY <1>4, WorkStates DEF Write
    <2>2. CASE StillCurrent(work[d].sku, work[d].seen)
        BY <1>4, <2>2 DEF Write, Continue, StateInv
    <2>3. CASE ~StillCurrent(work[d].sku, work[d].seen)
        <3>1. work[d].since + work[d].attempt <= version[work[d].sku]
            BY <1>4, <2>1, <2>3 DEF Write, SeenInv, LostInv, StillCurrent, Writing, StateInv
        <3>2. CASE work[d].attempt < MaxAttempts
            <4>1. work'[d] = Again(work[d])
                BY <1>4, <2>3, <3>2 DEF Write, Continue, StateInv
            <4> QED
                BY <2>1, <3>1, <4>1 DEF Again, Writing, StateInv
        <3>3. CASE ~(work[d].attempt < MaxAttempts)
            <4>1. work'[d] = [pc |-> "contention", sku |-> work[d].sku, since |-> work[d].since]
                BY <1>4, <2>3, <3>3 DEF Write, Continue, StateInv
            <4> QED
                BY <2>1, <3>1, <3>3, <4>1 DEF Writing, StateInv
        <3> QED
            BY <3>2, <3>3
    <2> QED
        BY <2>2, <2>3
<1>5. CASE work'[d] = Idle
    BY <1>5 DEF Idle
<1>6. \/ work'[d] = work[d] \/ work'[d] = Idle \/ Read(d) \/ Write(d)
      \/ \E s \in Sku, op \in StockOperations, q \in Quantity : BeginMutate(d, s, op, q)
    BY DEF Next, stockVars, Create, BeginMutate, Advance, Read, Write, Commit, Rollback,
           ReportContention, Continue, StateInv
<1> QED
    BY <1>1, <1>2, <1>3, <1>4, <1>5, <1>6

\* StockContentionError is thrown only when every attempt was lost to a change
\* of that row by somebody else (optimistic-stock.repository.ts 46-80).
THEOREM ContentionIsReal == OptimisticAssumption => (Spec => []ContentionIsEarned)
<1> SUFFICES ASSUME OptimisticAssumption PROVE Spec => []ContentionIsEarned
    OBVIOUS
<1>1. Init => LostInv
    BY DEF Init, LostInv, Idle
<1>2. ComputedInv /\ LostInv /\ [Next]_stockVars => LostInv'
    BY NextLost
<1>3. ComputedInv /\ LostInv => ContentionIsEarned
    <2> SUFFICES ASSUME ComputedInv, LostInv, NEW c \in Caller, work[c].pc = "contention"
                 PROVE  version[work[c].sku] >= work[c].since + MaxAttempts
        BY DEF ContentionIsEarned
    <2>1. work[c] \in Losing
        BY WorkStates DEF ComputedInv
    <2> QED
        BY <2>1 DEF LostInv, Losing, OptimisticAssumption, ComputedInv, StateInv
<1> QED
    BY <1>1, <1>2, <1>3, InitComputed, NextComputed, PTL DEF Spec

-----------------------------------------------------------------------------
\* The instance of the ledger has the rules of the domain of its own.
LEMMA SameRules ==
    /\ \A units : Ledger!NewRow(units) = NewRow(units)
    /\ Ledger!StockOperations = StockOperations
    /\ \A op, row, q : /\ Ledger!ChangeAccepted(op, row, q) = ChangeAccepted(op, row, q)
                       /\ Ledger!Changed(op, row, q) = Changed(op, row, q)
<1>1. \A units : Ledger!NewRow(units) = NewRow(units)
    BY DEF Ledger!NewRow, NewRow, Ledger!Counters, Counters
<1>2. Ledger!StockOperations = StockOperations
    BY DEF Ledger!StockOperations, StockOperations, Ledger!Transitions, Transitions
<1>3. \A op, row, q : Ledger!ChangeAccepted(op, row, q) = ChangeAccepted(op, row, q)
    BY DEF Ledger!ChangeAccepted, ChangeAccepted, Ledger!Rehydratable, Rehydratable,
           Ledger!CanReserve, CanReserve, Ledger!Available, Available,
           Ledger!ReservedCovers, ReservedCovers
<1>4. \A op, row, q : Ledger!Changed(op, row, q) = Changed(op, row, q)
    BY DEF Ledger!Changed, Changed, Ledger!Counters, Counters,
           Ledger!AfterReserve, AfterReserve, Ledger!AfterConfirm, AfterConfirm,
           Ledger!AfterRelease, AfterRelease, Ledger!AfterRestock, AfterRestock,
           Ledger!AfterRestore, AfterRestore
<1> QED
    BY <1>1, <1>2, <1>3, <1>4

\* stock.repository.ts: whatever the locking strategy, one accepted change
\* follows the other.  The optimistic adapter keeps it too: every commit is an
\* accepted change of the row that the commit before it left.
THEOREM OptimisticKeepsThePromise == OptimisticAssumption => (Spec => LedgerSpec)
<1> SUFFICES ASSUME OptimisticAssumption PROVE Spec => LedgerSpec
    OBVIOUS
<1>1. Init => Ledger!Init
    BY SameRules DEF Init, Ledger!Init
<1>2. ComputedInv /\ [Next]_stockVars => [Ledger!Next]_<<registered, stock>>
    <2> SUFFICES ASSUME ComputedInv, [Next]_stockVars
                 PROVE  [Ledger!Next]_<<registered, stock>>
        OBVIOUS
    <2>1. ASSUME NEW c \in Caller, NEW s \in Sku, NEW units \in 0..MaxUnits, Create(c, s, units)
          PROVE  Ledger!Next \/ UNCHANGED <<registered, stock>>
        BY <2>1, SameRules DEF Create, Ledger!Next, Ledger!Register
    <2>2. ASSUME NEW c \in Caller, Commit(c) PROVE Ledger!Next
        <3>1. /\ work[c].sku \in Sku /\ work[c].sku \in registered
              /\ Computed(stock[work[c].sku], work[c].row)
            BY <2>2, CommitWrites DEF ComputedInv, CommitInv, Commit, Committing
        <3>2. Ledger!Mutate(work[c].sku)
            BY <2>2, <3>1, CommitWrites, SameRules DEF Ledger!Mutate, Computed
        <3> QED
            BY <3>1, <3>2 DEF Ledger!Next
    <2>3. \/ \E c \in Caller : \/ Commit(c)
                               \/ \E s \in Sku, units \in 0..MaxUnits : Create(c, s, units)
          \/ UNCHANGED <<registered, stock>>
        BY DEF Next, stockVars, BeginMutate, Advance, Read, Write, Rollback, ReportContention
    <2> QED
        BY <2>1, <2>2, <2>3
<1> QED
    BY <1>1, <1>2, InitComputed, NextComputed, PTL DEF Spec, LedgerSpec, Ledger!Spec

=============================================================================
