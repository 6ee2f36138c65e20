------------------------------- MODULE Outbox ------------------------------
(***************************************************************************)
(* The transactional outbox: rows written in the transaction that raised   *)
(* the event (outbox-event.publisher.ts), and the relay that sends them    *)
(* and marks them published (outbox-relay.ts), driven by an                *)
(* IntervalScheduler that never lets two runs overlap.                     *)
(*                                                                         *)
(* The module has the state and the actions of the table and of the relay. *)
(* What a transaction publishes, and whether a listener accepts what is    *)
(* sent, is left to the module that extends it: OutboxRelay checks the     *)
(* relay against listeners of its own, OrderSaga against the real ones.    *)
(***************************************************************************)
EXTENDS Integers, Sequences, FiniteSets

CONSTANTS
    MaxAttempts,  \* OutboxRelay.MAX_ATTEMPTS, 10 in the code
    RelayBatch,   \* OutboxRelay.batchSize, 100 in the code
    Skew          \* bound: rows that commit between the reading of the clock
                  \* for occurredAt and the commit of the row that carries it

ASSUME OutboxAssumption ==
    /\ MaxAttempts \in Nat \ {0}
    /\ RelayBatch \in Nat \ {0}
    /\ Skew \in Nat

VARIABLES
    rows,     \* the outbox table, in the order the rows were committed
    fetched,  \* rows of the run under way that are still to be sent
    sending   \* the row handed to the transport, NoRow if there is none

outboxVars == <<rows, fetched, sending>>

NoRow == 0
Rows == 1..Len(rows)

OutboxInit ==
    /\ rows = <<>>
    /\ fetched = {}
    /\ sending = NoRow

\* occurredAt is the clock of the use case, read before its transaction; it
\* is counted here in rows already committed when the clock was read.
Publish(event) ==
    /\ \E late \in 0..Skew :
        /\ late <= Len(rows)
        /\ rows' = Append(rows, [event |-> event, at |-> Len(rows) - late,
                                 attempts |-> 0, cooling |-> FALSE,
                                 published |-> FALSE])
    /\ UNCHANGED <<fetched, sending>>

\* MUTANT of Due: the limit is off by one.
DueOnceMore == {i \in Rows : ~rows[i].published /\ rows[i].attempts <= MaxAttempts
                             /\ ~rows[i].cooling}

\* MUTANT of Due: the last attempt is never made.
DueOnceLess == {i \in Rows : ~rows[i].published /\ rows[i].attempts + 1 < MaxAttempts
                             /\ ~rows[i].cooling}

\* Not published, not a dead letter, and next_attempt_at has passed.
Due == {i \in Rows : ~rows[i].published /\ rows[i].attempts < MaxAttempts
                     /\ ~rows[i].cooling}

\* ORDER BY occurred_at LIMIT batchSize: rows of one instant in any order.
OldestOf(due) ==
    {chosen \in SUBSET due :
        /\ Cardinality(chosen) = IF Cardinality(due) < RelayBatch
                                 THEN Cardinality(due) ELSE RelayBatch
        /\ \A i \in chosen, j \in due \ chosen : rows[i].at <= rows[j].at}

\* MUTANT of Fetch: the limit of the query comes before its filter, so that
\* rows nobody may send take the places of the others.
FetchThenFilter ==
    /\ sending = NoRow
    /\ fetched = {}
    /\ Due # {}
    /\ \E oldest \in OldestOf({i \in Rows : ~rows[i].published}) :
          fetched' = oldest \cap Due
    /\ UNCHANGED <<rows, sending>>

\* One tick: the run before it has ended.
Fetch ==
    /\ sending = NoRow
    /\ fetched = {}
    /\ Due # {}
    /\ fetched' \in OldestOf(Due)
    /\ UNCHANGED <<rows, sending>>

\* MUTANT of Send: published_at is written before the listeners are called.
SendMarked(i) ==
    /\ sending = NoRow
    /\ i \in fetched
    /\ \A j \in fetched : rows[i].at <= rows[j].at
    /\ sending' = i
    /\ fetched' = fetched \ {i}
    /\ rows' = [rows EXCEPT ![i].published = TRUE]

\* MUTANT of Send: the order of the query is not kept.
SendAny(i) ==
    /\ sending = NoRow
    /\ i \in fetched
    /\ sending' = i
    /\ fetched' = fetched \ {i}
    /\ UNCHANGED rows

\* transport.send of the next row.
Send(i) ==
    /\ sending = NoRow
    /\ i \in fetched
    /\ \A j \in fetched : rows[i].at <= rows[j].at
    /\ sending' = i
    /\ fetched' = fetched \ {i}
    /\ UNCHANGED rows

\* Every listener resolved: published_at is written.
MarkPublished ==
    /\ sending # NoRow
    /\ rows' = [rows EXCEPT ![sending].published = TRUE]
    /\ sending' = NoRow
    /\ UNCHANGED fetched

\* A listener rejected: one more attempt, and back-off before the next.
RecordFailure ==
    /\ sending # NoRow
    /\ rows' = [rows EXCEPT ![sending].attempts = @ + 1, ![sending].cooling = TRUE]
    /\ sending' = NoRow
    /\ UNCHANGED fetched

\* The update after the send fails, or the process stops: the run ends and
\* what was sent stays unpublished.
AbortRun ==
    /\ sending' = NoRow
    /\ fetched' = {}
    /\ UNCHANGED rows

\* next_attempt_at passes.
CoolDown(i) ==
    /\ i \in Rows
    /\ rows[i].cooling
    /\ rows' = [rows EXCEPT ![i].cooling = FALSE]
    /\ UNCHANGED <<fetched, sending>>

=============================================================================
