---------------------------- MODULE OutboxRelay ----------------------------
(***************************************************************************)
(* The outbox with its relay, between transactions that publish and        *)
(* listeners that accept or reject (nest-event-emitter.transport.ts).      *)
(*                                                                         *)
(* Some events are poison: their listeners reject every delivery.  Any     *)
(* other delivery may be rejected, the write after a delivery may fail and *)
(* the process may stop, MaxFaults times in all.  The property of the      *)
(* outbox is what is left: at least once, in order where nothing failed,   *)
(* and no row that keeps the others waiting.                               *)
(***************************************************************************)
EXTENDS Outbox

CONSTANTS
    Event,      \* the payloads
    Poison,     \* those that no listener ever accepts
    MaxRows,    \* bound: rows ever published
    MaxFaults   \* bound: rejections, failed writes and crashes

ASSUME RelayAssumption ==
    /\ Poison \subseteq Event
    /\ MaxRows \in Nat
    /\ MaxFaults \in Nat

VARIABLES
    answer,    \* what the listeners of the row being sent have answered
    received,  \* history: per row, how often every listener resolved
    refused,   \* history: per row, how often a listener rejected
    faults

vars == <<rows, fetched, sending, answer, received, refused, faults>>

Init ==
    /\ OutboxInit
    /\ answer = "none"
    /\ received = [i \in 1..MaxRows |-> 0]
    /\ refused = [i \in 1..MaxRows |-> 0]
    /\ faults = 0

\* A use case commits: its rows and its state change are one transaction.
Raise(event) ==
    /\ Len(rows) < MaxRows
    /\ Publish(event)
    /\ UNCHANGED <<answer, received, refused, faults>>

Tick == Fetch /\ UNCHANGED <<answer, received, refused, faults>>

SendNext(i) == Send(i) /\ UNCHANGED <<answer, received, refused, faults>>

\* emitAsync resolves: every listener of the row has resolved.
Resolve ==
    /\ sending # NoRow
    /\ answer = "none"
    /\ rows[sending].event \notin Poison
    /\ answer' = "resolved"
    /\ received' = [received EXCEPT ![sending] = @ + 1]
    /\ UNCHANGED <<rows, fetched, sending, refused, faults>>

\* emitAsync rejects, for a poison event or for a passing reason.
Refuse ==
    /\ sending # NoRow
    /\ answer = "none"
    /\ \/ rows[sending].event \in Poison /\ UNCHANGED faults
       \/ faults < MaxFaults /\ faults' = faults + 1
    /\ answer' = "rejected"
    /\ refused' = [refused EXCEPT ![sending] = @ + 1]
    /\ UNCHANGED <<rows, fetched, sending, received>>

\* The update of the row that follows (77-84, 92-95); the run goes on.
Conclude ==
    /\ \/ answer = "resolved" /\ MarkPublished
       \/ answer = "rejected" /\ RecordFailure
    /\ answer' = "none"
    /\ UNCHANGED <<received, refused, faults>>

\* The update fails, or the process stops: the run ends, and what was sent
\* will be sent again.
Interrupt ==
    /\ faults < MaxFaults
    /\ faults' = faults + 1
    /\ answer' = "none"
    /\ AbortRun
    /\ UNCHANGED <<received, refused>>

BackoffEnds(i) ==
    CoolDown(i) /\ UNCHANGED <<answer, received, refused, faults>>

SomeSend == \E i \in 1..MaxRows : SendNext(i)

Next ==
    \/ \E event \in Event : Raise(event)
    \/ Tick
    \/ SomeSend
    \/ Resolve
    \/ Refuse
    \/ Conclude
    \/ Interrupt
    \/ \E i \in 1..MaxRows : BackoffEnds(i)

Spec == Init /\ [][Next]_vars

\* setInterval keeps ticking, a delivery ends one way or the other, and time
\* passes.  Nothing obliges anybody to publish or to fail.
Fairness ==
    /\ WF_vars(Tick)
    /\ WF_vars(SomeSend)
    /\ WF_vars(Resolve \/ Refuse)
    /\ WF_vars(Conclude)
    /\ \A i \in 1..MaxRows : WF_vars(BackoffEnds(i))

LiveSpec == Spec /\ Fairness

-----------------------------------------------------------------------------
(* Properties.                                                              *)

OutboxRow == [event : Event, at : 0..MaxRows, attempts : 0..MaxAttempts,
              cooling : BOOLEAN, published : BOOLEAN]

\* The table and the run have their types; no row counts more than
\* MAX_ATTEMPTS failures, so a dead letter is never fetched again.
TypeOK ==
    /\ rows \in Seq(OutboxRow)
    /\ Len(rows) <= MaxRows
    /\ fetched \subseteq Rows
    /\ sending \in Rows \cup {NoRow}
    /\ answer \in {"none", "resolved", "rejected"}
    /\ received \in [1..MaxRows -> Nat]
    /\ refused \in [1..MaxRows -> Nat]
    /\ faults \in 0..MaxFaults

\* At least once: a row is marked published only if a delivery of it was
\* accepted by every listener, whatever crashed in between (README, "why no
\* event is lost").
PublishedWasReceived ==
    \A i \in Rows : rows[i].published => received[i] > 0

\* A row that nobody will send again, unpublished, was rejected MAX_ATTEMPTS
\* times at least: crashes and failed writes never cost it an attempt.
AtRest(i) == i \notin Due \cup fetched /\ sending # i /\ ~rows[i].cooling
GivenUpWhenExhausted ==
    \A i \in Rows :
        AtRest(i) /\ ~rows[i].published => refused[i] >= MaxAttempts

\* A row that was never rejected is not overtaken: nothing that happened
\* after it is sent while it waits (ORDER BY occurred_at).
NothingOvertakes ==
    [][\A j \in Rows' :
          sending # j /\ sending' = j =>
              \A i \in 1..(j - 1) :
                  rows[i].at < rows[j].at /\ ~rows[i].published
                      => rows[i].attempts > 0]_vars

\* No head-of-line blocking: an event that is not poison is published, even
\* when every batch could be filled with rows that always fail.
HealthyRowsGetThrough ==
    \A i \in 1..MaxRows :
        i \in Rows /\ rows[i].event \notin Poison ~>
            i \in Rows /\ rows[i].published

=============================================================================
