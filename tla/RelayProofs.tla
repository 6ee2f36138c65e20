---------------------------- MODULE RelayProofs ----------------------------
(***************************************************************************)
(* Theorems about OutboxRelay, for any number of rows, attempts and        *)
(* faults, any batch size, any skew of the clocks and any set of events,   *)
(* poison or not.                                                          *)
(***************************************************************************)
EXTENDS OutboxRelay, OutboxProofs

\* What the relay has heard about the row it is sending is on the record of
\* that row before the row is written.
AnswerInv ==
    /\ answer # "none" => sending # NoRow
    /\ answer = "resolved" => received[sending] > 0

\* A row counts no more failures than there were rejections, the one the
\* relay has heard of and not yet written included.
Unwritten(i) == IF answer = "rejected" /\ sending = i THEN 1 ELSE 0
AttemptsInv == \A i \in Rows : rows[i].attempts + Unwritten(i) <= refused[i]

HistoryType ==
    /\ Len(rows) <= MaxRows
    /\ answer \in {"none", "resolved", "rejected"}
    /\ received \in [1..MaxRows -> Nat]
    /\ refused \in [1..MaxRows -> Nat]
    /\ faults \in 0..MaxFaults

RelayInv ==
    /\ OutboxInv(Event)
    /\ HistoryType
    /\ AnswerInv
    /\ AttemptsInv
    /\ PublishedWasReceived

-----------------------------------------------------------------------------
\* The rows are numbered from one, and there is room for all of them.
LEMMA RowNumbers ==
    ASSUME OutboxInv(Event), HistoryType
    PROVE  /\ Len(rows) \in Nat
           /\ Rows \subseteq 1..MaxRows
           /\ NoRow \notin Rows
           /\ \A i \in Rows : rows[i].attempts \in 0..MaxAttempts
  BY RowFacts, RelayAssumption DEF OutboxInv, HistoryType, Rows, NoRow

\* What a step does to the histories, if it writes no row.
LEMMA RowsAlone ==
    ASSUME RelayInv, OutboxInv(Event)', rows' = rows, HistoryType', AnswerInv',
           \A i \in Rows : /\ received'[i] >= received[i]
                           /\ rows[i].attempts + Unwritten(i)' <= refused'[i]
    PROVE  RelayInv'
  <1>1. Rows' = Rows /\ Rows \subseteq 1..MaxRows
    BY RowNumbers DEF Rows, RelayInv
  <1>2. \A i \in Rows : received[i] \in Nat /\ received'[i] \in Nat
    BY <1>1 DEF RelayInv, HistoryType
  <1>3. PublishedWasReceived'
    BY <1>1, <1>2 DEF RelayInv, PublishedWasReceived
  <1>4. AttemptsInv'
    BY <1>1 DEF AttemptsInv
  <1> QED
    BY <1>3, <1>4 DEF RelayInv

\* The invariant holds before anything is published.
LEMMA InitRelay == Init => RelayInv
  <1> SUFFICES ASSUME Init PROVE RelayInv
    OBVIOUS
  <1>1. OutboxInv(Event)
    BY OutboxStarts DEF Init
  <1>2. rows = <<>> /\ Len(rows) = 0 /\ Rows = {}
    BY EmptySeq DEF Init, OutboxInit, Rows
  <1>3. HistoryType
    BY <1>2, RelayAssumption DEF Init, HistoryType
  <1>4. AnswerInv
    BY DEF Init, AnswerInv
  <1>5. \A i \in Rows : FALSE
    BY <1>2
  <1>6. AttemptsInv
    BY <1>5 DEF AttemptsInv
  <1>7. PublishedWasReceived
    BY <1>5 DEF PublishedWasReceived
  <1> QED
    BY <1>1, <1>3, <1>4, <1>6, <1>7 DEF RelayInv

\* Every step of the relay, of the listeners and of the publishers keeps it.
LEMMA NextRelay == RelayInv /\ [Next]_vars => RelayInv' /\ RowsKept
  <1> SUFFICES ASSUME RelayInv, [Next]_vars PROVE RelayInv' /\ RowsKept
    OBVIOUS
  <1> DEFINE Goal == RelayInv' /\ RowsKept
  <1>a. /\ OutboxInv(Event) /\ HistoryType /\ AnswerInv /\ AttemptsInv
        /\ PublishedWasReceived
    BY DEF RelayInv
  <1>b. /\ Len(rows) \in Nat
        /\ Rows \subseteq 1..MaxRows
        /\ NoRow \notin Rows
        /\ \A i \in Rows : rows[i].attempts \in 0..MaxAttempts
    BY <1>a, RowNumbers
  <1>c. \A i \in Rows : /\ rows[i].attempts \in Nat
                        /\ refused[i] \in Nat /\ received[i] \in Nat
                        /\ rows[i].attempts + Unwritten(i) <= refused[i]
    <2>1. \A i \in Rows : rows[i].attempts \in Nat
      BY <1>b, OutboxAssumption
    <2>2. \A i \in Rows : refused[i] \in Nat /\ received[i] \in Nat
      BY <1>a, <1>b DEF HistoryType
    <2> QED
      BY <1>a, <2>1, <2>2 DEF AttemptsInv
  <1>d. sending # NoRow => sending \in Rows
    BY <1>a DEF OutboxInv
  <1>1. ASSUME NEW event \in Event, Raise(event) PROVE Goal
    <2>1. /\ OutboxInv(Event)' /\ RowsKept
          /\ Len(rows') = Len(rows) + 1
          /\ rows'[Len(rows')].attempts = 0
          /\ rows'[Len(rows')].published = FALSE
          /\ \A i \in Rows : rows'[i] = rows[i]
      BY <1>1, <1>a, Publishes DEF Raise
    <2>2. /\ Len(rows) < MaxRows
          /\ answer' = answer /\ received' = received /\ refused' = refused
          /\ faults' = faults /\ sending' = sending
      BY <1>1 DEF Raise, Publish
    <2>3. Rows' = Rows \cup {Len(rows')}
      BY <1>b, <2>1 DEF Rows
    <2>4. HistoryType' /\ AnswerInv'
      BY <1>a, <1>b, <2>1, <2>2, RelayAssumption DEF HistoryType, AnswerInv
    <2>5. PublishedWasReceived'
      BY <1>a, <2>1, <2>2, <2>3 DEF PublishedWasReceived
    <2>6. Len(rows') \in 1..MaxRows /\ sending # Len(rows')
      BY <1>b, <1>d, <2>1, <2>2, RelayAssumption DEF Rows, NoRow
    <2>7. AttemptsInv'
      <3> SUFFICES ASSUME NEW i \in Rows'
                   PROVE  rows'[i].attempts + Unwritten(i)' <= refused'[i]
        BY DEF AttemptsInv
      <3>1. CASE i \in Rows
        BY <3>1, <1>c, <2>1, <2>2 DEF Unwritten
      <3>2. CASE i = Len(rows')
        <4>1. refused[i] \in Nat
          BY <2>6, <3>2, <1>a DEF HistoryType
        <4> QED
          BY <3>2, <4>1, <2>1, <2>2, <2>6 DEF Unwritten
      <3> QED
        BY <2>3, <3>1, <3>2
    <2> QED
      BY <2>1, <2>4, <2>5, <2>7 DEF RelayInv
  <1>2. ASSUME Tick PROVE Goal
    <2>1. OutboxInv(Event)' /\ RowsKept
      BY <1>2, <1>a, Fetches DEF Tick
    <2>2. /\ rows' = rows /\ sending' = sending /\ answer' = answer
          /\ received' = received /\ refused' = refused /\ faults' = faults
      BY <1>2 DEF Tick, Fetch
    <2>3. HistoryType' /\ AnswerInv'
      BY <1>a, <2>2 DEF HistoryType, AnswerInv
    <2>4. \A i \in Rows : received'[i] >= received[i]
                          /\ rows[i].attempts + Unwritten(i)' <= refused'[i]
      BY <1>c, <2>2 DEF Unwritten
    <2> QED
      BY <2>1, <2>2, <2>3, <2>4, RowsAlone
  <1>3. ASSUME NEW i \in 1..MaxRows, SendNext(i) PROVE Goal
    <2>1. OutboxInv(Event)' /\ RowsKept
      BY <1>3, <1>a, Sends DEF SendNext
    <2>2. /\ rows' = rows /\ sending = NoRow /\ sending' = i /\ answer' = answer
          /\ received' = received /\ refused' = refused /\ faults' = faults
      BY <1>3 DEF SendNext, Send
    <2>3. answer = "none"
      BY <1>a, <2>2 DEF AnswerInv
    <2>4. HistoryType' /\ AnswerInv'
      BY <1>a, <2>2, <2>3 DEF HistoryType, AnswerInv
    <2>5. \A k \in Rows : received'[k] >= received[k]
                          /\ rows[k].attempts + Unwritten(k)' <= refused'[k]
      BY <1>c, <2>2, <2>3 DEF Unwritten
    <2> QED
      BY <2>1, <2>2, <2>4, <2>5, RowsAlone
  <1>4. ASSUME Resolve PROVE Goal
    <2>1. /\ UNCHANGED outboxVars
          /\ rows' = rows /\ sending' = sending /\ sending # NoRow
          /\ answer = "none" /\ answer' = "resolved"
          /\ received' = [received EXCEPT ![sending] = @ + 1]
          /\ refused' = refused /\ faults' = faults
      BY <1>4 DEF Resolve, outboxVars
    <2>2. OutboxInv(Event)' /\ RowsKept
      BY <1>a, <2>1, OutboxRests
    <2>3. sending \in Rows /\ sending \in 1..MaxRows
      BY <1>b, <1>d, <2>1
    <2>4. HistoryType'
      BY <1>a, <2>1, <2>3 DEF HistoryType
    <2>5. AnswerInv'
      BY <1>a, <1>c, <2>1, <2>3 DEF AnswerInv, HistoryType
    <2>6. \A k \in Rows : received'[k] >= received[k]
                          /\ rows[k].attempts + Unwritten(k)' <= refused'[k]
      BY <1>a, <1>b, <1>c, <2>1, <2>3 DEF Unwritten, HistoryType
    <2> QED
      BY <2>1, <2>2, <2>4, <2>5, <2>6, RowsAlone
  <1>5. ASSUME Refuse PROVE Goal
    <2>1. /\ UNCHANGED outboxVars
          /\ rows' = rows /\ sending' = sending /\ sending # NoRow
          /\ answer = "none" /\ answer' = "rejected"
          /\ refused' = [refused EXCEPT ![sending] = @ + 1]
          /\ received' = received
          /\ faults' = faults \/ (faults < MaxFaults /\ faults' = faults + 1)
      BY <1>5 DEF Refuse, outboxVars
    <2>2. OutboxInv(Event)' /\ RowsKept
      BY <1>a, <2>1, OutboxRests
    <2>3. sending \in Rows /\ sending \in 1..MaxRows
      BY <1>b, <1>d, <2>1
    <2>4. HistoryType'
      <3>1. refused' \in [1..MaxRows -> Nat]
        BY <1>a, <2>1, <2>3 DEF HistoryType
      <3>2. faults' \in 0..MaxFaults
        BY <1>a, <2>1, RelayAssumption DEF HistoryType
      <3> QED
        BY <1>a, <2>1, <3>1, <3>2 DEF HistoryType
    <2>5. AnswerInv'
      BY <2>1 DEF AnswerInv
    <2>6. \A k \in Rows : received'[k] >= received[k]
                          /\ rows[k].attempts + Unwritten(k)' <= refused'[k]
      BY <1>a, <1>b, <1>c, <2>1, <2>3 DEF Unwritten, HistoryType
    <2> QED
      BY <2>1, <2>2, <2>4, <2>5, <2>6, RowsAlone
  <1>6. ASSUME Conclude, answer = "resolved", MarkPublished PROVE Goal
    <2>1. /\ OutboxInv(Event)' /\ RowsKept
          /\ Len(rows') = Len(rows)
          /\ sending \in Rows
          /\ \A i \in Rows : i # sending => rows'[i] = rows[i]
          /\ rows'[sending].attempts = rows[sending].attempts
      BY <1>6, <1>a, Marks
    <2>2. answer' = "none" /\ received' = received /\ refused' = refused
          /\ faults' = faults
      BY <1>6 DEF Conclude
    <2>3. Rows' = Rows
      BY <2>1 DEF Rows
    <2>4. HistoryType' /\ AnswerInv'
      BY <1>a, <2>1, <2>2 DEF HistoryType, AnswerInv
    <2>5. AttemptsInv'
      BY <1>6, <1>c, <2>1, <2>2, <2>3 DEF AttemptsInv, Unwritten
    <2>6. PublishedWasReceived'
      BY <1>6, <1>a, <2>1, <2>2, <2>3 DEF PublishedWasReceived, AnswerInv
    <2> QED
      BY <2>1, <2>4, <2>5, <2>6 DEF RelayInv
  <1>7. ASSUME Conclude, answer = "rejected", RecordFailure PROVE Goal
    <2>1. /\ OutboxInv(Event)' /\ RowsKept
          /\ Len(rows') = Len(rows)
          /\ sending \in Rows
          /\ \A i \in Rows : i # sending => rows'[i] = rows[i]
          /\ rows'[sending].published = rows[sending].published
          /\ rows'[sending].attempts = rows[sending].attempts + 1
      BY <1>7, <1>a, Counts
    <2>2. answer' = "none" /\ received' = received /\ refused' = refused
          /\ faults' = faults
      BY <1>7 DEF Conclude
    <2>3. Rows' = Rows
      BY <2>1 DEF Rows
    <2>4. HistoryType' /\ AnswerInv'
      BY <1>a, <2>1, <2>2 DEF HistoryType, AnswerInv
    <2>5. AttemptsInv'
      BY <1>7, <1>c, <2>1, <2>2, <2>3 DEF AttemptsInv, Unwritten
    <2>6. PublishedWasReceived'
      BY <1>a, <2>1, <2>2, <2>3 DEF PublishedWasReceived
    <2> QED
      BY <2>1, <2>4, <2>5, <2>6 DEF RelayInv
  <1>8. ASSUME Interrupt PROVE Goal
    <2>1. OutboxInv(Event)' /\ RowsKept
      BY <1>8, <1>a, Aborts DEF Interrupt
    <2>2. /\ rows' = rows /\ answer' = "none"
          /\ received' = received /\ refused' = refused
          /\ faults < MaxFaults /\ faults' = faults + 1
      BY <1>8 DEF Interrupt, AbortRun
    <2>3. HistoryType' /\ AnswerInv'
      BY <1>a, <2>2, RelayAssumption DEF HistoryType, AnswerInv
    <2>4. \A i \in Rows : received'[i] >= received[i]
                          /\ rows[i].attempts + Unwritten(i)' <= refused'[i]
      BY <1>c, <2>2 DEF Unwritten
    <2> QED
      BY <2>1, <2>2, <2>3, <2>4, RowsAlone
  <1>9. ASSUME NEW i \in 1..MaxRows, BackoffEnds(i) PROVE Goal
    <2>1. /\ OutboxInv(Event)' /\ RowsKept
          /\ Len(rows') = Len(rows)
          /\ sending' = sending
          /\ \A k \in Rows : /\ rows'[k].attempts = rows[k].attempts
                             /\ rows'[k].published = rows[k].published
      BY <1>9, <1>a, CoolsDown DEF BackoffEnds
    <2>2. answer' = answer /\ received' = received /\ refused' = refused
          /\ faults' = faults
      BY <1>9 DEF BackoffEnds
    <2>3. Rows' = Rows
      BY <2>1 DEF Rows
    <2>4. HistoryType' /\ AnswerInv'
      BY <1>a, <2>1, <2>2 DEF HistoryType, AnswerInv
    <2>5. AttemptsInv' /\ PublishedWasReceived'
      BY <1>a, <1>c, <2>1, <2>2, <2>3 DEF AttemptsInv, Unwritten, PublishedWasReceived
    <2> QED
      BY <2>1, <2>4, <2>5 DEF RelayInv
  <1>10. ASSUME UNCHANGED vars PROVE Goal
    <2>1. /\ UNCHANGED outboxVars /\ rows' = rows /\ sending' = sending
          /\ answer' = answer /\ received' = received /\ refused' = refused
          /\ faults' = faults
      BY <1>10 DEF vars, outboxVars
    <2>2. OutboxInv(Event)' /\ RowsKept
      BY <1>a, <2>1, OutboxRests
    <2>3. HistoryType' /\ AnswerInv'
      BY <1>a, <2>1 DEF HistoryType, AnswerInv
    <2>4. \A i \in Rows : received'[i] >= received[i]
                          /\ rows[i].attempts + Unwritten(i)' <= refused'[i]
      BY <1>c, <2>1 DEF Unwritten
    <2> QED
      BY <2>1, <2>2, <2>3, <2>4, RowsAlone
  <1>11. Conclude => (answer = "resolved" /\ MarkPublished)
                     \/ (answer = "rejected" /\ RecordFailure)
    BY DEF Conclude
  <1> QED
    BY <1>1, <1>2, <1>3, <1>4, <1>5, <1>6, <1>7, <1>8, <1>9, <1>10, <1>11
    DEF Next, SomeSend

\* Every reachable state of the relay satisfies the inductive invariant.
THEOREM RelayCorrect == Spec => []RelayInv
  BY InitRelay, NextRelay, PTL DEF Spec

-----------------------------------------------------------------------------
(* The properties of the outbox.                                            *)

\* No step takes the table, the run or the histories out of their types, and
\* no row counts more than MAX_ATTEMPTS failures.
THEOREM TypeCorrect == Spec => []TypeOK
  <1>1. RelayInv => TypeOK
    <2> SUFFICES ASSUME RelayInv PROVE TypeOK
      OBVIOUS
    <2>1. /\ rows \in Seq(Row(Event))
          /\ ClockInv /\ HistoryType
          /\ fetched \subseteq Rows /\ sending \in Rows \cup {NoRow}
      BY DEF RelayInv, OutboxInv
    <2>2. /\ Len(rows) \in Nat
          /\ \A i \in Rows : rows[i] \in Row(Event)
      BY <2>1, RowFacts DEF Rows
    <2>3. \A i \in 1..Len(rows) : rows[i] \in OutboxRow
      <3> SUFFICES ASSUME NEW i \in Rows PROVE rows[i] \in OutboxRow
        BY DEF Rows
      <3>1. rows[i] \in Row(Event) /\ rows[i].at < i /\ i <= Len(rows)
        BY <2>1, <2>2 DEF ClockInv, Rows
      <3>2. rows[i].at \in 0..MaxRows
        <4>1. rows[i].at \in Nat
          BY <3>1 DEF Row
        <4>2. i \in Nat /\ Len(rows) <= MaxRows
          BY <2>1, <2>2 DEF HistoryType, Rows
        <4> QED
          BY <2>2, <3>1, <4>1, <4>2, RelayAssumption
      <3> QED
        BY <3>1, <3>2 DEF Row, OutboxRow
    <2>4. rows \in Seq(OutboxRow)
      <3>1. rows = [i \in 1..Len(rows) |-> rows[i]]
        BY <2>1, RowFacts
      <3>2. rows \in [1..Len(rows) -> OutboxRow]
        BY <2>3, <3>1
      <3> QED
        BY <2>2, <3>2, SeqDef
    <2> QED
      BY <2>1, <2>4 DEF TypeOK, HistoryType
  <1> QED
    BY <1>1, RelayCorrect, PTL

\* At least once: whatever crashed and whatever write failed, a row that is
\* marked published was accepted by every listener.
THEOREM AtLeastOnce == Spec => []PublishedWasReceived
  <1>1. RelayInv => PublishedWasReceived
    BY DEF RelayInv
  <1> QED
    BY <1>1, RelayCorrect, PTL

\* A row that nobody will send again was rejected MAX_ATTEMPTS times: neither
\* a crash nor a write that failed cost it an attempt.
THEOREM GivenUpFairly == Spec => []GivenUpWhenExhausted
  <1>1. RelayInv => GivenUpWhenExhausted
    <2> SUFFICES ASSUME RelayInv, NEW i \in Rows, AtRest(i), ~rows[i].published
                 PROVE  refused[i] >= MaxAttempts
      BY DEF GivenUpWhenExhausted
    <2>1. rows[i].attempts \in 0..MaxAttempts /\ refused[i] \in Nat
      BY RowNumbers DEF RelayInv, HistoryType
    <2>2. ~(rows[i].attempts < MaxAttempts)
      BY DEF AtRest, Due
    <2>3. rows[i].attempts + Unwritten(i) <= refused[i]
      BY DEF RelayInv, AttemptsInv
    <2> QED
      BY <2>1, <2>2, <2>3, OutboxAssumption DEF Unwritten
  <1> QED
    BY <1>1, RelayCorrect, PTL

\* A row that was never rejected is not overtaken by one that happened, and
\* was committed, after it.
THEOREM InOrder == Spec => NothingOvertakes
  <1>1. RelayInv /\ [Next]_vars =>
          [\A j \in Rows' :
              sending # j /\ sending' = j =>
                  \A i \in 1..(j - 1) :
                      rows[i].at < rows[j].at /\ ~rows[i].published
                          => rows[i].attempts > 0]_vars
    <2> SUFFICES ASSUME RelayInv, Next, NEW j \in Rows', sending # j, sending' = j,
                        NEW i \in 1..(j - 1), rows[i].at < rows[j].at,
                        ~rows[i].published
                 PROVE  rows[i].attempts > 0
      OBVIOUS
    <2>1. j # NoRow
      <3>1. RelayInv'
        BY NextRelay
      <3> QED
        BY <3>1, RowNumbers DEF RelayInv, Rows, NoRow
    <2>2. Send(j)
      BY <2>1 DEF Next, SomeSend, Raise, Publish, Tick, Fetch, SendNext, Send, Resolve,
                  Refuse, Conclude, MarkPublished, RecordFailure, Interrupt, AbortRun,
                  BackoffEnds, CoolDown
    <2>3. /\ j \in fetched /\ sending = NoRow
          /\ \A k \in fetched : rows[j].at <= rows[k].at
      BY <2>2 DEF Send
    <2>4. /\ Len(rows) \in Nat
          /\ fetched \subseteq Rows
          /\ NoRow \notin Rows
          /\ \A k \in Rows : rows[k].attempts \in Nat /\ rows[k].at \in Nat
      BY RowNumbers, RowFacts, OutboxAssumption DEF RelayInv, OutboxInv, Rows
    <2>5. i \in Rows /\ i < j
      BY <2>3, <2>4 DEF Rows
    <2>6. i \notin fetched \cup {sending}
      BY <2>3, <2>4, <2>5
    <2>7. rows[i].attempts # 0
      BY <2>3, <2>5, <2>6 DEF RelayInv, OutboxInv, OrderInv
    <2> QED
      BY <2>4, <2>5, <2>7
  <1> QED
    BY <1>1, RelayCorrect, PTL DEF Spec, NothingOvertakes

=============================================================================
