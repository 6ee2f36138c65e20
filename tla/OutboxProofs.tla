---------------------------- MODULE OutboxProofs ----------------------------
(***************************************************************************)
(* Lemmas about the steps of the outbox table and of its relay, for every  *)
(* set of events a module publishes.  RelayProofs and SagaProofs build on  *)
(* them: each of their steps is one of these or leaves the outbox alone.   *)
(***************************************************************************)
EXTENDS Outbox, SequenceTheorems, TLAPS

Row(Events) == [event : Events, at : Nat, attempts : 0..MaxAttempts,
                cooling : BOOLEAN, published : BOOLEAN]

\* A row carries a clock that is not later than its commit.
ClockInv == \A i \in Rows : rows[i].at < i

\* Only a failed row waits for its back-off.
BackoffInv == \A i \in Rows : rows[i].cooling => rows[i].attempts > 0

\* The rows of the run under way are as its query saw them: nobody else
\* marks a row, and the run has not come to these yet.
BatchInv ==
    /\ sending \notin fetched
    /\ \A i \in fetched \cup ({sending} \ {NoRow}) : i \in Due

\* The run goes through its rows in the order of their clocks, and takes
\* along every row that never failed and is older than one of its own.
OrderInv ==
    \A j \in fetched, i \in Rows :
        /\ rows[i].at < rows[j].at
        /\ i < j
        /\ ~rows[i].published
        /\ rows[i].attempts = 0
        => i \in fetched \cup {sending}

OutboxInv(Events) ==
    /\ rows \in Seq(Row(Events))
    /\ fetched \subseteq Rows
    /\ sending \in Rows \cup {NoRow}
    /\ ClockInv
    /\ BackoffInv
    /\ BatchInv
    /\ OrderInv

\* Rows are never deleted and never change their event or their clock, and
\* published_at is never taken back.
RowsKept ==
    /\ Len(rows) <= Len(rows')
    /\ \A i \in Rows : /\ rows'[i].event = rows[i].event
                       /\ rows'[i].at = rows[i].at
                       /\ rows[i].published => rows'[i].published

-----------------------------------------------------------------------------
\* What a table of rows is.
LEMMA RowFacts ==
    ASSUME NEW Events, NEW table \in Seq(Row(Events))
    PROVE  /\ Len(table) \in Nat
           /\ DOMAIN table = 1..Len(table)
           /\ table \in [1..Len(table) -> Row(Events)]
           /\ \A i \in 1..Len(table) :
                /\ table[i] \in Row(Events)
                /\ table[i].event \in Events
                /\ table[i].at \in Nat
                /\ table[i].attempts \in 0..MaxAttempts
                /\ table[i].cooling \in BOOLEAN
                /\ table[i].published \in BOOLEAN
  <1>1. /\ Len(table) \in Nat
        /\ DOMAIN table = 1..Len(table)
        /\ table \in [1..Len(table) -> Row(Events)]
    BY LenProperties
  <1>2. \A i \in 1..Len(table) : table[i] \in Row(Events)
    BY <1>1
  <1> QED
    BY <1>1, <1>2 DEF Row

\* Before anything is published.
LEMMA OutboxStarts ==
    ASSUME NEW Events, OutboxInit
    PROVE  OutboxInv(Events)
  <1>1. rows \in Seq(Row(Events)) /\ Rows = {}
    BY EmptySeq DEF OutboxInit, Rows
  <1> QED
    BY <1>1 DEF OutboxInit, OutboxInv, ClockInv, BackoffInv, BatchInv, OrderInv, NoRow

\* A transaction publishes: the row is the last one.
LEMMA Publishes ==
    ASSUME NEW Events, OutboxInv(Events), NEW event \in Events, Publish(event)
    PROVE  /\ OutboxInv(Events)'
           /\ RowsKept
           /\ Len(rows') = Len(rows) + 1
           /\ rows'[Len(rows')].event = event
           /\ rows'[Len(rows')].attempts = 0
           /\ rows'[Len(rows')].published = FALSE
           /\ rows'[Len(rows')].cooling = FALSE
           /\ \A i \in Rows : rows'[i] = rows[i]
  <1> DEFINE n == Len(rows)
  <1>1. /\ n \in Nat
        /\ rows \in Seq(Row(Events))
        /\ \A i \in Rows : rows[i] \in Row(Events)
    BY RowFacts DEF OutboxInv, Rows
  <1>2. PICK late \in 0..Skew :
          /\ late <= n
          /\ rows' = Append(rows, [event |-> event, at |-> n - late,
                                   attempts |-> 0, cooling |-> FALSE,
                                   published |-> FALSE])
    BY DEF Publish
  <1> DEFINE row == [event |-> event, at |-> n - late, attempts |-> 0,
                     cooling |-> FALSE, published |-> FALSE]
  <1>3. late \in Nat
    BY OutboxAssumption
  <1>4. row \in Row(Events)
    BY <1>1, <1>2, <1>3, OutboxAssumption DEF Row
  <1>5. /\ rows' \in Seq(Row(Events))
        /\ Len(rows') = n + 1
        /\ \A i \in 1..n : rows'[i] = rows[i]
        /\ rows'[n + 1] = row
    BY <1>1, <1>2, <1>4, AppendProperties
  <1>6. Rows' = Rows \cup {n + 1} /\ n + 1 \notin Rows
    BY <1>1, <1>5 DEF Rows
  <1>7. row.at < n + 1 /\ row.attempts = 0 /\ row.published = FALSE
        /\ row.cooling = FALSE /\ row.event = event
    BY <1>1, <1>2, <1>3
  <1>8. fetched' = fetched /\ sending' = sending
    BY DEF Publish
  <1>9. ClockInv' /\ BackoffInv'
    BY <1>1, <1>5, <1>6, <1>7 DEF ClockInv, BackoffInv, OutboxInv, Rows
  <1>10. BatchInv'
    <2>1. \A i \in Due : i \in Due'
      BY <1>1, <1>5, <1>6 DEF Due, Rows
    <2> QED
      BY <2>1, <1>8 DEF BatchInv, OutboxInv
  <1>11. OrderInv'
    <2> SUFFICES ASSUME NEW j \in fetched, NEW i \in Rows', i < j,
                        rows'[i].at < rows'[j].at, ~rows'[i].published,
                        rows'[i].attempts = 0
                 PROVE  i \in fetched \cup {sending}
      BY <1>8 DEF OrderInv
    <2>1. j \in Rows /\ i \in Rows
      BY <1>1, <1>6 DEF OutboxInv, Rows
    <2> QED
      BY <2>1, <1>5 DEF OutboxInv, OrderInv, Rows
  <1>12. OutboxInv(Events)'
    BY <1>5, <1>6, <1>8, <1>9, <1>10, <1>11 DEF OutboxInv
  <1> QED
    BY <1>1, <1>5, <1>6, <1>7, <1>12 DEF RowsKept, Rows

\* A tick takes the oldest rows that are due.
LEMMA Fetches ==
    ASSUME NEW Events, OutboxInv(Events), Fetch
    PROVE  OutboxInv(Events)' /\ RowsKept
  <1>1. /\ Len(rows) \in Nat
        /\ \A i \in Rows : rows[i] \in Row(Events) /\ rows[i].at \in Nat
    BY RowFacts DEF OutboxInv, Rows
  <1>2. rows' = rows /\ sending' = NoRow /\ sending = NoRow
    BY DEF Fetch
  <1>3. /\ fetched' \subseteq Due
        /\ \A i \in fetched', j \in Due \ fetched' : rows[i].at <= rows[j].at
    BY DEF Fetch, OldestOf
  <1>4. Rows' = Rows /\ Due' = Due /\ Due \subseteq Rows
    BY <1>2 DEF Rows, Due
  <1>5. NoRow \notin Rows
    BY <1>1 DEF NoRow, Rows
  <1>6. BatchInv'
    BY <1>2, <1>3, <1>4, <1>5 DEF BatchInv
  <1>7. OrderInv'
    <2> SUFFICES ASSUME NEW j \in fetched', NEW i \in Rows, i < j,
                        rows[i].at < rows[j].at, ~rows[i].published,
                        rows[i].attempts = 0
                 PROVE  i \in fetched'
      BY <1>2, <1>4 DEF OrderInv
    <2>1. ~rows[i].cooling
      BY <1>1 DEF OutboxInv, BackoffInv
    <2>2. i \in Due
      BY <2>1, OutboxAssumption DEF Due
    <2>3. j \in Rows
      BY <1>3, <1>4
    <2> QED
      BY <1>1, <1>3, <2>2, <2>3
  <1>8. ClockInv' /\ BackoffInv'
    BY <1>2, <1>4 DEF ClockInv, BackoffInv, OutboxInv
  <1> QED
    BY <1>1, <1>2, <1>3, <1>4, <1>6, <1>7, <1>8 DEF OutboxInv, RowsKept

\* The next row of the run is handed to the transport.
LEMMA Sends ==
    ASSUME NEW Events, OutboxInv(Events), NEW i, Send(i)
    PROVE  OutboxInv(Events)' /\ RowsKept /\ i \in Due
  <1>1. /\ Len(rows) \in Nat
        /\ \A k \in Rows : rows[k] \in Row(Events) /\ rows[k].at \in Nat
    BY RowFacts DEF OutboxInv, Rows
  <1>2. /\ rows' = rows
        /\ sending = NoRow
        /\ sending' = i
        /\ i \in fetched
        /\ fetched' = fetched \ {i}
    BY DEF Send
  <1>3. Rows' = Rows /\ Due' = Due
    BY <1>2 DEF Rows, Due
  <1>4. i \in Rows /\ i \in Due
    BY <1>2 DEF OutboxInv, BatchInv
  <1>5. BatchInv'
    BY <1>2, <1>3, <1>4 DEF BatchInv, OutboxInv
  <1>6. OrderInv'
    BY <1>1, <1>2, <1>3, <1>4 DEF OrderInv, OutboxInv, NoRow, Rows
  <1>7. ClockInv' /\ BackoffInv'
    BY <1>2, <1>3 DEF ClockInv, BackoffInv, OutboxInv
  <1> QED
    BY <1>1, <1>2, <1>3, <1>4, <1>5, <1>6, <1>7 DEF OutboxInv, RowsKept

\* What an update of one row by the relay may do to it.
Rewritten(row, next) ==
    /\ next.event = row.event
    /\ next.at = row.at
    /\ next.attempts >= row.attempts
    /\ row.published => next.published
    /\ next.cooling => next.attempts > 0

\* An update of one row by the relay leaves the others as they are.
LEMMA RowWritten ==
    ASSUME NEW Events, OutboxInv(Events), NEW i \in Rows, NEW next \in Row(Events),
           Rewritten(rows[i], next), rows' = [rows EXCEPT ![i] = next]
    PROVE  /\ rows' \in Seq(Row(Events))
           /\ Len(rows') = Len(rows)
           /\ Rows' = Rows
           /\ rows'[i] = next
           /\ \A j \in Rows : j # i => rows'[j] = rows[j]
           /\ RowsKept
           /\ ClockInv'
           /\ BackoffInv'
  <1>1. /\ Len(rows) \in Nat
        /\ rows \in Seq(Row(Events))
        /\ \A k \in Rows : rows[k] \in Row(Events)
    BY RowFacts DEF OutboxInv, Rows
  <1>2. /\ rows' \in Seq(Row(Events))
        /\ Len(rows') = Len(rows)
        /\ rows'[i] = next
        /\ \A j \in Rows : j # i => rows'[j] = rows[j]
    <2>1. i \in 1..Len(rows)
      BY DEF Rows
    <2>2. /\ [rows EXCEPT ![i] = next] \in Seq(Row(Events))
          /\ Len([rows EXCEPT ![i] = next]) = Len(rows)
          /\ \A j \in 1..Len(rows) : [rows EXCEPT ![i] = next][j] = IF j = i THEN next ELSE rows[j]
      BY <1>1, <2>1, ExceptSeq
    <2> QED
      BY <2>2 DEF Rows
  <1>3. Rows' = Rows
    BY <1>2 DEF Rows
  <1>4. \A j \in Rows : /\ rows'[j].event = rows[j].event
                        /\ rows'[j].at = rows[j].at
                        /\ rows[j].published => rows'[j].published
                        /\ rows[j].cooling => rows[j].attempts > 0
                        /\ rows'[j].cooling => rows'[j].attempts > 0
    BY <1>2 DEF Rewritten, OutboxInv, BackoffInv
  <1>5. RowsKept
    BY <1>1, <1>2, <1>4 DEF RowsKept
  <1>6. ClockInv' /\ BackoffInv'
    BY <1>3, <1>4 DEF ClockInv, BackoffInv, OutboxInv
  <1> QED
    BY <1>2, <1>3, <1>5, <1>6

\* Once the row it has sent is published or has one more attempt, the rest of
\* the run is as before.
LEMMA RunGoesOn ==
    ASSUME NEW Events, OutboxInv(Events), sending \in Rows, Rows' = Rows,
           \A j \in Rows : j # sending => rows'[j] = rows[j],
           rows'[sending].published \/ rows'[sending].attempts # 0,
           fetched' = fetched, sending' = NoRow
    PROVE  BatchInv' /\ OrderInv'
  <1>1. Len(rows) \in Nat
    BY RowFacts DEF OutboxInv
  <1>2. NoRow \notin Rows
    BY <1>1 DEF NoRow, Rows
  <1>3. sending \notin fetched
    BY DEF OutboxInv, BatchInv
  <1>4. BatchInv'
    BY <1>2, <1>3 DEF BatchInv, OutboxInv, Due
  <1>5. OrderInv'
    <2> SUFFICES ASSUME NEW j \in fetched, NEW k \in Rows, k < j,
                        rows'[k].at < rows'[j].at, ~rows'[k].published,
                        rows'[k].attempts = 0
                 PROVE  k \in fetched
      BY DEF OrderInv
    <2>1. k # sending /\ j # sending /\ j \in Rows
      BY <1>3 DEF OutboxInv
    <2> QED
      BY <2>1 DEF OutboxInv, OrderInv
  <1> QED
    BY <1>4, <1>5

\* The row that was sent is a row of the table that may be sent.
LEMMA SendingIsDue ==
    ASSUME NEW Events, OutboxInv(Events), sending # NoRow
    PROVE  /\ sending \in Rows
           /\ rows[sending] \in Row(Events)
           /\ ~rows[sending].published
           /\ rows[sending].attempts \in Nat
           /\ rows[sending].attempts + 1 \in 1..MaxAttempts
  <1>1. sending \in Rows /\ sending \in Due
    BY DEF OutboxInv, BatchInv
  <1>2. rows[sending] \in Row(Events) /\ rows[sending].attempts \in 0..MaxAttempts
    BY <1>1, RowFacts DEF OutboxInv, Rows
  <1> QED
    BY <1>1, <1>2, OutboxAssumption DEF Due

\* The relay marks the row that every listener has accepted.
LEMMA Marks ==
    ASSUME NEW Events, OutboxInv(Events), MarkPublished
    PROVE  /\ OutboxInv(Events)'
           /\ RowsKept
           /\ Len(rows') = Len(rows)
           /\ sending \in Rows
           /\ sending' = NoRow
           /\ fetched' = fetched
           /\ \A i \in Rows : i # sending => rows'[i] = rows[i]
           /\ rows'[sending].published
           /\ rows'[sending].attempts = rows[sending].attempts
  <1> DEFINE row == rows[sending]
             next == [row EXCEPT !.published = TRUE]
  <1>1. sending # NoRow /\ sending' = NoRow /\ fetched' = fetched
    BY DEF MarkPublished
  <1>2. sending \in Rows /\ row \in Row(Events)
    BY <1>1, SendingIsDue
  <1>3. next \in Row(Events) /\ next.published /\ next.attempts = row.attempts
        /\ next.event = row.event /\ next.at = row.at /\ next.cooling = row.cooling
    BY <1>2 DEF Row
  <1>4. Rewritten(row, next)
    BY <1>2, <1>3, OutboxAssumption DEF Rewritten, Row, OutboxInv, BackoffInv
  <1>5. rows' = [rows EXCEPT ![sending] = next]
    BY DEF MarkPublished
  <1>6. /\ rows' \in Seq(Row(Events))
        /\ Len(rows') = Len(rows)
        /\ Rows' = Rows
        /\ rows'[sending] = next
        /\ \A j \in Rows : j # sending => rows'[j] = rows[j]
        /\ RowsKept /\ ClockInv' /\ BackoffInv'
    <2> HIDE DEF next
    <2> QED
      BY <1>2, <1>3, <1>4, <1>5, RowWritten
  <1>7. BatchInv' /\ OrderInv'
    BY <1>1, <1>2, <1>3, <1>6, RunGoesOn
  <1>8. OutboxInv(Events)'
    BY <1>1, <1>6, <1>7 DEF OutboxInv
  <1> QED
    BY <1>1, <1>2, <1>3, <1>6, <1>8

\* The relay counts a failure of the row that a listener rejected.
LEMMA Counts ==
    ASSUME NEW Events, OutboxInv(Events), RecordFailure
    PROVE  /\ OutboxInv(Events)'
           /\ RowsKept
           /\ Len(rows') = Len(rows)
           /\ sending \in Rows
           /\ sending' = NoRow
           /\ fetched' = fetched
           /\ \A i \in Rows : i # sending => rows'[i] = rows[i]
           /\ rows'[sending].published = rows[sending].published
           /\ rows'[sending].attempts = rows[sending].attempts + 1
           /\ rows'[sending].cooling
  <1> DEFINE row == rows[sending]
             next == [row EXCEPT !.attempts = row.attempts + 1, !.cooling = TRUE]
  <1>1. sending # NoRow /\ sending' = NoRow /\ fetched' = fetched
    BY DEF RecordFailure
  <1>2. /\ sending \in Rows
        /\ row \in Row(Events)
        /\ row.attempts \in Nat
        /\ row.attempts + 1 \in 1..MaxAttempts
    BY <1>1, SendingIsDue
  <1>3. /\ next \in Row(Events)
        /\ next.published = row.published /\ next.attempts = row.attempts + 1
        /\ next.event = row.event /\ next.at = row.at /\ next.cooling = TRUE
    <2> DEFINE counted == [row EXCEPT !.attempts = row.attempts + 1]
    <2>1. row.attempts + 1 \in 0..MaxAttempts
      BY <1>2, OutboxAssumption
    <2>2. /\ counted \in Row(Events)
          /\ counted.event = row.event /\ counted.at = row.at
          /\ counted.attempts = row.attempts + 1
          /\ counted.published = row.published
      BY <1>2, <2>1 DEF Row
    <2> HIDE DEF counted, row
    <2> DEFINE cooled == [counted EXCEPT !.cooling = TRUE]
    <2>3. /\ cooled \in Row(Events)
          /\ cooled.event = row.event /\ cooled.at = row.at
          /\ cooled.attempts = row.attempts + 1
          /\ cooled.published = row.published
          /\ cooled.cooling = TRUE
      BY <2>2 DEF Row
    <2>4. next = cooled
      BY DEF counted
    <2> QED
      BY <2>3, <2>4
  <1>4. Rewritten(row, next)
    BY <1>2, <1>3 DEF Rewritten
  <1>5. rows' = [rows EXCEPT ![sending] = next]
    BY DEF RecordFailure
  <1>6. /\ rows' \in Seq(Row(Events))
        /\ Len(rows') = Len(rows)
        /\ Rows' = Rows
        /\ rows'[sending] = next
        /\ \A j \in Rows : j # sending => rows'[j] = rows[j]
        /\ RowsKept /\ ClockInv' /\ BackoffInv'
    <2> HIDE DEF next
    <2> QED
      BY <1>2, <1>3, <1>4, <1>5, RowWritten
  <1>7. BatchInv' /\ OrderInv'
    <2>1. rows'[sending].attempts # 0
      BY <1>2, <1>3, <1>6
    <2> QED
      BY <1>1, <1>2, <1>6, <2>1, RunGoesOn
  <1>8. OutboxInv(Events)'
    BY <1>1, <1>6, <1>7 DEF OutboxInv
  <1> QED
    BY <1>1, <1>2, <1>3, <1>6, <1>8

\* The run ends before its time.
LEMMA Aborts ==
    ASSUME NEW Events, OutboxInv(Events), AbortRun
    PROVE  OutboxInv(Events)' /\ RowsKept
  <1>1. Len(rows) \in Nat
    BY RowFacts DEF OutboxInv
  <1>2. rows' = rows /\ Rows' = Rows /\ fetched' = {} /\ sending' = NoRow
    BY DEF AbortRun, Rows
  <1> QED
    BY <1>1, <1>2 DEF OutboxInv, ClockInv, BackoffInv, BatchInv, OrderInv, RowsKept, NoRow

\* The back-off of a row ends.
LEMMA CoolsDown ==
    ASSUME NEW Events, OutboxInv(Events), NEW i, CoolDown(i)
    PROVE  /\ OutboxInv(Events)'
           /\ RowsKept
           /\ Len(rows') = Len(rows)
           /\ fetched' = fetched
           /\ sending' = sending
           /\ i \in Rows
           /\ \A j \in Rows : /\ j # i => rows'[j] = rows[j]
                              /\ rows'[j].attempts = rows[j].attempts
                              /\ rows'[j].published = rows[j].published
           /\ ~rows'[i].cooling
  <1> DEFINE row == rows[i]
             next == [row EXCEPT !.cooling = FALSE]
  <1>1. i \in Rows /\ row.cooling /\ fetched' = fetched /\ sending' = sending
    BY DEF CoolDown
  <1>2. row \in Row(Events)
    BY <1>1, RowFacts DEF OutboxInv, Rows
  <1>3. /\ next \in Row(Events)
        /\ next.event = row.event /\ next.at = row.at
        /\ next.attempts = row.attempts /\ next.published = row.published
        /\ next.cooling = FALSE
    BY <1>2 DEF Row
  <1>4. Rewritten(row, next)
    BY <1>2, <1>3, OutboxAssumption DEF Rewritten, Row
  <1>5. rows' = [rows EXCEPT ![i] = next]
    BY DEF CoolDown
  <1>6. /\ rows' \in Seq(Row(Events))
        /\ Len(rows') = Len(rows)
        /\ Rows' = Rows
        /\ rows'[i] = next
        /\ \A j \in Rows : j # i => rows'[j] = rows[j]
        /\ RowsKept /\ ClockInv' /\ BackoffInv'
    <2> HIDE DEF next
    <2> QED
      BY <1>1, <1>3, <1>4, <1>5, RowWritten
  <1>7. \A j \in Rows : /\ rows'[j].at = rows[j].at
                        /\ rows'[j].attempts = rows[j].attempts
                        /\ rows'[j].published = rows[j].published
                        /\ ~rows[j].cooling => ~rows'[j].cooling
    BY <1>3, <1>6
  <1>8. BatchInv'
    BY <1>1, <1>6, <1>7 DEF BatchInv, OutboxInv, Due
  <1>9. OrderInv'
    BY <1>1, <1>6, <1>7 DEF OrderInv, OutboxInv
  <1>10. OutboxInv(Events)'
    BY <1>1, <1>6, <1>8, <1>9 DEF OutboxInv
  <1> QED
    BY <1>1, <1>3, <1>6, <1>7, <1>10

\* A step that leaves the outbox alone.
LEMMA OutboxRests ==
    ASSUME NEW Events, OutboxInv(Events), UNCHANGED outboxVars
    PROVE  OutboxInv(Events)' /\ RowsKept
  <1>1. Len(rows) \in Nat
    BY RowFacts DEF OutboxInv
  <1>2. rows' = rows /\ Rows' = Rows /\ fetched' = fetched /\ sending' = sending /\ Due' = Due
    BY DEF outboxVars, Rows, Due
  <1> QED
    BY <1>1, <1>2 DEF OutboxInv, ClockInv, BackoffInv, BatchInv, OrderInv, RowsKept

-----------------------------------------------------------------------------
(* A step of the whole system, as the outbox sees it.                       *)

\* The events of the table stay as they are, or one is added.
SameEvents == Rows' = Rows /\ \A i \in Rows : rows'[i].event = rows[i].event
NewEvent(event) ==
    /\ \E i \in Rows' : rows'[i].event = event
    /\ \A i \in Rows' : \/ i \in Rows /\ rows'[i].event = rows[i].event
                        \/ rows'[i].event = event

\* A step that publishes nothing.
Silent ==
    \/ UNCHANGED outboxVars
    \/ Fetch
    \/ \E i \in Rows : Send(i)
    \/ MarkPublished
    \/ RecordFailure
    \/ AbortRun
    \/ \E i \in Rows : CoolDown(i)

\* The events of the table after a step that publishes nothing ...
LEMMA SilentStep ==
    ASSUME NEW Events, OutboxInv(Events), Silent
    PROVE  OutboxInv(Events)' /\ Rows \subseteq Rows' /\ SameEvents
  <1> DEFINE Goal == OutboxInv(Events)' /\ RowsKept /\ Len(rows') = Len(rows)
  <1>1. Len(rows) \in Nat
    BY RowFacts DEF OutboxInv
  <1>2. ASSUME UNCHANGED outboxVars PROVE Goal
    <2>1. OutboxInv(Events)' /\ RowsKept
      BY <1>2, OutboxRests
    <2>2. rows' = rows
      BY <1>2 DEF outboxVars
    <2> QED
      BY <2>1, <2>2
  <1>3. ASSUME Fetch PROVE Goal
    <2>1. OutboxInv(Events)' /\ RowsKept
      BY <1>3, Fetches
    <2>2. rows' = rows
      BY <1>3 DEF Fetch
    <2> QED
      BY <2>1, <2>2
  <1>4. ASSUME NEW i \in Rows, Send(i) PROVE Goal
    <2>1. OutboxInv(Events)' /\ RowsKept
      BY <1>4, Sends
    <2>2. rows' = rows
      BY <1>4 DEF Send
    <2> QED
      BY <2>1, <2>2
  <1>5. ASSUME MarkPublished PROVE Goal
    BY <1>5, Marks
  <1>6. ASSUME RecordFailure PROVE Goal
    BY <1>6, Counts
  <1>7. ASSUME AbortRun PROVE Goal
    <2>1. OutboxInv(Events)' /\ RowsKept
      BY <1>7, Aborts
    <2>2. rows' = rows
      BY <1>7 DEF AbortRun
    <2> QED
      BY <2>1, <2>2
  <1>8. ASSUME NEW i \in Rows, CoolDown(i) PROVE Goal
    BY <1>8, CoolsDown
  <1>9. Goal
    <2> HIDE DEF Goal
    <2> QED
      BY <1>2, <1>3, <1>4, <1>5, <1>6, <1>7, <1>8 DEF Silent
  <1>10. Rows' = Rows
    BY <1>9 DEF Rows
  <1> QED
    BY <1>9, <1>10 DEF SameEvents, RowsKept

\* ... and after one that publishes.
LEMMA LoudStep ==
    ASSUME NEW Events, OutboxInv(Events), NEW event \in Events, Publish(event)
    PROVE  OutboxInv(Events)' /\ Rows \subseteq Rows' /\ NewEvent(event)
           /\ \A i \in Rows : rows'[i].event = rows[i].event
  <1>1. Len(rows) \in Nat
    BY RowFacts DEF OutboxInv
  <1>2. /\ OutboxInv(Events)'
        /\ Len(rows') = Len(rows) + 1
        /\ rows'[Len(rows')].event = event
        /\ \A i \in Rows : rows'[i] = rows[i]
    BY Publishes
  <1>3. Rows' = Rows \cup {Len(rows')}
    BY <1>1, <1>2 DEF Rows
  <1> QED
    BY <1>2, <1>3 DEF NewEvent

=============================================================================
