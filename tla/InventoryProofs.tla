-------------------------- MODULE InventoryProofs --------------------------
(***************************************************************************)
(* Theorems about Inventory, for every set of SKUs, any number of request  *)
(* slots, reservations, units, faults and any batch size.                  *)
(***************************************************************************)
EXTENDS Inventory, FiniteSetTheorems, TLAPS

\* A transaction that holds the lock of a row has read its counters under
\* that lock, and nobody else can have written them since.
LockInv ==
    \A t \in Txn :
        txn[t].pc = "locked" =>
            /\ lock[txn[t].sku] = t
            /\ txn[t].row = stock[txn[t].sku]
            /\ txn[t].sku \in registered

\* A transition in flight is about a row that exists, of that SKU and that
\* many units, and was judged to move when it was read.  Whatever has been
\* written since, no row goes back to PENDING.
TransitionInv ==
    \A t \in Txn :
        txn[t].pc # "idle" /\ txn[t].op \in Transitions =>
            /\ txn[t].res \in ReservationId
            /\ Exists(txn[t].res)
            /\ reservation[txn[t].res].sku = txn[t].sku
            /\ reservation[txn[t].res].qty = txn[t].qty
            /\ Verdict(txn[t].op, txn[t].seen) = "moved"
            /\ txn[t].seen # "PENDING"
                  => reservation[txn[t].res].status # "PENDING"

\* A reservation being made has an id of its own that no row has yet.
ReserveInv ==
    /\ \A t \in Txn :
        txn[t].pc # "idle" /\ txn[t].op = "reserve" =>
            /\ txn[t].res \in ReservationId
            /\ txn[t].res < nextId
            /\ ~Exists(txn[t].res)
            /\ \A u \in Txn :
                txn[u].pc # "idle" /\ txn[u].op = "reserve"
                    /\ txn[u].res = txn[t].res => u = t
    /\ \A r \in ReservationId : nextId <= r => ~Exists(r)

\* What the expiry scan found are rows, and rows are never deleted.
BatchInv == \A r \in batch : Exists(r)

ControlInv == TypeOK /\ LockInv /\ TransitionInv /\ ReserveInv /\ BatchInv

-----------------------------------------------------------------------------
\* A transaction that has read its reservation is described by a record.
LEMMA ReadingType ==
    ASSUME NEW op \in StockOperations, NEW r \in 0..MaxReservations, NEW s \in Sku,
           NEW q \in Quantity, NEW seen \in SeenStatus
    PROVE  Reading(op, r, s, q, seen) \in ReadingTxn
  BY DEF Reading, ReadingTxn

\* So is one that holds a lock, with the counters it read under it.
LEMMA LockedType ==
    ASSUME NEW t \in Txn, txn[t] \in ReadingTxn, NEW row \in StockRow
    PROVE  Locked(t, row) \in LockedTxn
  BY DEF Locked, ReadingTxn, LockedTxn

\* A transaction that is under way has the fields of its kind.
LEMMA FlightType ==
    ASSUME TypeOK, NEW t \in Txn
    PROVE  /\ txn[t].pc \in {"idle", "read", "locked"}
           /\ txn[t].pc = "idle" <=> txn[t] = Idle
           /\ txn[t].pc = "read" <=> txn[t] \in ReadingTxn
           /\ txn[t].pc = "locked" <=> txn[t] \in LockedTxn
  BY DEF TypeOK, Idle, ReadingTxn, LockedTxn

\* What a transaction under way is about has its type.
LEMMA FlightFields ==
    ASSUME TypeOK, NEW t \in Txn, txn[t].pc # "idle"
    PROVE  /\ txn[t].op \in StockOperations
           /\ txn[t].res \in 0..MaxReservations
           /\ txn[t].sku \in Sku
           /\ txn[t].qty \in Quantity
           /\ txn[t].seen \in SeenStatus
           /\ txn[t].pc = "locked" => txn[t].row \in StockRow
  BY DEF TypeOK, Idle, ReadingTxn, LockedTxn

\* A reservations row, once it exists, has a status, a SKU and a quantity.
LEMMA ExistingRow ==
    ASSUME TypeOK, NEW r \in ReservationId, Exists(r)
    PROVE  /\ reservation[r].status \in ReservationStatus
           /\ reservation[r].sku \in Sku
           /\ reservation[r].qty \in Quantity
  BY DEF TypeOK, Exists, ReservationRow, AbsentReservation

\* A row with a status, a SKU and a quantity is a reservations row.
LEMMA ReservationType ==
    ASSUME NEW status \in ReservationStatus, NEW s \in Sku, NEW q \in Quantity
    PROVE  /\ Reservation(status, s, q) \in ReservationRow
           /\ Reservation(status, s, q).status = status
           /\ Reservation(status, s, q).sku = s
           /\ Reservation(status, s, q).qty = q
           /\ Reservation(status, s, q).status # "absent"
  BY DEF Reservation, ReservationRow, ReservationStatus

\* A transition leaves one of the statuses of a reservation.
LEMMA TargetStatus == \A op : Target(op) \in ReservationStatus
  BY DEF Target, ReservationStatus

\* What an accepted change leaves behind keeps the invariant of StockItem.
LEMMA ChangedStock ==
    ASSUME NEW op \in StockOperations, NEW q \in Quantity, NEW row \in StockRow,
           ChangeAccepted(op, row, q)
    PROVE  /\ Changed(op, row, q) \in StockRow
           /\ Changed(op, row, q).reserved <= Changed(op, row, q).onHand
  BY InventoryAssumption
  DEF StockOperations, Transitions, Quantity, StockRow, ChangeAccepted, Changed,
      Rehydratable, Counters, CanReserve, Available, ReservedCovers, AfterReserve,
      AfterConfirm, AfterRelease, AfterRestore, AfterRestock

-----------------------------------------------------------------------------
\* An empty database satisfies the invariant.
LEMMA InitControl == Init => ControlInv
  <1> SUFFICES ASSUME Init PROVE ControlInv
    OBVIOUS
  <1>1. TypeOK
    BY InventoryAssumption
    DEF Init, TypeOK, NewRow, Counters, StockRow, ReservationRow, ReservationId
  <1>2. LockInv /\ TransitionInv /\ ReserveInv /\ BatchInv
    BY DEF Init, Idle, AbsentReservation, LockInv, TransitionInv, ReserveInv,
           BatchInv, Exists
  <1> QED
    BY <1>1, <1>2 DEF ControlInv

\* Every step keeps every variable in its type; only the changed ones are argued.
LEMMA NextType == ControlInv /\ [Next]_vars => TypeOK'
  <1> SUFFICES ASSUME ControlInv, [Next]_vars PROVE TypeOK'
    OBVIOUS
  <1> USE InventoryAssumption DEF ControlInv
  <1>1. ASSUME NEW s \in Sku, NEW units \in 0..MaxOnHand, RegisterStock(s, units)
        PROVE  TypeOK'
    <2>1. NewRow(units) \in StockRow
      BY DEF NewRow, Counters, StockRow
    <2> QED
      BY <1>1, <2>1 DEF RegisterStock, TypeOK
  <1>2. ASSUME NEW t \in Client, NEW s \in Sku, NEW q \in Quantity, BeginReserve(t, s, q)
        PROVE  TypeOK'
    <2>1. nextId \in 0..MaxReservations /\ nextId' \in 1..(MaxReservations + 1)
      BY <1>2 DEF BeginReserve, TypeOK, ReservationId
    <2>2. Reading("reserve", nextId, s, q, "absent") \in ReadingTxn
      BY <2>1, ReadingType DEF StockOperations, SeenStatus
    <2> QED
      BY <1>2, <2>1, <2>2 DEF BeginReserve, TypeOK
  <1>3. ASSUME NEW t \in Client, NEW s \in Sku, NEW q \in Quantity, BeginRestock(t, s, q)
        PROVE  TypeOK'
    <2>1. Reading("restock", NoReservation, s, q, "none") \in ReadingTxn
      BY ReadingType DEF StockOperations, SeenStatus, NoReservation
    <2> QED
      BY <1>3, <2>1 DEF BeginRestock, TypeOK
  <1>4. ASSUME NEW t \in Client, NEW op \in Transitions \ {"expire"},
               NEW r \in ReservationId, BeginTransition(t, op, r)
        PROVE  TypeOK'
    <2>1. /\ reservation[r].status \in SeenStatus
          /\ reservation[r].sku \in Sku
          /\ reservation[r].qty \in Quantity
      BY <1>4, ExistingRow DEF BeginTransition, SeenStatus
    <2>2. r \in 0..MaxReservations /\ op \in StockOperations
      BY DEF ReservationId, StockOperations
    <2>3. Reading(op, r, reservation[r].sku, reservation[r].qty,
                  reservation[r].status) \in ReadingTxn
      BY <2>1, <2>2, ReadingType
    <2> QED
      BY <1>4, <2>3 DEF BeginTransition, TypeOK
  <1>5. ASSUME ScanExpired PROVE TypeOK'
    BY <1>5 DEF ScanExpired, TypeOK, Oldest, Expired
  <1>6. ASSUME BeginExpire PROVE TypeOK'
    <2>1. PICK r \in batch :
            /\ batch' = batch \ {r}
            /\ txn' = [txn EXCEPT ![Scanner] =
                          Reading("expire", r, reservation[r].sku,
                                  reservation[r].qty, "PENDING")]
      BY <1>6 DEF BeginExpire
    <2>2. r \in ReservationId /\ Exists(r)
      BY <2>1 DEF TypeOK, BatchInv
    <2>3. reservation[r].sku \in Sku /\ reservation[r].qty \in Quantity
      BY <2>2, ExistingRow
    <2>4. /\ "expire" \in StockOperations
          /\ "PENDING" \in SeenStatus
          /\ r \in 0..MaxReservations
      BY <2>2 DEF StockOperations, Transitions, SeenStatus, ReservationStatus, ReservationId
    <2>5. Reading("expire", r, reservation[r].sku, reservation[r].qty, "PENDING")
             \in ReadingTxn
      BY <2>3, <2>4, ReadingType
    <2> QED
      BY <1>6, <2>1, <2>5 DEF BeginExpire, TypeOK
  <1>7. ASSUME NEW t \in Txn, LockRow(t) PROVE TypeOK'
    <2>1. txn[t] \in ReadingTxn /\ txn[t].sku \in Sku
      BY <1>7, FlightType, FlightFields DEF LockRow
    <2>2. Locked(t, stock[txn[t].sku]) \in LockedTxn
      BY <2>1, LockedType DEF TypeOK
    <2> QED
      BY <1>7, <2>1, <2>2 DEF LockRow, TypeOK
  <1>8. ASSUME NEW t \in Txn, Commit(t) PROVE TypeOK'
    <2> DEFINE x == txn[t]
    <2>1. /\ x.op \in StockOperations /\ x.sku \in Sku /\ x.qty \in Quantity
          /\ x.row \in StockRow
      BY <1>8, FlightFields DEF Commit
    <2>2. x.op \in Transitions => x.res \in ReservationId /\ Exists(x.res)
      BY <1>8 DEF Commit, TransitionInv
    <2>3. x.op = "reserve" => x.res \in ReservationId
      BY <1>8 DEF Commit, ReserveInv
    <2>4. stock' \in [Sku -> StockRow]
      <3>1. Changed(x.op, x.row, x.qty) \in StockRow
        BY <1>8, <2>1, ChangedStock DEF Commit
      <3> QED
        BY <1>8, <3>1 DEF Commit, TypeOK
    <2>5. reservation' \in [ReservationId -> ReservationRow]
      <3>1. CASE x.op = "reserve"
        <4>1. Reservation("PENDING", x.sku, x.qty) \in ReservationRow
          BY <2>1, ReservationType DEF ReservationStatus
        <4> QED
          BY <1>8, <3>1, <4>1 DEF Commit, Saved, TypeOK
      <3>2. CASE x.op # "reserve" /\ x.op \in Transitions
        <4>1. Reservation(Target(x.op), reservation[x.res].sku, reservation[x.res].qty)
                 \in ReservationRow
          BY <2>2, <3>2, ExistingRow, TargetStatus, ReservationType
        <4> QED
          BY <1>8, <3>2, <4>1 DEF Commit, Saved, TypeOK
      <3>3. CASE x.op # "reserve" /\ x.op \notin Transitions
        BY <1>8, <3>3 DEF Commit, Saved, TypeOK
      <3> QED
        BY <3>1, <3>2, <3>3
    <2>6. announced' \in [ReservationId -> Nat] /\ received' \in [Sku -> Nat]
      <3>1. x.qty \in Nat
        BY <2>1 DEF Quantity
      <3>2. announced' \in [ReservationId -> Nat]
        BY <1>8, <2>2 DEF Commit, TypeOK, Transitions
      <3>3. received' \in [Sku -> Nat]
        BY <1>8, <2>1, <3>1 DEF Commit, TypeOK
      <3> QED
        BY <3>2, <3>3
    <2>7. overwritten' \subseteq ReservationId
      BY <1>8, <2>2 DEF Commit, TypeOK
    <2>8. lock' \in [Sku -> Txn \cup {NoTxn}] /\ txn'\in [Txn -> {Idle} \cup ReadingTxn \cup LockedTxn]
      BY <1>8 DEF Commit, TypeOK
    <2> QED
      BY <1>8, <2>4, <2>5, <2>6, <2>7, <2>8 DEF Commit, TypeOK
  <1>9. ASSUME NEW t \in Txn, Reject(t) PROVE TypeOK'
    BY <1>9 DEF Reject, Abandon, TypeOK
  <1>10. ASSUME NEW t \in Txn, Fail(t) PROVE TypeOK'
    <2>1. faults' \in 0..MaxFaults
      BY <1>10 DEF Fail, TypeOK
    <2> QED
      BY <1>10, <2>1 DEF Fail, Abandon, TypeOK
  <1>11. ASSUME Lapse PROVE TypeOK'
    <2>1. lapsed' \in 0..MaxReservations
      BY <1>11 DEF Lapse, TypeOK
    <2> QED
      BY <1>11, <2>1 DEF Lapse, TypeOK
  <1>12. ASSUME Crash PROVE TypeOK'
    <2>1. faults' \in 0..MaxFaults
      BY <1>12 DEF Crash, TypeOK
    <2> QED
      BY <1>12, <2>1 DEF Crash, TypeOK
  <1>13. CASE UNCHANGED vars
    BY <1>13 DEF vars, TypeOK
  <1> QED
    BY <1>1, <1>2, <1>3, <1>4, <1>5, <1>6, <1>7, <1>8, <1>9, <1>10, <1>11, <1>12,
       <1>13 DEF Next, Request

\* The inductive invariant behind every theorem: one step per action.
LEMMA NextControl == ControlInv /\ [Next]_vars => ControlInv'
  <1> SUFFICES ASSUME ControlInv, [Next]_vars PROVE ControlInv'
    OBVIOUS
  <1>0. TypeOK'
    BY NextType
  <1> USE InventoryAssumption, <1>0 DEF ControlInv
  <1>1. ASSUME NEW s \in Sku, NEW units \in 0..MaxOnHand, RegisterStock(s, units)
        PROVE  ControlInv'
    <2>2. LockInv'
      BY <1>1 DEF RegisterStock, LockInv, Exists, TypeOK
    <2>3. TransitionInv'
      BY <1>1 DEF RegisterStock, TransitionInv, Exists, TypeOK
    <2>4. ReserveInv'
      BY <1>1 DEF RegisterStock, ReserveInv, Exists, TypeOK, ReservationId
    <2>5. BatchInv'
      BY <1>1 DEF RegisterStock, BatchInv, Exists, TypeOK
    <2> QED
      BY <2>2, <2>3, <2>4, <2>5
  <1>2. ASSUME NEW t \in Client, NEW s \in Sku, NEW q \in Quantity,
               BeginReserve(t, s, q)
        PROVE  ControlInv'
    <2>2. LockInv'
      BY <1>2 DEF BeginReserve, Reading, LockInv, Exists, TypeOK, Txn
    <2>3. TransitionInv'
      BY <1>2 DEF BeginReserve, Reading, TransitionInv, Exists, TypeOK, Txn, Transitions
    <2>4. ReserveInv'
      BY <1>2 DEF BeginReserve, Reading, ReserveInv, Exists, TypeOK, Txn, Transitions, ReservationId
    <2>5. BatchInv'
      BY <1>2 DEF BeginReserve, Reading, BatchInv, Exists, TypeOK, Txn
    <2> QED
      BY <2>2, <2>3, <2>4, <2>5
  <1>3. ASSUME NEW t \in Client, NEW s \in Sku, NEW q \in Quantity,
               BeginRestock(t, s, q)
        PROVE  ControlInv'
    <2>2. LockInv'
      BY <1>3 DEF BeginRestock, Reading, LockInv, Exists, TypeOK, Txn
    <2>3. TransitionInv'
      BY <1>3 DEF BeginRestock, Reading, TransitionInv, Exists, TypeOK, Txn, Transitions
    <2>4. ReserveInv'
      BY <1>3 DEF BeginRestock, Reading, ReserveInv, Exists, TypeOK, Txn, Transitions, ReservationId
    <2>5. BatchInv'
      BY <1>3 DEF BeginRestock, Reading, BatchInv, Exists, TypeOK, Txn
    <2> QED
      BY <2>2, <2>3, <2>4, <2>5
  <1>4. ASSUME NEW t \in Client, NEW op \in Transitions \ {"expire"},
               NEW r \in ReservationId, BeginTransition(t, op, r)
        PROVE  ControlInv'
    <2>2. LockInv'
      BY <1>4 DEF BeginTransition, Reading, LockInv, Exists, TypeOK, Txn
    <2>3. TransitionInv'
      BY <1>4 DEF BeginTransition, Reading, TransitionInv, Exists, TypeOK, Txn, Transitions
    <2>4. ReserveInv'
      BY <1>4 DEF BeginTransition, Reading, ReserveInv, Exists, TypeOK, Txn, Transitions, ReservationId
    <2>5. BatchInv'
      BY <1>4 DEF BeginTransition, Reading, BatchInv, Exists, TypeOK, Txn
    <2> QED
      BY <2>2, <2>3, <2>4, <2>5
  <1>5. ASSUME ScanExpired PROVE ControlInv'
    <2>2. LockInv'
      BY <1>5 DEF ScanExpired, Oldest, Expired, LockInv, Exists, TypeOK
    <2>3. TransitionInv'
      BY <1>5 DEF ScanExpired, Oldest, Expired, TransitionInv, Exists, TypeOK
    <2>4. ReserveInv'
      BY <1>5 DEF ScanExpired, Oldest, Expired, ReserveInv, Exists, TypeOK, ReservationId
    <2>5. BatchInv'
      BY <1>5 DEF ScanExpired, Oldest, Expired, BatchInv, Exists, TypeOK
    <2> QED
      BY <2>2, <2>3, <2>4, <2>5
  <1>6. ASSUME BeginExpire PROVE ControlInv'
    <2>2. LockInv'
      BY <1>6 DEF BeginExpire, Reading, LockInv, Exists, TypeOK, Txn
    <2>3. TransitionInv'
      <3>1. PICK r \in batch :
              txn' = [txn EXCEPT ![Scanner] =
                         Reading("expire", r, reservation[r].sku,
                                 reservation[r].qty, "PENDING")]
        BY <1>6 DEF BeginExpire
      <3>2. r \in ReservationId /\ Exists(r)
        BY <3>1 DEF TypeOK, BatchInv
      <3>3. Verdict("expire", "PENDING") = "moved"
        BY DEF Verdict, ExpireVerdict
      <3> QED
        BY <1>6, <3>1, <3>2, <3>3 DEF BeginExpire, TransitionInv, Exists, Reading, TypeOK, Txn
    <2>4. ReserveInv'
      BY <1>6 DEF BeginExpire, Reading, ReserveInv, Exists, TypeOK, Txn, Transitions, ReservationId
    <2>5. BatchInv'
      BY <1>6 DEF BeginExpire, Reading, BatchInv, Exists, TypeOK, Txn
    <2> QED
      BY <2>2, <2>3, <2>4, <2>5
  <1>7. ASSUME NEW t \in Txn, LockRow(t)
        PROVE  ControlInv'
    <2>2. LockInv'
      BY <1>7 DEF LockRow, Locked, LockInv, Exists, TypeOK
    <2>3. TransitionInv'
      BY <1>7 DEF LockRow, Locked, TransitionInv, Exists, TypeOK
    <2>4. ReserveInv'
      BY <1>7 DEF LockRow, Locked, ReserveInv, Exists, TypeOK, ReservationId
    <2>5. BatchInv'
      BY <1>7 DEF LockRow, Locked, BatchInv, Exists, TypeOK
    <2> QED
      BY <2>2, <2>3, <2>4, <2>5
  <1>8. ASSUME NEW t \in Txn, Commit(t)
        PROVE  ControlInv'
    <2> DEFINE x == txn[t]
    <2>a. /\ x.pc = "locked" /\ x.op \in StockOperations /\ x.sku \in Sku
          /\ x.qty \in Quantity
      BY <1>8, FlightFields DEF Commit
    <2>b. \A u \in Txn : txn'[u].pc # "idle" => u # t /\ txn'[u] = txn[u]
      BY <1>8 DEF Commit, TypeOK, Idle
    <2>c. \A r \in ReservationId : Exists(r) =>
            /\ Exists(r)'
            /\ reservation'[r].sku = reservation[r].sku
            /\ reservation'[r].qty = reservation[r].qty
            /\ reservation[r].status # "PENDING" => reservation'[r].status # "PENDING"
      <3> SUFFICES ASSUME NEW r \in ReservationId, Exists(r)
                   PROVE  /\ Exists(r)'
                          /\ reservation'[r].sku = reservation[r].sku
                          /\ reservation'[r].qty = reservation[r].qty
                          /\ reservation[r].status # "PENDING"
                                => reservation'[r].status # "PENDING"
        OBVIOUS
      <3>1. CASE x.op \in Transitions /\ r = x.res
        <4>1. reservation'[r] = Reservation(Target(x.op), reservation[r].sku,
                                            reservation[r].qty)
          BY <1>8, <3>1 DEF Commit, Saved, TypeOK, Transitions
        <4>2. Target(x.op) # "PENDING"
          BY DEF Target
        <4> QED
          BY <4>1, <4>2, TargetStatus, ExistingRow, ReservationType DEF Exists
      <3>2. CASE ~(x.op \in Transitions /\ r = x.res)
        <4>1. x.op = "reserve" => x.res # r
          BY <2>a DEF ReserveInv
        <4> QED
          BY <1>8, <3>2, <4>1 DEF Commit, Saved, TypeOK, Exists
      <3> QED
        BY <3>1, <3>2
    <2>d. \A r \in ReservationId : ~Exists(r) =>
            ~Exists(r)' \/ (x.op = "reserve" /\ r = x.res)
      <3>1. x.op \in Transitions => Exists(x.res)
        BY <2>a DEF TransitionInv
      <3> QED
        BY <1>8, <3>1 DEF Commit, Saved, TypeOK, Exists
    <2>2. LockInv'
      BY <1>8, <2>a, <2>b DEF Commit, LockInv, TypeOK
    <2>3. TransitionInv'
      BY <2>b, <2>c DEF TransitionInv
    <2>4. ReserveInv'
      <3>1. \A u \in Txn :
              txn'[u].pc # "idle" /\ txn'[u].op = "reserve" => ~(Exists(txn[u].res)')
        BY <2>a, <2>b, <2>d DEF ReserveInv
      <3>2. \A r \in ReservationId : nextId' <= r => ~Exists(r)'
        <4>1. nextId' = nextId /\ nextId \in Nat
          BY <1>8 DEF Commit, TypeOK
        <4>2. x.op = "reserve" => x.res < nextId /\ x.res \in ReservationId
          BY <2>a DEF ReserveInv
        <4> QED
          BY <2>d, <4>1, <4>2 DEF ReserveInv, ReservationId
      <3>3. nextId' = nextId
        BY <1>8 DEF Commit
      <3> QED
        BY <2>b, <3>1, <3>2, <3>3 DEF ReserveInv
    <2>5. BatchInv'
      BY <1>8, <2>c DEF Commit, BatchInv, TypeOK
    <2> QED
      BY <2>2, <2>3, <2>4, <2>5
  <1>9. ASSUME NEW t \in Txn, Reject(t)
        PROVE  ControlInv'
    <2>2. LockInv'
      BY <1>9 DEF Reject, Abandon, Idle, LockInv, Exists, TypeOK
    <2>3. TransitionInv'
      BY <1>9 DEF Reject, Abandon, Idle, TransitionInv, Exists, TypeOK
    <2>4. ReserveInv'
      BY <1>9 DEF Reject, Abandon, Idle, ReserveInv, Exists, TypeOK, ReservationId
    <2>5. BatchInv'
      BY <1>9 DEF Reject, Abandon, Idle, BatchInv, Exists, TypeOK
    <2> QED
      BY <2>2, <2>3, <2>4, <2>5
  <1>10. ASSUME NEW t \in Txn, Fail(t)
        PROVE  ControlInv'
    <2>2. LockInv'
      BY <1>10 DEF Fail, Abandon, Idle, LockInv, Exists, TypeOK
    <2>3. TransitionInv'
      BY <1>10 DEF Fail, Abandon, Idle, TransitionInv, Exists, TypeOK
    <2>4. ReserveInv'
      BY <1>10 DEF Fail, Abandon, Idle, ReserveInv, Exists, TypeOK, ReservationId
    <2>5. BatchInv'
      BY <1>10 DEF Fail, Abandon, Idle, BatchInv, Exists, TypeOK
    <2> QED
      BY <2>2, <2>3, <2>4, <2>5
  <1>11. ASSUME Lapse PROVE ControlInv'
    <2>2. LockInv'
      BY <1>11 DEF Lapse, LockInv, Exists, TypeOK
    <2>3. TransitionInv'
      BY <1>11 DEF Lapse, TransitionInv, Exists, TypeOK
    <2>4. ReserveInv'
      BY <1>11 DEF Lapse, ReserveInv, Exists, TypeOK, ReservationId
    <2>5. BatchInv'
      BY <1>11 DEF Lapse, BatchInv, Exists, TypeOK
    <2> QED
      BY <2>2, <2>3, <2>4, <2>5
  <1>12. ASSUME Crash PROVE ControlInv'
    <2>2. LockInv'
      BY <1>12 DEF Crash, Idle, LockInv, Exists, TypeOK
    <2>3. TransitionInv'
      BY <1>12 DEF Crash, Idle, TransitionInv, Exists, TypeOK
    <2>4. ReserveInv'
      BY <1>12 DEF Crash, Idle, ReserveInv, Exists, TypeOK, ReservationId
    <2>5. BatchInv'
      BY <1>12 DEF Crash, Idle, BatchInv, Exists, TypeOK
    <2> QED
      BY <2>2, <2>3, <2>4, <2>5
  <1>13. CASE UNCHANGED vars
    BY <1>13 DEF vars, LockInv, TransitionInv, ReserveInv, BatchInv, Exists
  <1> QED
    BY <1>1, <1>2, <1>3, <1>4, <1>5, <1>6, <1>7, <1>8, <1>9, <1>10, <1>11, <1>12,
       <1>13 DEF Next, Request

-----------------------------------------------------------------------------
(* The counters of a row.                                                   *)

\* A commit applies an accepted change to the counters committed last.
LEMMA CommitStock ==
    ASSUME ControlInv, NEW t \in Txn, Commit(t)
    PROVE  /\ txn[t].op \in StockOperations
           /\ txn[t].sku \in registered
           /\ txn[t].sku \in Sku
           /\ txn[t].qty \in Quantity
           /\ ChangeAccepted(txn[t].op, stock[txn[t].sku], txn[t].qty)
           /\ stock' = [stock EXCEPT ![txn[t].sku] =
                            Changed(txn[t].op, stock[txn[t].sku], txn[t].qty)]
           /\ registered' = registered
  <1>1. txn[t].pc = "locked" /\ txn[t].row = stock[txn[t].sku] /\ txn[t].sku \in registered
    BY DEF Commit, ControlInv, LockInv
  <1> QED
    BY <1>1, FlightFields DEF Commit, ControlInv

\* Only a registration and a commit write stock_items or reservations.
LEMMA StockWriters ==
    ASSUME [Next]_vars
    PROVE  \/ \E s \in Sku, units \in 0..MaxOnHand : RegisterStock(s, units)
           \/ \E t \in Txn : Commit(t)
           \/ UNCHANGED <<registered, stock, reservation, received, overwritten>>
  BY DEF Next, Request, BeginReserve, BeginRestock, BeginTransition, ScanExpired,
         BeginExpire, LockRow, Reject, Fail, Abandon, Lapse, Crash, vars

\* No step makes a row promise more units than it has.
LEMMA NextBounds == ControlInv /\ StockBounds /\ [Next]_vars => StockBounds'
  <1> SUFFICES ASSUME ControlInv, StockBounds, [Next]_vars PROVE StockBounds'
    OBVIOUS
  <1> USE DEF StockBounds
  <1>1. ASSUME NEW s \in Sku, NEW units \in 0..MaxOnHand, RegisterStock(s, units)
        PROVE  StockBounds'
    <2>1. NewRow(units).reserved <= NewRow(units).onHand
      BY InventoryAssumption DEF NewRow, Counters
    <2> QED
      BY <1>1, <2>1 DEF RegisterStock, ControlInv, TypeOK
  <1>2. ASSUME NEW t \in Txn, Commit(t) PROVE StockBounds'
    <2> DEFINE row == stock[txn[t].sku]
               after == Changed(txn[t].op, row, txn[t].qty)
    <2>1. /\ txn[t].sku \in Sku
          /\ stock' = [stock EXCEPT ![txn[t].sku] = after]
      BY <1>2, CommitStock
    <2>2. after.reserved <= after.onHand
      BY <1>2, CommitStock, ChangedStock DEF ControlInv, TypeOK
    <2> QED
      BY <2>1, <2>2 DEF ControlInv, TypeOK
  <1>3. CASE UNCHANGED <<registered, stock, reservation, received, overwritten>>
    BY <1>3
  <1> QED
    BY <1>1, <1>2, <1>3, StockWriters

\* An empty row promises nothing.
LEMMA InitBounds == Init => StockBounds
  BY DEF Init, StockBounds, NewRow, Counters

-----------------------------------------------------------------------------
(* Theorems of the specification.                                           *)

\* No step ever takes a variable out of its type; no counter goes below zero.
THEOREM TypeCorrect == Spec => []TypeOK
  <1>1. ControlInv => TypeOK
    BY DEF ControlInv
  <1> QED
    BY InitControl, NextControl, <1>1, PTL DEF Spec

\* A row is only written by the transaction that holds its lock, on the
\* counters it read under that lock, for the row it judged.
THEOREM ControlCorrect == Spec => []ControlInv
  BY InitControl, NextControl, PTL DEF Spec

\* reserved never exceeds onHand: rehydrate() never throws CorruptedStockError.
THEOREM NeverOversold == Spec => []StockBounds
  <1>1. Init => ControlInv /\ StockBounds
    BY InitControl, InitBounds
  <1>2. ControlInv /\ StockBounds /\ [Next]_vars => (ControlInv /\ StockBounds)'
    BY NextControl, NextBounds
  <1> QED
    BY <1>1, <1>2, PTL DEF Spec

\* The ledger speaks of the same domain rules.
LEMMA SameRules ==
    /\ \A units : Ledger!NewRow(units) = NewRow(units)
    /\ Ledger!StockOperations = StockOperations
    /\ \A op, row, q : /\ Ledger!ChangeAccepted(op, row, q) = ChangeAccepted(op, row, q)
                       /\ Ledger!Changed(op, row, q) = Changed(op, row, q)
  <1>1. \A units : Ledger!NewRow(units) = NewRow(units)
    BY DEF Ledger!NewRow, NewRow, Ledger!Counters, Counters
  <1>2. Ledger!StockOperations = StockOperations
    BY DEF Ledger!StockOperations, StockOperations, Ledger!Transitions, Transitions
  <1>3. \A op, row, q : Ledger!ChangeAccepted(op, row, q) = ChangeAccepted(op, row, q)
    BY DEF Ledger!ChangeAccepted, ChangeAccepted, Ledger!Rehydratable, Rehydratable,
           Ledger!CanReserve, CanReserve, Ledger!Available, Available,
           Ledger!ReservedCovers, ReservedCovers
  <1>4. \A op, row, q : Ledger!Changed(op, row, q) = Changed(op, row, q)
    BY DEF Ledger!Changed, Changed, Ledger!Counters, Counters,
           Ledger!AfterReserve, AfterReserve, Ledger!AfterConfirm, AfterConfirm,
           Ledger!AfterRelease, AfterRelease, Ledger!AfterRestore, AfterRestore,
           Ledger!AfterRestock, AfterRestock
  <1> QED
    BY <1>1, <1>2, <1>3, <1>4

\* The pessimistic adapter keeps what the StockRepository port promises.
THEOREM ImplementsLedger == Spec => LedgerSpec
  <1>1. Init => Ledger!Init
    BY SameRules DEF Init, Ledger!Init
  <1>2. ControlInv /\ [Next]_vars => [Ledger!Next]_<<registered, stock>>
    <2> SUFFICES ASSUME ControlInv, [Next]_vars
                 PROVE  [Ledger!Next]_<<registered, stock>>
      OBVIOUS
    <2>1. ASSUME NEW s \in Sku, NEW units \in 0..MaxOnHand, RegisterStock(s, units)
          PROVE  Ledger!Next
      BY <2>1, SameRules DEF RegisterStock, Ledger!Next, Ledger!Register
    <2>2. ASSUME NEW t \in Txn, Commit(t) PROVE Ledger!Next
      <3>1. Ledger!Mutate(txn[t].sku)
        BY <2>2, CommitStock, SameRules DEF Ledger!Mutate
      <3> QED
        BY <2>2, <3>1, CommitStock DEF Ledger!Next
    <2> QED
      BY <2>1, <2>2, StockWriters
  <1> QED
    BY <1>1, <1>2, InitControl, NextControl, PTL DEF Spec, LedgerSpec, Ledger!Spec

-----------------------------------------------------------------------------
(* The units of a SKU are conserved: the counters of stock_items against    *)
(* the rows of reservations.  What holds of a step is shown above; here the *)
(* units are counted.                                                       *)

Counts(row, status, s) == row.status = status /\ row.sku = s

\* The units one reservation stands for.
UnitsOfOne(r, q) == {r} \X (1..q)

\* The units of the rows of a SKU can be counted.
LEMMA UnitsFinite ==
    \A rows, status, s : /\ IsFiniteSet(UnitsOf(rows, status, s))
                         /\ Cardinality(UnitsOf(rows, status, s)) \in Nat
  <1> SUFFICES ASSUME NEW rows, NEW status, NEW s
               PROVE  /\ IsFiniteSet(UnitsOf(rows, status, s))
                      /\ Cardinality(UnitsOf(rows, status, s)) \in Nat
    OBVIOUS
  <1>1. IsFiniteSet(ReservationId) /\ IsFiniteSet(Quantity)
    BY FS_Interval, InventoryAssumption DEF ReservationId, Quantity
  <1>2. IsFiniteSet(ReservationId \X Quantity)
    BY <1>1, FS_Product
  <1>3. UnitsOf(rows, status, s) \subseteq ReservationId \X Quantity
    BY DEF UnitsOf
  <1> QED
    BY <1>2, <1>3, FS_Subset, FS_CardinalityType

\* One reservation counts as many units as its quantity.
LEMMA OneSize ==
    ASSUME NEW r, NEW q \in Quantity
    PROVE  /\ IsFiniteSet(UnitsOfOne(r, q))
           /\ Cardinality(UnitsOfOne(r, q)) = q
  <1>1. q \in Nat /\ q >= 1
    BY InventoryAssumption DEF Quantity
  <1>2. IsFiniteSet(1..q) /\ Cardinality(1..q) = q
    BY <1>1, FS_Interval
  <1>3. IsFiniteSet({r}) /\ Cardinality({r}) = 1
    BY FS_Singleton
  <1> QED
    BY <1>1, <1>2, <1>3, FS_Product DEF UnitsOfOne

\* Row r begins to count, the other rows being as before.
Gains(before, after, status, s, r, q) ==
    /\ r \in ReservationId
    /\ q \in Quantity
    /\ \A o \in ReservationId : o # r => after[o] = before[o]
    /\ ~Counts(before[r], status, s)
    /\ Counts(after[r], status, s)
    /\ after[r].qty = q

\* A row that begins to count adds its units.
LEMMA UnitsGained ==
    ASSUME NEW before, NEW after, NEW status, NEW s, NEW r, NEW q,
           Gains(before, after, status, s, r, q)
    PROVE  Cardinality(UnitsOf(after, status, s))
              = Cardinality(UnitsOf(before, status, s)) + q
  <1> USE DEF Gains
  <1> DEFINE B == UnitsOf(before, status, s)
             A == UnitsOf(after, status, s)
             O == UnitsOfOne(r, q)
  <1>1. A = B \cup O
    <2>1. ASSUME NEW u \in A PROVE u \in B \cup O
      <3>1. CASE u[1] = r
        <4>1. u = <<u[1], u[2]>> /\ u[2] \in 1..q
          BY <2>1, <3>1 DEF UnitsOf, Quantity
        <4> QED
          BY <3>1, <4>1 DEF UnitsOfOne
      <3>2. CASE u[1] # r
        BY <2>1, <3>2 DEF UnitsOf
      <3> QED
        BY <3>1, <3>2
    <2>2. ASSUME NEW u \in B PROVE u \in A
      <3>1. u[1] # r
        BY <2>2 DEF UnitsOf, Counts
      <3> QED
        BY <2>2, <3>1 DEF UnitsOf
    <2>3. ASSUME NEW u \in O PROVE u \in A
      <3>1. u[1] = r /\ u[2] \in 1..q /\ u = <<u[1], u[2]>>
        BY <2>3 DEF UnitsOfOne
      <3>2. u[2] \in Quantity /\ u[2] <= q
        BY <3>1, InventoryAssumption DEF Quantity
      <3>3. u \in ReservationId \X Quantity
        BY <3>1, <3>2
      <3>4. /\ after[u[1]].status = status
            /\ after[u[1]].sku = s
            /\ u[2] <= after[u[1]].qty
        BY <3>1, <3>2 DEF Counts
      <3> QED
        BY <3>3, <3>4 DEF UnitsOf
    <2> QED
      BY <2>1, <2>2, <2>3
  <1>2. B \cap O = {}
    BY DEF UnitsOf, UnitsOfOne, Counts
  <1>3. IsFiniteSet(B) /\ IsFiniteSet(O) /\ Cardinality(O) = q /\ Cardinality(B) \in Nat
    BY UnitsFinite, OneSize
  <1>4. Cardinality(B \cup O)
          = Cardinality(B) + Cardinality(O) - Cardinality(B \cap O)
    BY <1>3, FS_Union
  <1>5. Cardinality(B \cap O) = 0
    BY <1>2, FS_EmptySet
  <1> QED
    BY <1>1, <1>3, <1>4, <1>5 DEF Quantity

\* Rows that count the same before and after leave the units as they are.
LEMMA UnitsKept ==
    ASSUME NEW before, NEW after, NEW status, NEW s,
           \A o \in ReservationId :
              /\ Counts(before[o], status, s) <=> Counts(after[o], status, s)
              /\ Counts(after[o], status, s) => before[o].qty = after[o].qty
    PROVE  UnitsOf(after, status, s) = UnitsOf(before, status, s)
  BY DEF UnitsOf, Counts

-----------------------------------------------------------------------------
(* What a commit does to the rows.                                          *)

\* A committed reserve adds its PENDING row.
LEMMA CommitReserve ==
    ASSUME ControlInv, NEW t \in Txn, Commit(t), txn[t].op = "reserve"
    PROVE  /\ txn[t].res \in ReservationId
           /\ reservation[txn[t].res].status = "absent"
           /\ reservation' = [reservation EXCEPT ![txn[t].res] =
                 Reservation("PENDING", txn[t].sku, txn[t].qty)]
           /\ overwritten' = overwritten
           /\ received' = received
  BY DEF Commit, Saved, ControlInv, ReserveInv, Exists, Transitions

\* A committed transition writes its target over what its row says now.
LEMMA CommitTransition ==
    ASSUME ControlInv, NEW t \in Txn, Commit(t), txn[t].op \in Transitions
    PROVE  /\ txn[t].res \in ReservationId
           /\ Exists(txn[t].res)
           /\ reservation[txn[t].res].sku = txn[t].sku
           /\ reservation[txn[t].res].qty = txn[t].qty
           /\ Verdict(txn[t].op, txn[t].seen) = "moved"
           /\ reservation' = [reservation EXCEPT ![txn[t].res] =
                 Reservation(Target(txn[t].op), txn[t].sku, txn[t].qty)]
           /\ overwritten' = IF reservation[txn[t].res].status # txn[t].seen
                             THEN overwritten \cup {txn[t].res} ELSE overwritten
           /\ received' = received
  <1>1. txn[t].op # "reserve" /\ txn[t].op # "restock"
    BY DEF Transitions
  <1>2. /\ txn[t].res \in ReservationId
        /\ Exists(txn[t].res)
        /\ reservation[txn[t].res].sku = txn[t].sku
        /\ reservation[txn[t].res].qty = txn[t].qty
        /\ Verdict(txn[t].op, txn[t].seen) = "moved"
    BY DEF Commit, ControlInv, TransitionInv
  <1>3. reservation' = [reservation EXCEPT ![txn[t].res] =
                 Reservation(Target(txn[t].op), txn[t].sku, txn[t].qty)]
    BY <1>1, <1>2 DEF Commit, Saved, ControlInv, TypeOK
  <1> QED
    BY <1>1, <1>2, <1>3 DEF Commit

\* A committed restock touches no row.
LEMMA CommitRestock ==
    ASSUME ControlInv, NEW t \in Txn, Commit(t), txn[t].op = "restock"
    PROVE  /\ reservation' = reservation
           /\ overwritten' = overwritten
           /\ received' = [received EXCEPT ![txn[t].sku] = @ + txn[t].qty]
  BY DEF Commit, Saved, Transitions

\* The statuses a transition that moves starts from and leaves behind.
LEMMA Moves ==
    ASSUME NEW op \in Transitions, NEW seen, Verdict(op, seen) = "moved"
    PROVE  /\ op = "confirm" => seen = "PENDING" /\ Target(op) = "CONFIRMED"
           /\ op = "release" => seen = "PENDING" /\ Target(op) = "RELEASED"
           /\ op = "expire" => seen = "PENDING" /\ Target(op) = "EXPIRED"
           /\ op = "restore" => seen = "CONFIRMED" /\ Target(op) = "RESTORED"
           /\ Target(op) # "PENDING"
  BY DEF Transitions, Verdict, ConfirmVerdict, ReleaseVerdict, ExpireVerdict,
         RestoreVerdict, Target

\* A transition takes the units of its row out of the status it replaces and
\* into the status it writes, and touches no other SKU.
LEMMA TransitionUnits ==
    ASSUME ControlInv, NEW t \in Txn, Commit(t), txn[t].op \in Transitions,
           NEW status \in ReservationStatus, NEW s \in Sku
    PROVE  LET here == Cardinality(UnitsOf(reservation, status, s))
               next == Cardinality(UnitsOf(reservation', status, s))
               from == reservation[txn[t].res].status
               to == Target(txn[t].op)
           IN  /\ s # txn[t].sku \/ (from = status <=> to = status) => next = here
               /\ s = txn[t].sku /\ from = status /\ to # status => here = next + txn[t].qty
               /\ s = txn[t].sku /\ from # status /\ to = status => next = here + txn[t].qty
  <1> DEFINE r == txn[t].res
             q == txn[t].qty
             from == reservation[r].status
             to == Target(txn[t].op)
  <1>1. /\ r \in ReservationId
        /\ reservation[r].sku = txn[t].sku
        /\ reservation[r].qty = q
        /\ reservation' = [reservation EXCEPT ![r] = Reservation(to, txn[t].sku, q)]
    BY CommitTransition
  <1>2. q \in Quantity
    BY CommitStock
  <1>3. /\ reservation'[r].status = to
        /\ reservation'[r].sku = txn[t].sku
        /\ reservation'[r].qty = q
        /\ \A o \in ReservationId : o # r => reservation'[o] = reservation[o]
    BY <1>1 DEF Reservation, ControlInv, TypeOK
  <1>4. ASSUME s # txn[t].sku \/ (from = status <=> to = status)
        PROVE  UnitsOf(reservation', status, s) = UnitsOf(reservation, status, s)
    <2>1. ASSUME NEW o \in ReservationId
          PROVE  /\ Counts(reservation[o], status, s) <=> Counts(reservation'[o], status, s)
                 /\ Counts(reservation'[o], status, s) => reservation[o].qty = reservation'[o].qty
      BY <1>1, <1>3, <1>4 DEF Counts
    <2> QED
      BY <2>1, UnitsKept
  <1>5. ASSUME s = txn[t].sku, from = status, to # status
        PROVE  Cardinality(UnitsOf(reservation, status, s))
                  = Cardinality(UnitsOf(reservation', status, s)) + q
    <2>1. Gains(reservation', reservation, status, s, r, q)
      BY <1>1, <1>2, <1>3, <1>5 DEF Gains, Counts
    <2> QED
      BY <2>1, UnitsGained
  <1>6. ASSUME s = txn[t].sku, from # status, to = status
        PROVE  Cardinality(UnitsOf(reservation', status, s))
                  = Cardinality(UnitsOf(reservation, status, s)) + q
    <2>1. Gains(reservation, reservation', status, s, r, q)
      BY <1>1, <1>2, <1>3, <1>6 DEF Gains, Counts
    <2> QED
      BY <2>1, UnitsGained
  <1> QED
    BY <1>4, <1>5, <1>6

-----------------------------------------------------------------------------
(* The inductive invariant of the units.                                    *)

\* Units can only be reserved of a registered SKU, and only rows are raced.
RowsInv ==
    /\ \A r \in ReservationId : Exists(r) => reservation[r].sku \in registered
    /\ \A r \in overwritten : Exists(r)

UnitsInv ==
    /\ RowsInv
    /\ ReservedMatchesPending
    /\ OnHandMatchesConfirmed
    /\ NoStrandedUnits

\* Without rows there are no units.
LEMMA NoRowNoUnits ==
    ASSUME TypeOK, NEW s \in Sku, NEW status \in ReservationStatus,
           \A r \in ReservationId : Exists(r) => reservation[r].sku # s
    PROVE  Cardinality(UnitsOf(reservation, status, s)) = 0
  <1>1. UnitsOf(reservation, status, s) = {}
    BY DEF UnitsOf, Exists, ReservationStatus
  <1> QED
    BY <1>1, FS_EmptySet

\* An empty database is balanced.
LEMMA InitUnits == Init => UnitsInv
  <1> SUFFICES ASSUME Init PROVE UnitsInv
    OBVIOUS
  <1>1. \A r \in ReservationId : ~Exists(r)
    BY DEF Init, Exists, AbsentReservation
  <1>2. \A s \in Sku : PendingUnits(s) = 0 /\ ConfirmedUnits(s) = 0
    BY <1>1, InitControl, NoRowNoUnits
    DEF ControlInv, PendingUnits, ConfirmedUnits, ReservationStatus
  <1>3. \A s \in Sku : stock[s].onHand = 0 /\ stock[s].reserved = 0 /\ received[s] = 0
    BY DEF Init, NewRow, Counters
  <1>4. RowsInv
    BY <1>1 DEF Init, RowsInv
  <1> QED
    BY <1>2, <1>3, <1>4
    DEF UnitsInv, ReservedMatchesPending, OnHandMatchesConfirmed, NoStrandedUnits

\* What the three conjuncts about units say of one SKU.
Balanced(s) ==
    /\ ~Raced(s) => stock[s].reserved = PendingUnits(s)
    /\ ~Raced(s) => stock[s].onHand + ConfirmedUnits(s) = received[s]
    /\ stock[s].reserved <= PendingUnits(s)

\* The invariant of the units, one SKU at a time.
LEMMA UnitsBySku == UnitsInv <=> RowsInv /\ \A s \in Sku : Balanced(s)
  BY DEF UnitsInv, Balanced, ReservedMatchesPending, OnHandMatchesConfirmed, NoStrandedUnits

\* Registering a SKU keeps every SKU balanced.
LEMMA UnitsRegister ==
    ASSUME ControlInv, UnitsInv, NEW s \in Sku, NEW units \in 0..MaxOnHand,
           RegisterStock(s, units)
    PROVE  UnitsInv'
  <1>1. RowsInv'
    BY DEF RegisterStock, UnitsInv, RowsInv, Exists
  <1>2. ASSUME NEW z \in Sku, z # s PROVE Balanced(z)'
    <2>1. Balanced(z)
      BY UnitsBySku
    <2>2. stock'[z] = stock[z] /\ received'[z] = received[z]
      BY <1>2 DEF RegisterStock, ControlInv, TypeOK
    <2>3. reservation' = reservation /\ overwritten' = overwritten
      BY DEF RegisterStock
    <2> QED
      BY <2>1, <2>2, <2>3 DEF Balanced, Raced, PendingUnits, ConfirmedUnits
  <1>3. Balanced(s)'
    <2>1. \A r \in ReservationId : Exists(r) => reservation[r].sku # s
      BY DEF RegisterStock, UnitsInv, RowsInv
    <2>2. PendingUnits(s) = 0 /\ ConfirmedUnits(s) = 0
      BY <2>1, NoRowNoUnits DEF ControlInv, PendingUnits, ConfirmedUnits, ReservationStatus
    <2>3. PendingUnits(s)' = 0 /\ ConfirmedUnits(s)' = 0
      BY <2>2 DEF RegisterStock, PendingUnits, ConfirmedUnits
    <2>4. stock'[s].onHand = units /\ stock'[s].reserved = 0 /\ received'[s] = units
      BY DEF RegisterStock, NewRow, Counters, ControlInv, TypeOK
    <2> QED
      BY <2>3, <2>4, InventoryAssumption DEF Balanced
  <1> QED
    BY <1>1, <1>2, <1>3
    DEF UnitsInv, Balanced, ReservedMatchesPending, OnHandMatchesConfirmed,
         NoStrandedUnits

\* What a commit does to the counters of the SKU it is about.
LEMMA CommitCounters ==
    ASSUME ControlInv, NEW t \in Txn, Commit(t)
    PROVE  LET x == txn[t]
               before == stock[x.sku]
               after == stock'[x.sku]
           IN  /\ x.op = "reserve" => /\ after.reserved = before.reserved + x.qty
                                      /\ after.onHand = before.onHand
               /\ x.op = "confirm" => /\ after.reserved = before.reserved - x.qty
                                      /\ after.onHand = before.onHand - x.qty
               /\ x.op \in {"release", "expire"} =>
                                      /\ after.reserved = before.reserved - x.qty
                                      /\ after.onHand = before.onHand
               /\ x.op \in {"restore", "restock"} =>
                                      /\ after.reserved = before.reserved
                                      /\ after.onHand = before.onHand + x.qty
  <1> DEFINE x == txn[t]
  <1>1. /\ x.sku \in Sku
        /\ stock' = [stock EXCEPT ![x.sku] = Changed(x.op, stock[x.sku], x.qty)]
    BY CommitStock
  <1>2. stock'[x.sku] = Changed(x.op, stock[x.sku], x.qty)
    BY <1>1 DEF ControlInv, TypeOK
  <1> QED
    BY <1>2 DEF Changed, Counters, AfterReserve, AfterConfirm, AfterRelease,
                AfterRestore, AfterRestock

\* So does every commit: this is where the rows and the counters meet.
LEMMA UnitsCommit ==
    ASSUME ControlInv, UnitsInv, NEW t \in Txn, Commit(t)
    PROVE  UnitsInv'
  <1> DEFINE x == txn[t]
             z == txn[t].sku
             q == txn[t].qty
             r == txn[t].res
  <1>1. /\ x.op \in StockOperations /\ z \in Sku /\ z \in registered /\ q \in Quantity
        /\ registered' = registered
    BY CommitStock
  <1>2. q \in Nat
    BY <1>1, InventoryAssumption DEF Quantity
  <1>3. RowsInv'
    <2>1. CASE x.op = "reserve"
      <3>1. /\ r \in ReservationId
            /\ reservation' = [reservation EXCEPT ![r] = Reservation("PENDING", z, q)]
            /\ overwritten' = overwritten
        BY <2>1, CommitReserve
      <3> QED
        BY <1>1, <3>1 DEF UnitsInv, RowsInv, Exists, Reservation, ControlInv, TypeOK
    <2>2. CASE x.op \in Transitions
      <3>1. /\ r \in ReservationId
            /\ reservation' = [reservation EXCEPT ![r] = Reservation(Target(x.op), z, q)]
            /\ overwritten' \subseteq overwritten \cup {r}
        BY <2>2, CommitTransition
      <3>2. Target(x.op) # "absent"
        BY TargetStatus DEF ReservationStatus
      <3> QED
        BY <1>1, <3>1, <3>2 DEF UnitsInv, RowsInv, Exists, Reservation, ControlInv, TypeOK
    <2>3. CASE x.op = "restock"
      <3>1. reservation' = reservation /\ overwritten' = overwritten
        BY <2>3, CommitRestock
      <3> QED
        BY <1>1, <3>1 DEF UnitsInv, RowsInv, Exists
    <2> QED
      BY <1>1, <2>1, <2>2, <2>3 DEF StockOperations
  <1>4. \A s \in Sku : Raced(s) => Raced(s)'
    <2>1. \A o \in overwritten : /\ o \in overwritten'
                                 /\ reservation'[o].sku = reservation[o].sku
      <3>1. CASE x.op = "reserve"
        <4>1. /\ reservation[r].status = "absent"
              /\ reservation' = [reservation EXCEPT ![r] = Reservation("PENDING", z, q)]
              /\ overwritten' = overwritten
          BY <3>1, CommitReserve
        <4>2. r \notin overwritten
          BY <4>1 DEF UnitsInv, RowsInv, Exists
        <4> QED
          BY <4>1, <4>2 DEF ControlInv, TypeOK
      <3>2. CASE x.op \in Transitions
        <4>1. /\ reservation[r].sku = z
              /\ reservation' = [reservation EXCEPT ![r] = Reservation(Target(x.op), z, q)]
              /\ overwritten \subseteq overwritten'
          BY <3>2, CommitTransition
        <4> QED
          BY <4>1 DEF Reservation, ControlInv, TypeOK
      <3>3. CASE x.op = "restock"
        BY <3>3, CommitRestock
      <3> QED
        BY <1>1, <3>1, <3>2, <3>3 DEF StockOperations
    <2> QED
      BY <2>1 DEF Raced
  <1>5. \A s \in Sku : /\ PendingUnits(s) \in Nat /\ PendingUnits(s)' \in Nat
                       /\ ConfirmedUnits(s) \in Nat /\ ConfirmedUnits(s)' \in Nat
    BY UnitsFinite DEF PendingUnits, ConfirmedUnits
  <1>6. \A s \in Sku : /\ stock[s].onHand \in Nat /\ stock[s].reserved \in Nat
                       /\ received[s] \in Nat
    BY DEF ControlInv, TypeOK, StockRow
  <1>7. ASSUME NEW s \in Sku, s # z PROVE Balanced(s)'
    <2>1. stock'[s] = stock[s] /\ received'[s] = received[s]
      BY <1>1, <1>7 DEF Commit, ControlInv, TypeOK
    <2>2. PendingUnits(s)' = PendingUnits(s) /\ ConfirmedUnits(s)' = ConfirmedUnits(s)
      <3>1. CASE x.op = "reserve"
        <4>1. /\ reservation[r].status = "absent"
              /\ reservation' = [reservation EXCEPT ![r] = Reservation("PENDING", z, q)]
          BY <3>1, CommitReserve
        <4>2. ASSUME NEW status \in {"PENDING", "CONFIRMED"}
              PROVE  UnitsOf(reservation', status, s) = UnitsOf(reservation, status, s)
          <5>1. \A o \in ReservationId :
                  /\ Counts(reservation[o], status, s) <=> Counts(reservation'[o], status, s)
                  /\ Counts(reservation'[o], status, s)
                        => reservation[o].qty = reservation'[o].qty
            BY <1>7, <4>1, <4>2 DEF Counts, Reservation, ControlInv, TypeOK
          <5> QED
            BY <5>1, UnitsKept
        <4> QED
          BY <4>2 DEF PendingUnits, ConfirmedUnits
      <3>2. CASE x.op \in Transitions
        BY <1>7, <3>2, TransitionUnits DEF PendingUnits, ConfirmedUnits, ReservationStatus
      <3>3. CASE x.op = "restock"
        BY <3>3, CommitRestock DEF PendingUnits, ConfirmedUnits
      <3> QED
        BY <1>1, <3>1, <3>2, <3>3 DEF StockOperations
    <2> QED
      BY <1>4, <2>1, <2>2, UnitsBySku DEF Balanced
  <1>8. ASSUME NEW s \in Sku, s = z PROVE Balanced(s)'
    <2>1. Balanced(s) /\ (~Raced(s)' => ~Raced(s))
      BY <1>4, UnitsBySku
    <2>2. CASE x.op = "reserve"
      <3>1. /\ r \in ReservationId
            /\ reservation[r].status = "absent"
            /\ reservation' = [reservation EXCEPT ![r] = Reservation("PENDING", z, q)]
            /\ received' = received
        BY <2>2, CommitReserve
      <3>2. PendingUnits(s)' = PendingUnits(s) + q
        <4>1. Gains(reservation, reservation', "PENDING", s, r, q)
          BY <1>1, <1>8, <3>1 DEF Gains, Counts, Reservation, ControlInv, TypeOK
        <4> QED
          BY <4>1, UnitsGained DEF PendingUnits
      <3>3. ConfirmedUnits(s)' = ConfirmedUnits(s)
        <4>1. \A o \in ReservationId :
                /\ Counts(reservation[o], "CONFIRMED", s)
                      <=> Counts(reservation'[o], "CONFIRMED", s)
                /\ Counts(reservation'[o], "CONFIRMED", s)
                      => reservation[o].qty = reservation'[o].qty
          BY <3>1 DEF Counts, Reservation, ControlInv, TypeOK
        <4> QED
          BY <4>1, UnitsKept DEF ConfirmedUnits
      <3>4. /\ stock'[s].reserved = stock[s].reserved + q
            /\ stock'[s].onHand = stock[s].onHand
        BY <1>8, <2>2, CommitCounters
      <3> QED
        BY <1>2, <1>5, <1>6, <2>1, <3>1, <3>2, <3>3, <3>4 DEF Balanced
    <2>3. CASE x.op = "restock"
      <3>1. /\ PendingUnits(s)' = PendingUnits(s)
            /\ ConfirmedUnits(s)' = ConfirmedUnits(s)
        BY <2>3, CommitRestock DEF PendingUnits, ConfirmedUnits
      <3>2. received'[s] = received[s] + q
        BY <1>8, <2>3, CommitRestock DEF ControlInv, TypeOK
      <3>3. /\ stock'[s].reserved = stock[s].reserved
            /\ stock'[s].onHand = stock[s].onHand + q
        BY <1>8, <2>3, CommitCounters
      <3> QED
        BY <1>2, <1>5, <1>6, <2>1, <3>1, <3>2, <3>3 DEF Balanced
    <2>4. CASE x.op \in Transitions
      <3> DEFINE from == reservation[r].status
                 to == Target(x.op)
      <3>1. /\ received' = received
            /\ Verdict(x.op, x.seen) = "moved"
            /\ ~Raced(s)' => from = x.seen
        <4>1. /\ reservation'[r].sku = s
              /\ from # x.seen => r \in overwritten'
          <5>1. /\ r \in ReservationId
                /\ reservation' = [reservation EXCEPT ![r] = Reservation(to, z, q)]
                /\ overwritten' = IF from # x.seen THEN overwritten \cup {r} ELSE overwritten
            BY <2>4, CommitTransition
          <5>2. reservation'[r] = Reservation(to, z, q)
            BY <5>1 DEF ControlInv, TypeOK
          <5> QED
            BY <1>8, <5>1, <5>2 DEF Reservation
        <4> QED
          BY <2>4, <4>1, CommitTransition DEF Raced
      <3>2. to # "PENDING"
        BY <2>4, <3>1, Moves
      <3>3. /\ from = "PENDING" => PendingUnits(s) = PendingUnits(s)' + q
            /\ from # "PENDING" => PendingUnits(s)' = PendingUnits(s)
        BY <1>8, <2>4, <3>2, TransitionUnits DEF PendingUnits, ReservationStatus
      <3>4. /\ (from = "CONFIRMED" <=> to = "CONFIRMED")
                  => ConfirmedUnits(s)' = ConfirmedUnits(s)
            /\ from = "CONFIRMED" /\ to # "CONFIRMED"
                  => ConfirmedUnits(s) = ConfirmedUnits(s)' + q
            /\ from # "CONFIRMED" /\ to = "CONFIRMED"
                  => ConfirmedUnits(s)' = ConfirmedUnits(s) + q
        BY <1>8, <2>4, TransitionUnits DEF ConfirmedUnits, ReservationStatus
      <3>5. CASE x.op = "restore"
        <4>1. to = "RESTORED" /\ x.seen = "CONFIRMED"
          BY <2>4, <3>1, <3>5, Moves
        <4>2. /\ stock'[s].reserved = stock[s].reserved
              /\ stock'[s].onHand = stock[s].onHand + q
          BY <1>8, <3>5, CommitCounters
        <4>3. from # "PENDING"
          BY <2>4, <4>1 DEF Commit, ControlInv, TransitionInv
        <4> QED
          BY <1>2, <1>5, <1>6, <2>1, <3>1, <3>3, <3>4, <4>1, <4>2, <4>3 DEF Balanced
      <3>6. CASE x.op = "confirm"
        <4>1. to = "CONFIRMED" /\ x.seen = "PENDING"
          BY <2>4, <3>1, <3>6, Moves
        <4>2. /\ stock'[s].reserved = stock[s].reserved - q
              /\ stock'[s].onHand = stock[s].onHand - q
          BY <1>8, <3>6, CommitCounters
        <4> QED
          BY <1>2, <1>5, <1>6, <2>1, <3>1, <3>3, <3>4, <4>1, <4>2 DEF Balanced
      <3>7. CASE x.op \in {"release", "expire"}
        <4>1. to # "CONFIRMED" /\ x.seen = "PENDING"
          BY <2>4, <3>1, <3>7, Moves
        <4>2. /\ stock'[s].reserved = stock[s].reserved - q
              /\ stock'[s].onHand = stock[s].onHand
          BY <1>8, <3>7, CommitCounters
        <4> QED
          BY <1>2, <1>5, <1>6, <2>1, <3>1, <3>3, <3>4, <4>1, <4>2 DEF Balanced
      <3> QED
        BY <2>4, <3>5, <3>6, <3>7 DEF Transitions
    <2> QED
      BY <1>1, <2>2, <2>3, <2>4 DEF StockOperations
  <1> QED
    BY <1>3, <1>7, <1>8
    DEF UnitsInv, Balanced, ReservedMatchesPending, OnHandMatchesConfirmed,
         NoStrandedUnits

\* Every step keeps the units balanced.
LEMMA NextUnits == ControlInv /\ UnitsInv /\ [Next]_vars => UnitsInv'
  <1> SUFFICES ASSUME ControlInv, UnitsInv, [Next]_vars PROVE UnitsInv'
    OBVIOUS
  <1>1. CASE UNCHANGED <<registered, stock, reservation, received, overwritten>>
    BY <1>1 DEF UnitsInv, RowsInv, Exists, ReservedMatchesPending, OnHandMatchesConfirmed,
                NoStrandedUnits, Raced, PendingUnits, ConfirmedUnits
  <1> QED
    BY <1>1, UnitsRegister, UnitsCommit, StockWriters

-----------------------------------------------------------------------------
(* Announcements of expired reservations.                                   *)

\* Only the scheduler expires, and neither what it holds nor what is left of
\* its batch has been announced; what was announced is not PENDING any more.
ScanInv ==
    /\ \A t \in Txn :
        txn[t].pc # "idle" /\ txn[t].op = "expire" =>
            /\ t = Scanner
            /\ txn[t].seen = "PENDING"
            /\ announced[txn[t].res] = 0
            /\ txn[t].res \notin batch
    /\ \A r \in batch : announced[r] = 0
    /\ \A r \in ReservationId :
        announced[r] # 0 => Exists(r) /\ reservation[r].status # "PENDING"

AnnounceInv == ScanInv /\ ExpiryAnnounced

\* Nothing has been announced at first.
LEMMA InitAnnounce == Init => AnnounceInv
  BY DEF Init, AnnounceInv, ScanInv, ExpiryAnnounced, Idle, AbsentReservation, Exists

\* A commit announces an expiry, and no other transition, exactly once.
LEMMA AnnounceCommit ==
    ASSUME ControlInv, AnnounceInv, NEW t \in Txn, Commit(t)
    PROVE  AnnounceInv'
  <1> DEFINE x == txn[t]
             r == txn[t].res
  <1>1. x.op \in StockOperations
    BY CommitStock
  <1>2. \A u \in Txn : txn'[u].pc # "idle" => u # t /\ txn'[u] = txn[u]
    BY DEF Commit, ControlInv, TypeOK, Idle
  <1>3. batch' = batch /\ x.pc = "locked"
    BY DEF Commit
  <1>4. announced \in [ReservationId -> Nat]
    BY DEF ControlInv, TypeOK
  <1>5. CASE x.op = "reserve"
    <2>1. /\ r \in ReservationId
          /\ reservation[r].status = "absent"
          /\ reservation' = [reservation EXCEPT ![r] = Reservation("PENDING", x.sku, x.qty)]
          /\ overwritten' = overwritten
      BY <1>5, CommitReserve
    <2>2. announced' = announced
      BY <1>5 DEF Commit
    <2>3. reservation'[r].status = "PENDING" /\ announced[r] = 0
      BY <2>1 DEF Reservation, ControlInv, TypeOK, AnnounceInv, ScanInv, Exists
    <2>4. \A o \in ReservationId : o # r => reservation'[o] = reservation[o]
      BY <2>1 DEF ControlInv, TypeOK
    <2>5. ScanInv'
      BY <1>2, <1>3, <2>1, <2>2, <2>3, <2>4 DEF AnnounceInv, ScanInv, Exists
    <2>6. ExpiryAnnounced'
      BY <2>1, <2>2, <2>3, <2>4 DEF AnnounceInv, ExpiryAnnounced
    <2> QED
      BY <2>5, <2>6 DEF AnnounceInv
  <1>6. CASE x.op = "restock"
    <2>1. reservation' = reservation /\ overwritten' = overwritten
      BY <1>6, CommitRestock
    <2>2. announced' = announced
      BY <1>6 DEF Commit
    <2> QED
      BY <1>2, <1>3, <2>1, <2>2 DEF AnnounceInv, ScanInv, ExpiryAnnounced, Exists
  <1>7. CASE x.op \in Transitions
    <2> DEFINE from == reservation[r].status
               to == Target(x.op)
    <2>1. /\ r \in ReservationId
          /\ Exists(r)
          /\ Verdict(x.op, x.seen) = "moved"
          /\ reservation' = [reservation EXCEPT ![r] = Reservation(to, x.sku, x.qty)]
          /\ overwritten' = IF from # x.seen THEN overwritten \cup {r} ELSE overwritten
      BY <1>7, CommitTransition
    <2>2. reservation'[r].status = to /\ to # "PENDING" /\ to # "absent"
      <3>1. reservation'[r] = Reservation(to, x.sku, x.qty)
        BY <2>1 DEF ControlInv, TypeOK
      <3> QED
        BY <1>7, <2>1, <3>1, Moves, TargetStatus DEF Reservation, ReservationStatus
    <2>3. \A o \in ReservationId : o # r => reservation'[o] = reservation[o]
      BY <2>1 DEF ControlInv, TypeOK
    <2>4. \A o \in ReservationId : Exists(o) => Exists(o)'
      BY <2>2, <2>3 DEF Exists
    <2>5. CASE x.op = "expire"
      <3>1. announced' = [announced EXCEPT ![r] = announced[r] + 1]
        BY <2>5 DEF Commit
      <3>2. /\ t = Scanner /\ announced[r] = 0 /\ r \notin batch
            /\ x.seen = "PENDING" /\ to = "EXPIRED"
        BY <1>3, <1>7, <2>1, <2>5, Moves DEF AnnounceInv, ScanInv
      <3>3. announced'[r] = 1 /\ \A o \in ReservationId : o # r => announced'[o] = announced[o]
        BY <1>4, <2>1, <3>1, <3>2
      <3>4. ScanInv'
        <4>1. \A u \in Txn : ~(txn'[u].pc # "idle" /\ txn'[u].op = "expire")
          BY <1>2, <3>2 DEF AnnounceInv, ScanInv
        <4>2. \A o \in batch' : announced'[o] = 0
          BY <1>3, <3>2, <3>3 DEF AnnounceInv, ScanInv, ControlInv, TypeOK
        <4>3. \A o \in ReservationId :
                announced'[o] # 0 => Exists(o)' /\ reservation'[o].status # "PENDING"
          BY <2>1, <2>2, <2>3, <2>4, <3>3 DEF AnnounceInv, ScanInv
        <4> QED
          BY <4>1, <4>2, <4>3 DEF ScanInv
      <3>5. ExpiryAnnounced'
        BY <2>1, <2>2, <2>3, <3>2, <3>3 DEF AnnounceInv, ExpiryAnnounced
      <3> QED
        BY <3>4, <3>5 DEF AnnounceInv
    <2>6. CASE x.op # "expire"
      <3>1. announced' = announced
        BY <2>6 DEF Commit
      <3>2. x.seen \in {"PENDING", "CONFIRMED"} /\ to # "EXPIRED"
        BY <1>7, <2>1, <2>6, Moves DEF Transitions
      <3>3. ScanInv'
        BY <1>2, <1>3, <2>1, <2>2, <2>3, <2>4, <3>1 DEF AnnounceInv, ScanInv
      <3>4. ExpiryAnnounced'
        BY <2>1, <2>2, <2>3, <3>1, <3>2 DEF AnnounceInv, ExpiryAnnounced
      <3> QED
        BY <3>3, <3>4 DEF AnnounceInv
    <2> QED
      BY <2>5, <2>6
  <1> QED
    BY <1>1, <1>5, <1>6, <1>7 DEF StockOperations

\* Every step keeps what was announced in agreement with the rows.
LEMMA NextAnnounce == ControlInv /\ AnnounceInv /\ [Next]_vars => AnnounceInv'
  <1> SUFFICES ASSUME ControlInv, AnnounceInv, [Next]_vars PROVE AnnounceInv'
    OBVIOUS
  <1>1. ASSUME NEW t \in Txn, Commit(t) PROVE AnnounceInv'
    BY <1>1, AnnounceCommit
  <1>2. ASSUME ~ \E t \in Txn : Commit(t)
        PROVE  UNCHANGED <<reservation, announced, overwritten>>
    BY <1>2 DEF Next, Request, RegisterStock, BeginReserve, BeginRestock, BeginTransition,
         ScanExpired, BeginExpire, LockRow, Reject, Fail, Abandon, Lapse, Crash, vars
  <1>3. ASSUME UNCHANGED <<reservation, announced, overwritten>>
        PROVE  ExpiryAnnounced'
    BY <1>3 DEF AnnounceInv, ExpiryAnnounced
  <1> USE DEF ControlInv, AnnounceInv, ScanInv, Exists, TypeOK
  <1>4. ASSUME NEW s \in Sku, NEW units \in 0..MaxOnHand, RegisterStock(s, units)
        PROVE  ScanInv'
    BY <1>4 DEF RegisterStock
  <1>5. ASSUME NEW t \in Client, Request(t) PROVE ScanInv'
    <2>1. /\ UNCHANGED <<reservation, announced, batch>>
          /\ \A u \in Txn : u # t => txn'[u] = txn[u]
      BY <1>5 DEF Request, BeginReserve, BeginRestock, BeginTransition, Txn
    <2>2. txn'[t].op # "expire"
      BY <1>5 DEF Request, BeginReserve, BeginRestock, BeginTransition, Txn, Reading
    <2> QED
      BY <2>1, <2>2
  <1>6. ASSUME ScanExpired PROVE ScanInv'
    <2>1. /\ UNCHANGED <<reservation, announced, txn>>
          /\ txn[Scanner].pc = "idle"
          /\ batch' \subseteq Expired
      BY <1>6 DEF ScanExpired, Oldest, Idle
    <2>2. \A r \in Expired : r \in ReservationId /\ reservation[r].status = "PENDING"
      BY DEF Expired
    <2> QED
      BY <2>1, <2>2
  <1>7. ASSUME BeginExpire PROVE ScanInv'
    <2>1. PICK r \in batch :
            /\ batch' = batch \ {r}
            /\ txn' = [txn EXCEPT ![Scanner] =
                          Reading("expire", r, reservation[r].sku,
                                  reservation[r].qty, "PENDING")]
      BY <1>7 DEF BeginExpire
    <2>2. UNCHANGED <<reservation, announced>>
      BY <1>7 DEF BeginExpire
    <2>3. /\ txn'[Scanner].res = r /\ txn'[Scanner].seen = "PENDING"
          /\ \A u \in Txn : u # Scanner => txn'[u] = txn[u]
      BY <2>1 DEF Reading, Txn
    <2> QED
      BY <2>1, <2>2, <2>3
  <1>8. ASSUME NEW t \in Txn, LockRow(t) PROVE ScanInv'
    <2>1. /\ UNCHANGED <<reservation, announced, batch>>
          /\ txn[t].pc = "read"
          /\ txn' = [txn EXCEPT ![t] = Locked(t, stock[txn[t].sku])]
      BY <1>8 DEF LockRow
    <2>2. /\ txn'[t].op = txn[t].op /\ txn'[t].res = txn[t].res
          /\ txn'[t].seen = txn[t].seen
          /\ \A u \in Txn : u # t => txn'[u] = txn[u]
      BY <2>1 DEF Locked
    <2> QED
      BY <2>1, <2>2
  <1>9. ASSUME NEW t \in Txn, Reject(t) \/ Fail(t) PROVE ScanInv'
    BY <1>9 DEF Reject, Fail, Abandon, Idle
  <1>10. ASSUME Lapse PROVE ScanInv'
    BY <1>10 DEF Lapse
  <1>11. ASSUME Crash PROVE ScanInv'
    BY <1>11 DEF Crash, Idle
  <1>12. CASE UNCHANGED vars
    BY <1>12 DEF vars, ExpiryAnnounced
  <1> QED
    BY <1>1, <1>2, <1>3, <1>4, <1>5, <1>6, <1>7, <1>8, <1>9, <1>10, <1>11, <1>12 DEF Next

-----------------------------------------------------------------------------
(* Theorems of the specification.                                           *)

\* The invariants hold together in every reachable state.
LEMMA SpecUnits == Spec => [](ControlInv /\ UnitsInv)
  <1>1. Init => ControlInv /\ UnitsInv
    BY InitControl, InitUnits
  <1>2. ControlInv /\ UnitsInv /\ [Next]_vars => (ControlInv /\ UnitsInv)'
    BY NextControl, NextUnits
  <1> QED
    BY <1>1, <1>2, PTL DEF Spec

\* As long as no two transitions of a reservation of the SKU raced, the
\* denormalised counter is the number of units its PENDING rows stand for.
THEOREM CounterMatchesRows == Spec => []ReservedMatchesPending
  <1>1. UnitsInv => ReservedMatchesPending
    BY DEF UnitsInv
  <1> QED
    BY SpecUnits, <1>1, PTL

\* As long as none raced, what was received is on hand or sold.
THEOREM UnitsConserved == Spec => []OnHandMatchesConfirmed
  <1>1. UnitsInv => OnHandMatchesConfirmed
    BY DEF UnitsInv
  <1> QED
    BY SpecUnits, <1>1, PTL

\* Raced or not, every reserved unit has a PENDING row that can free it.
THEOREM NothingStranded == Spec => []NoStrandedUnits
  <1>1. UnitsInv => NoStrandedUnits
    BY DEF UnitsInv
  <1> QED
    BY SpecUnits, <1>1, PTL

\* Ordering hears of an expiry once, and of nothing that did not expire.
THEOREM AnnouncedOnce == Spec => []ExpiryAnnounced
  <1>1. Init => ControlInv /\ AnnounceInv
    BY InitControl, InitAnnounce
  <1>2. ControlInv /\ AnnounceInv /\ [Next]_vars => (ControlInv /\ AnnounceInv)'
    BY NextControl, NextAnnounce
  <1>3. AnnounceInv => ExpiryAnnounced
    BY DEF AnnounceInv
  <1> QED
    BY <1>1, <1>2, <1>3, PTL DEF Spec

=============================================================================
