----------------------------- MODULE Inventory -----------------------------
(***************************************************************************)
(* The inventory module of the API: stock_items rows, reservations rows    *)
(* and the transactions that move both, on PostgreSQL at READ COMMITTED    *)
(* with PessimisticStockRepository (SELECT ... FOR UPDATE).                *)
(*                                                                         *)
(* Every use case runs one transaction per reservation.  Its steps that    *)
(* other transactions can come between are kept apart:                     *)
(*   - the reservation is read, without a lock, and moved in memory;       *)
(*   - mutate() locks the stock row and reads its counters;                *)
(*   - the change is applied, the counters, the reservation and the        *)
(*     outbox row are written and the transaction commits.                 *)
(* A row lock is held until its transaction ends, so the writes become     *)
(* visible together, in one step.                                          *)
(*                                                                         *)
(* The expiry scheduler is one more transaction slot.  Its reservations    *)
(* come from a scan made outside of any transaction and are never read     *)
(* again.                                                                  *)
(***************************************************************************)
EXTENDS StockDomain, FiniteSets

CONSTANTS
    Sku,              \* the stock-keeping units
    Client,           \* transaction slots of requests and event handlers
    Scanner,          \* the transaction slot of the expiry scheduler
    NoTxn,            \* marks a stock row that nobody has locked
    MaxReservations,  \* bound: reservation ids ever handed out
    MaxQuantity,      \* bound: units one reservation or restock asks for
    MaxOnHand,        \* bound: units a SKU ever receives
    BatchSize,        \* ExpireReservationsService.batchSize (100 in the code)
    MaxFaults         \* bound: database errors that abort a transaction

Txn == Client \cup {Scanner}

ASSUME InventoryAssumption ==
    /\ MaxReservations \in Nat
    /\ MaxQuantity \in Nat
    /\ MaxOnHand \in Nat
    /\ BatchSize \in Nat \ {0}
    /\ MaxFaults \in Nat
    /\ Scanner \notin Client
    /\ NoTxn \notin Txn

ReservationId == 1..MaxReservations
Quantity == 1..MaxQuantity

VARIABLES
    registered,   \* SKUs that have a stock_items row
    stock,        \* committed counters of each row
    reservation,  \* committed reservations rows, "absent" before the insert
    nextId,       \* ids grow with createdAt, hence with expiresAt
    lapsed,       \* every reservation up to this id has reached expiresAt
    lock,         \* the transaction that holds the lock of a stock row
    txn,          \* what each transaction slot is doing
    batch,        \* what is left of the expiry scan under way
    announced,    \* StockReservationExpired rows written per reservation
    faults,       \* database errors so far
    received,     \* history: units registered and restocked per SKU
    overwritten   \* history: reservations saved over a change not seen

vars == <<registered, stock, reservation, nextId, lapsed, lock, txn, batch,
          announced, faults, received, overwritten>>

AbsentReservation == [status |-> "absent"]
Reservation(status, s, q) == [status |-> status, sku |-> s, qty |-> q]
Idle == [pc |-> "idle"]

\* Restocking is the one transaction that concerns no reservation.
NoReservation == 0

Reading(op, r, s, q, seen) ==
    [pc |-> "read", op |-> op, res |-> r, sku |-> s, qty |-> q, seen |-> seen]

Locked(t, row) ==
    [pc |-> "locked", op |-> txn[t].op, res |-> txn[t].res, sku |-> txn[t].sku,
     qty |-> txn[t].qty, seen |-> txn[t].seen, row |-> row]

Exists(r) == reservation[r].status # "absent"

-----------------------------------------------------------------------------
Init ==
    /\ registered = {}
    /\ stock = [s \in Sku |-> NewRow(0)]
    /\ reservation = [r \in ReservationId |-> AbsentReservation]
    /\ nextId = 1
    /\ lapsed = 0
    /\ lock = [s \in Sku |-> NoTxn]
    /\ txn = [t \in Txn |-> Idle]
    /\ batch = {}
    /\ announced = [r \in ReservationId |-> 0]
    /\ faults = 0
    /\ received = [s \in Sku |-> 0]
    /\ overwritten = {}

\* RegisterStockService: one insert.  A second one for the SKU violates the
\* primary key and leaves everything as it is.
RegisterStock(s, units) ==
    /\ s \notin registered
    /\ registered' = registered \cup {s}
    /\ stock' = [stock EXCEPT ![s] = NewRow(units)]
    /\ received' = [received EXCEPT ![s] = units]
    /\ UNCHANGED <<reservation, nextId, lapsed, lock, txn, batch, announced,
                   faults, overwritten>>

\* ReserveStockService up to its mutate(): the clock, hence expiresAt, is
\* read before the transaction begins.
BeginReserve(t, s, q) ==
    /\ txn[t] = Idle
    /\ nextId \in ReservationId
    /\ nextId' = nextId + 1
    /\ txn' = [txn EXCEPT ![t] = Reading("reserve", nextId, s, q, "absent")]
    /\ UNCHANGED <<registered, stock, reservation, lapsed, lock, batch,
                   announced, faults, received, overwritten>>

\* The confirm, release and restore use cases up to mutate(): findById inside
\* the transaction, without a lock, then the transition in memory.  A
\* transition that answers "noop" or "conflict" ends the transaction there.
BeginTransition(t, op, r) ==
    /\ txn[t] = Idle
    /\ Exists(r)
    /\ Verdict(op, reservation[r].status) = "moved"
    /\ txn' = [txn EXCEPT ![t] =
                  Reading(op, r, reservation[r].sku, reservation[r].qty,
                          reservation[r].status)]
    /\ UNCHANGED <<registered, stock, reservation, nextId, lapsed, lock, batch,
                   announced, faults, received, overwritten>>

BeginRestock(t, s, q) ==
    /\ txn[t] = Idle
    /\ received[s] + q <= MaxOnHand
    /\ txn' = [txn EXCEPT ![t] = Reading("restock", NoReservation, s, q, "none")]
    /\ UNCHANGED <<registered, stock, reservation, nextId, lapsed, lock, batch,
                   announced, faults, received, overwritten>>

-----------------------------------------------------------------------------
(* The expiry scheduler.                                                    *)

\* MUTANT of Expired: expires_at < now, so the boundary itself never matches.
ExpiredStrictly ==
    {r \in ReservationId : r < lapsed /\ reservation[r].status = "PENDING"}

\* status = 'PENDING' AND expires_at <= now.
Expired == {r \in ReservationId : r <= lapsed /\ reservation[r].status = "PENDING"}

\* findExpired: the oldest BatchSize of the expired reservations.
Oldest(rs) == {r \in rs : Cardinality({o \in rs : o < r}) < BatchSize}

\* MUTANT of ScanExpired: a tick that does not ask whether the last one ended.
ScanWhileRunning ==
    /\ batch' = Oldest(Expired)
    /\ UNCHANGED <<registered, stock, reservation, nextId, lapsed, lock, txn,
                   announced, faults, received, overwritten>>

\* tick() skips the period while the previous run is still under way.
ScanExpired ==
    /\ txn[Scanner] = Idle
    /\ batch = {}
    /\ batch' = Oldest(Expired)
    /\ UNCHANGED <<registered, stock, reservation, nextId, lapsed, lock, txn,
                   announced, faults, received, overwritten>>

\* The next reservation of the batch, as the scan saw it: expire() is asked
\* of the object in memory and the row is not read again.
BeginExpire ==
    /\ txn[Scanner] = Idle
    /\ \E r \in batch :
        /\ \A o \in batch : r <= o
        /\ batch' = batch \ {r}
        /\ txn' = [txn EXCEPT ![Scanner] =
                      Reading("expire", r, reservation[r].sku,
                              reservation[r].qty, "PENDING")]
    /\ UNCHANGED <<registered, stock, reservation, nextId, lapsed, lock,
                   announced, faults, received, overwritten>>

-----------------------------------------------------------------------------
(* PessimisticStockRepository.mutate and the end of the transaction.        *)

\* MUTANT of LockRow: a plain SELECT, which waits for nobody.
ReadRow(t) ==
    /\ txn[t].pc = "read"
    /\ txn[t].sku \in registered
    /\ txn' = [txn EXCEPT ![t] = Locked(t, stock[txn[t].sku])]
    /\ UNCHANGED <<registered, stock, reservation, nextId, lapsed, lock, batch,
                   announced, faults, received, overwritten>>

\* SELECT ... FOR UPDATE returns the committed row once its lock is granted.
LockRow(t) ==
    /\ txn[t].pc = "read"
    /\ txn[t].sku \in registered
    /\ lock[txn[t].sku] = NoTxn
    /\ lock' = [lock EXCEPT ![txn[t].sku] = t]
    /\ txn' = [txn EXCEPT ![t] = Locked(t, stock[txn[t].sku])]
    /\ UNCHANGED <<registered, stock, reservation, nextId, lapsed, batch,
                   announced, faults, received, overwritten>>

\* ReservationRepository.save: an insert for a new reservation, otherwise an
\* update of the status that asks nothing of the status it replaces.
Saved(x) ==
    IF x.op = "reserve"
    THEN [reservation EXCEPT ![x.res] = Reservation("PENDING", x.sku, x.qty)]
    ELSE IF x.op \in Transitions
    THEN [reservation EXCEPT ![x.res] = Reservation(Target(x.op), @.sku, @.qty)]
    ELSE reservation

\* The change is accepted: counters, reservation and, for an expiry, the
\* outbox row become visible together and the lock is dropped.
Commit(t) ==
    LET x == txn[t] IN
    /\ x.pc = "locked"
    /\ ChangeAccepted(x.op, x.row, x.qty)
    /\ stock' = [stock EXCEPT ![x.sku] = Changed(x.op, x.row, x.qty)]
    /\ reservation' = Saved(x)
    /\ announced' = IF x.op = "expire"
                    THEN [announced EXCEPT ![x.res] = @ + 1] ELSE announced
    /\ received' = IF x.op = "restock"
                   THEN [received EXCEPT ![x.sku] = @ + x.qty] ELSE received
    /\ overwritten' = IF x.op \in Transitions /\ reservation[x.res].status # x.seen
                      THEN overwritten \cup {x.res} ELSE overwritten
    /\ lock' = [lock EXCEPT ![x.sku] = NoTxn]
    /\ txn' = [txn EXCEPT ![t] = Idle]
    /\ UNCHANGED <<registered, nextId, lapsed, batch, faults>>

\* Nothing of the transaction remains.
Abandon(t) ==
    /\ lock' = [s \in Sku |-> IF lock[s] = t THEN NoTxn ELSE lock[s]]
    /\ txn' = [txn EXCEPT ![t] = Idle]
    /\ UNCHANGED <<registered, stock, reservation, nextId, lapsed, batch,
                   announced, received, overwritten>>

\* mutate() throws: StockNotFoundError, or the error of the change callback.
Reject(t) ==
    /\ \/ txn[t].pc = "read" /\ txn[t].sku \notin registered
       \/ /\ txn[t].pc = "locked"
          /\ ~ChangeAccepted(txn[t].op, txn[t].row, txn[t].qty)
    /\ Abandon(t)
    /\ UNCHANGED faults

\* The database ends the transaction: a timeout, a lost connection, a deadlock.
Fail(t) ==
    /\ txn[t] # Idle
    /\ faults < MaxFaults
    /\ faults' = faults + 1
    /\ Abandon(t)

-----------------------------------------------------------------------------
\* Time reaches expiresAt of one more reservation.
Lapse ==
    /\ lapsed + 1 < nextId
    /\ lapsed' = lapsed + 1
    /\ UNCHANGED <<registered, stock, reservation, nextId, lock, txn, batch,
                   announced, faults, received, overwritten>>

\* The process stops and starts again: PostgreSQL rolls back what was open
\* and the scan under way is forgotten.
Crash ==
    /\ faults < MaxFaults
    /\ faults' = faults + 1
    /\ txn' = [t \in Txn |-> Idle]
    /\ lock' = [s \in Sku |-> NoTxn]
    /\ batch' = {}
    /\ UNCHANGED <<registered, stock, reservation, nextId, lapsed, announced,
                   received, overwritten>>

Request(t) ==
    \/ \E s \in Sku, q \in Quantity : BeginReserve(t, s, q) \/ BeginRestock(t, s, q)
    \/ \E op \in Transitions \ {"expire"}, r \in ReservationId : BeginTransition(t, op, r)

Finish(t) == Commit(t) \/ Reject(t)

Next ==
    \/ \E s \in Sku, units \in 0..MaxOnHand : RegisterStock(s, units)
    \/ \E t \in Client : Request(t)
    \/ ScanExpired
    \/ BeginExpire
    \/ \E t \in Txn : LockRow(t) \/ Commit(t) \/ Reject(t) \/ Fail(t)
    \/ Lapse
    \/ Crash

Spec == Init /\ [][Next]_vars

(***************************************************************************)
(* The clock advances, the scheduler keeps ticking and a transaction that  *)
(* has begun ends.  PostgreSQL queues the waiters of a row lock, so nobody *)
(* waits for ever for a lock that keeps being freed.  Requests and faults  *)
(* are under no obligation.                                                *)
(***************************************************************************)
Fairness ==
    /\ WF_vars(Lapse)
    /\ WF_vars(ScanExpired)
    /\ WF_vars(BeginExpire)
    /\ \A t \in Txn : SF_vars(LockRow(t)) /\ WF_vars(Finish(t))

LiveSpec == Spec /\ Fairness
-----------------------------------------------------------------------------
(* Properties.                                                              *)

StockRow == [onHand : Nat, reserved : Nat]
ReservationRow == {AbsentReservation}
                  \cup [status : ReservationStatus, sku : Sku, qty : Quantity]
SeenStatus == ReservationStatus \cup {"absent", "none"}
ReadingTxn == [pc : {"read"}, op : StockOperations, res : 0..MaxReservations,
               sku : Sku, qty : Quantity, seen : SeenStatus]
LockedTxn == [pc : {"locked"}, op : StockOperations, res : 0..MaxReservations,
              sku : Sku, qty : Quantity, seen : SeenStatus, row : StockRow]

\* Every piece of state has its type; above all, no counter ever goes below
\* zero, which Quantity.minus() and assertReservedCovers() must prevent.
TypeOK ==
    /\ registered \subseteq Sku
    /\ stock \in [Sku -> StockRow]
    /\ reservation \in [ReservationId -> ReservationRow]
    /\ nextId \in 1..(MaxReservations + 1)
    /\ lapsed \in 0..MaxReservations
    /\ lock \in [Sku -> Txn \cup {NoTxn}]
    /\ txn \in [Txn -> {Idle} \cup ReadingTxn \cup LockedTxn]
    /\ batch \subseteq ReservationId
    /\ announced \in [ReservationId -> Nat]
    /\ faults \in 0..MaxFaults
    /\ received \in [Sku -> Nat]
    /\ overwritten \subseteq ReservationId

\* StockItem's invariant, whatever the interleaving: reserved <= onHand, so
\* rehydrate() never meets a corrupted row and no SKU is ever oversold.
StockBounds == \A s \in Sku : stock[s].reserved <= stock[s].onHand

\* The units that the rows of a SKU in one status stand for.
UnitsOf(rows, status, s) ==
    {u \in ReservationId \X Quantity :
        /\ rows[u[1]].status = status
        /\ rows[u[1]].sku = s
        /\ u[2] <= rows[u[1]].qty}

PendingUnits(s) == Cardinality(UnitsOf(reservation, "PENDING", s))
ConfirmedUnits(s) == Cardinality(UnitsOf(reservation, "CONFIRMED", s))

\* A reservation of the SKU was saved over a change its transaction had not
\* seen: findById and the expiry scan read without a lock.
Raced(s) == \E r \in overwritten : reservation[r].sku = s

\* The denormalised counter and the rows agree: reserve-stock.service.ts
\* 31-33 keeps both in one transaction so that they cannot drift apart.  They
\* do, unless two transitions of one reservation raced.
ReservedMatchesPending ==
    \A s \in Sku : ~Raced(s) => stock[s].reserved = PendingUnits(s)

\* Units are conserved: what was registered and restocked is on hand or was
\* sold, and a sale given back is on hand again, unless transitions raced.
OnHandMatchesConfirmed ==
    \A s \in Sku : ~Raced(s) => stock[s].onHand + ConfirmedUnits(s) = received[s]

\* Even when transitions race, the counter never holds more units than the
\* rows that can give them back: no unit is reserved for ever with no
\* reservation left for the expiry scan to find.
NoStrandedUnits == \A s \in Sku : stock[s].reserved <= PendingUnits(s)

\* StockReservationExpired reaches the outbox exactly with the expiry it
\* announces, never twice, and a reservation whose status nobody overwrote
\* is EXPIRED if and only if Ordering was told (expire-reservations 39-40).
ExpiryAnnounced ==
    \A r \in ReservationId :
        /\ announced[r] <= 1
        /\ r \notin overwritten =>
              (announced[r] = 1 <=> reservation[r].status = "EXPIRED")

\* What the StockRepository port promises: one accepted domain operation at a
\* time, each on the counters the previous one left (no lost update).
Ledger == INSTANCE StockLedger WITH OpeningStock <- 0..MaxOnHand
LedgerSpec == Ledger!Spec

\* The TTL heals (spec 6.2, step 5): a reservation that has expired does not
\* stay PENDING, although runs crash and single expiries fail, as long as no
\* race has left a row that can only be rejected at the head of the batch.
Healed(r) == reservation[r].status # "PENDING" \/ overwritten # {}
SelfHealing == \A r \in ReservationId :
                  r <= lapsed /\ reservation[r].status = "PENDING" ~> Healed(r)

\* The table above class Reservation: a row only moves along a cell marked
\* "true", so a terminal status is never left.
TransitionTableHolds ==
    [][\A r \in ReservationId :
          \/ reservation'[r].status = reservation[r].status
          \/ ~Exists(r)
          \/ <<reservation[r].status, reservation'[r].status>> \in TransitionTable]_vars

=============================================================================
