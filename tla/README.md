# Formal models of commerce-app

TLA+ models of this repository, checked with TLC and in
part proved with TLAPS. The repository is a commerce application: a NestJS API
of six bounded contexts (`apps/api/src/modules`), a Next.js front end with a
thin server of its own (`apps/web`), PostgreSQL, and an outbox that carries
events between the contexts. Paths below are relative to the repository;
`inventory/…`, `ordering/…`, `payment/…` stand for
`apps/api/src/modules/<context>/…` and `shared/…` for `apps/api/src/shared/…`.

Run a check with `tlc -config <Run>.cfg <Module>` and a proof with
`tlapm <Module>`; `PROJECT.json` lists the runs, the source lines of every
definition, and for each property a change to the code's model that breaks it.

## 1. The system

### Components

| Component | State | Operations that change it | Modelled by |
|---|---|---|---|
| Inventory | `stock_items` (on hand, reserved, version), `reservations` | register, restock, reserve, confirm, release, restore, expire by TTL scan | `StockDomain`, `Inventory` (`StockLedger` is the abstract promise) |
| Ordering, orders | `orders` | place order (a saga), cancel, payment refunded, reservation expired | `OrderDomain`, `OrderSaga` |
| Ordering, cart | `carts` with `cart_lines` | add, change, remove; deleted by the checkout | `CartDomain`, `Storefront` (`ShopPromise` is the abstract promise) |
| Payment | `payments`, `payment_attempts`; the external PG | authorize, refund, webhook | `OrderDomain`, `OrderSaga` |
| Outbox | `outbox` | publish within a transaction; relay: fetch, send, mark, back-off, dead letter | `Outbox`, `OutboxRelay`, `OrderSaga` |
| Optimistic stock adapter | `stock_items.version` | create, mutate with retries (an alternative adapter that is not the one wired) | `OptimisticStock` (refines `StockLedger` too) |
| Identity | `accounts`, `sessions` with the hash of their refresh token | sign up, sign in, refresh, sign out, change password | `SessionDomain`, `Sessions` |
| Customer | `customers`, `saved_addresses` | provision on sign-up; add, update, remove address, choose the default | `AddressDomain`, `Storefront`, `Sessions` |
| Catalog | `products`, `skus` | register, change price, queries | `CatalogDomain`, `Storefront` |
| HTTP layer of the API | the registry of domain errors, filled at start-up | resolve an error to status and code, check an access token | `HttpErrors`, `SessionDomain` |
| Web BFF | encrypted session cookie, map of refreshes in flight | sign in and out, refresh on 401 and retry, actions passed on to the API | `WebSession`, `HttpErrors` |
| Web views and features | React state of a page, what the router renders | press, answer, reload, navigate | `BrowserTab` |
| Contracts package | none | schemas of requests and answers | the requests and answers the modules above enumerate |

### How they interact

- Ordering calls Inventory and Payment **in process** through adapters, each call
  in transactions of its own: `PlaceOrderService` is a saga of at least five
  transactions (create the order; reserve, once per line; open the payment; record
  the PG's answer; settle the order) with the PG call outside of any of them.
- Everything else goes through the **outbox**. A transaction writes its state
  change and its event rows together. One relay per process reads the due rows in
  order of `occurred_at`, calls every `@OnEvent` listener with `emitAsync`, and marks
  the row published if all resolve. `OrderPaid`, `OrderPaymentFailed` and
  `OrderCancelled` reach Inventory; `OrderCancelled` of a paid order reaches
  Payment too; `PaymentRefunded` and `StockReservationExpired` reach Ordering.
- Two **schedulers** (`shared/infrastructure/scheduler/interval-scheduler.ts`), one
  for the relay and one for the expiry of reservations, tick by `setInterval`, skip a
  tick while the last run is still at work, and log any error of a run.
- A **checkout** reads the cart inside its first transaction and asks Customer and Catalog,
  in process, outside of it; it saves the order and deletes the cart together.
- The **browser** talks to the BFF, which keeps the tokens in a cookie, calls the API with
  the access token, refreshes it after a 401 and tries once more. Pages are rendered on the
  server, where cookies cannot be written; buttons call route handlers, where they can. After
  an answer a component asks the router to render the page again.
- The **PG** answers the charge, may call the webhook at any time, and is asked for
  refunds after the refund was committed.

### What is hard here

1. **Unlocked reads under READ COMMITTED.** Reservations, orders and payments are
   read with a plain SELECT, moved in memory and saved with an unconditional
   upsert; only `stock_items` rows are locked. What was read may be old when it is
   written (`reservations-for-order.service.ts`, the expiry scan,
   `CancelOrderService`, `OnStockReservationExpiredService`, `handleCallback`, and
   `PlaceOrderService`, which keeps the order in memory across the PG call).
2. **A crash between any two transactions** of the saga, and between the refund
   transaction and the PG.
3. **At-least-once delivery, out of order** once a row backs off, next to a listener
   that still runs after its sibling rejected.
4. **Lost answers** of the PG, errors of the database after which the code goes on
   (`applyEach`, `releaseAll` log and continue) or stops.
5. **The TTL racing all of this.**
6. **Whole aggregates saved without a version**: carts, address books, products and sessions
   are read, changed in memory and written whole; two requests for one of them overlap.
   A save of a cart starts by locking the row of `carts`; a save of an address book starts with
   nothing of the kind, so its saves delete and write rows in turns, wait for each other and can
   deadlock.
7. **Refresh tokens that are good for one use**, with several requests of one browser meeting
   a 401 together, and a cookie that each request reads when it is sent.
8. **Requests, answers and renders of one tab overtaking each other**, while a reload
   unmounts the very component that waits.
9. **Limits**: ten attempts, batches of a hundred, the last unit of stock, the instant of
   expiry itself.

The full list of hazards, each at its line and with the properties that cover it, is `hazards` in
`PROJECT.json`.

## 2. The modules

```
StockDomain ── StockLedger        (abstract)
     │              ▲ refinement
     ├────────── Inventory ── MCInventory
     │              └── InventoryProofs
     │
     │           Outbox ── OutboxRelay ── MCOutboxRelay
     │              │  │        └── RelayProofs ◂┐
     │              │  └── OutboxProofs ─────────┤ cited by
OrderDomain ──── OrderSaga ── MCOrderSaga        │
     │              └── SagaProofs ◂─────────────┘
     │
     └──────────────────────────────────────────────┐
CartDomain, AddressDomain, CatalogDomain ──┐        │
HttpErrors ─────────┬───────────────── Storefront ── BrowserTab ──┐
     │              │                      │ refinement            ├── Shop ── MCShop
     │              │                  ShopPromise (abstract)      │     └── ShopProofs
 HttpProofs         │  StockDomain ── OptimisticStock ─────────────┘
                    │                      │ refinement (OptimisticProofs)
                    │                  StockLedger (abstract)
             SessionDomain ── Sessions ── WebSession ── MCWebSession
                                              └── SessionProofs
```

**StockDomain** holds the pure rules of `inventory/domain`: the transition methods
of `Reservation` with their three answers (moved / no effect / conflict), the table
above the class, and what each operation of `StockItem` checks and changes.
**OrderDomain** does the same for `Order` and `Payment`. Both are used by the state
machines, so a rule is written once.

**StockLedger** is what the port `StockRepository` promises: the counters of a SKU
change one accepted operation at a time, each on the counters its predecessor left.

**Inventory** is the whole inventory module one database step at a time. A transaction
slot (`txn[t]`) reads a reservation without a lock and moves it in memory
(`BeginTransition`; a transition without effect ends there), locks the stock row and reads
its counters (`LockRow`, `SELECT … FOR UPDATE`), and commits counters, reservation and
outbox row together (`Commit`); or is rejected by the domain (`Reject`), fails in the
database (`Fail`) or is ended by a crash. The expiry scheduler is one more slot that works
on what `ScanExpired` read outside of any transaction. Time is `lapsed`: reservation
ids grow with `createdAt`, the TTL is constant, so the reservations that have expired
are always `1..lapsed`. `received` (units ever received) and `overwritten` (reservations
saved over a change their transaction had not seen) are history variables; of the guards only
the bound on restocking reads one of them.

**Outbox** has the table and the relay, **OutboxRelay** puts them between transactions
that publish and listeners that accept or reject. `at` is `occurred_at`, counted in
rows already committed when the clock was read: a row may carry a time up to `Skew` rows
older than its commit.

**OrderSaga** is the order pipeline: the checkout as a process per order (`Assemble`,
`ReserveLine`, `OpenPayment`, `Charge`, `Record`, `Settle`, with `ReleaseLine`,
`FailOrder` and `GiveUp` for the compensation), the cancel request and the webhook in two
steps each (read, commit), `Expire`, and the outbox with the real subscribers as tasks
(`work`): an event fans out to one task per reservation and per other subscriber, the
row is published when all tasks are done, and fails with the first rejection while the other
tasks go on unattended. `Crash` drops everything that is held in memory.

Abstractions of `OrderSaga`, and why they keep the behaviour:

- Inventory's transactions are one step here. `Inventory` has their steps, and
  `InventoryRace` shows what can go wrong inside them; the saga is checked on top of
  the transitions as the domain defines them.
- A line asks for one unit and an order has one line per SKU. Quantities are
  `Inventory`'s subject.
- `OrderPlaced` is not published: it has no subscriber. Tasks of one event run in
  any order; the code does the reservations of an event one after another, so this
  allows more than the code does, never less.
- An order has one payment with one PG transaction. `payment_attempts` is a log of it.
- A SKU without a stock row is one without stock: both answers make the checkout
  release what it holds and fail the order.
- `ReserveFails` is an error before the reservation commits. A reservation that commits and
  whose answer is lost to the caller is the same as a crash right after it.
- A task that outlives the delivery it belongs to is relabelled to the row `NoRow`.
- `ExpireEarly = FALSE` says that the TTL (15 minutes) outlasts the request and the
  deliveries of its events, back-off included (about five minutes in all for ten
  attempts, each capped). `ExpireEarly = TRUE` drops that assumption.

**HttpErrors** is the error registry: the codes of the classes that extend `DomainError`, the
registrations of the seven modules, `resolve`, and the status the BFF gives each `ErrorCode`.
Models that answer requests answer with it.

**SessionDomain** and **Sessions** are the identity module. Refresh, sign-in, sign-out and the
first half of a password change work outside of a transaction: each request is a `Begin…`
(the read and what is decided on it) and a `Finish…` (the write), with anything in between.
A password is its length, which is all that the policy looks at, and its identity; an email is
the mailbox and the spelling typed; a refresh token is a number and its hash is itself.
`raced`, `provedBy`, `superseded` and `spent` are history.

**WebSession** puts a browser with overlapping requests in front of it: each request carries
the cookie of the moment it was sent, `authedFetch` refreshes after a 401 and retries once,
`inFlightRefreshes` merges refreshes of one token, a page cannot keep what it refreshed, and
an answer sets the cookie whatever it has become. A connection breaks at any moment (`Break`,
`BreakSigning`): `fetch` rejects, the map forgets the refresh at once, and the API, which knows
nothing of it, goes on with a call whose answer nobody hears (`Drop`). `broken` is the history of the
tokens that were at work in the API when that happened. Other clients of the API use the remaining
slots; two processes of the BFF are not modelled (the map is per process, as its
comment says).

**CartDomain**, **AddressDomain**, **CatalogDomain** are the rules of the aggregates:
verdict and result of each operation, with prices, currencies and what of a cart is for sale.
**Storefront** runs the use cases on them as read, then save. A save of a cart (upsert, deleteMany,
createMany) and one of a product (upserts) begin with the aggregate's own row and keep it locked, so each
takes effect as one step. `PrismaCustomerRepository.save` does not: `Prune` is the DELETE with its
snapshot of the rows the aggregate does not hold, `WriteRow` deletes or writes one row after the
other (deletes first, the default last) and keeps it locked, `CommitBook` makes them visible. A save
waits for rows, and for index entries of defaults, that another save has changed (`Blockers`); a
committed default of another row refuses it (`Clash`); a circle of waits ends one of its members
(`Deadlocked`, `Victim`). The upsert of the `customers` row writes nothing (`update: {}`) and is left out. One
simplification: a row that another save deletes and a third one puts back, while the DELETE waits
for it, counts as deleted here; that takes three saves of one book at a time. The checkout is
`BeginCheckout`, `FindAddress`, `FindPrices`, `PlaceOrder`. Other errors of
the database roll a transaction back and show what a request that was never sent shows. **ShopPromise** is what a customer counts on:
carts, books, products and orders change one request at a time. `Storefront` implements it except for what
is in `raced`, the aggregates on which two requests overlapped: there the code loses changes,
and the models do not claim otherwise.

**BrowserTab** is one tab: cart, product and order page, the five hooks behind the buttons,
what is disabled while a request is pending, the reload each answer asks for, the reason of a
failed order that `CartView` keeps and draws on the empty cart only (`Alert`), connections that break
with the request done or not. What a refresh shows is fetched part by part (`cart/page.tsx` makes two
requests); the cart comes without its unavailable lines (`Current`, from `GetCartService`), so a cart of
archived products is an empty page without buttons. A fetch of the cart page that fails unmounts
`CartView` with all it kept (`FetchFails`).
Abstractions: a press reaches the API at once (presses come in every order instead), the
order page of `router.push` is shown at once, a refresh of the product page changes nothing, the
shopper has one order. Nobody changes prices or products while a tab is open, so all its prices are in
one currency and the 500 of a mixed cart does not come up.

**OptimisticStock** is the compare-and-set adapter, read, update and commit as steps of
their own, callers that roll back included. **Shop** has the tab, clients of the API and the stock desk
over one set of slots, and a behaviour has one of the three only: `Browse` wants the tab closed,
`Ask` a storefront that nobody has used. Clients send everything that the tab sends and more, so races on
the rows are theirs; the tab is alone with its own overlapping requests. They share a run, not an
interaction.

## 3. The runs

| Run | What it asks | Result |
|---|---|---|
| `inventory` | counters against reservations, refinement of `StockLedger`, every reservation is healed | holds |
| `inventory_race` | the transition table of `reservation.ts` | violated |
| `outbox` | at least once, order, dead letters, no starvation | holds |
| `saga_crash` | crashes anywhere: everything ends and agrees | holds |
| `saga_open` | everything interleaved: money, goods and refunds | holds |
| `web_session` | what sessions and the cookie promise to a browser with overlapping requests | holds |
| `shop` | overlapping clients of the storefront; one tab; the optimistic adapter (one of them at a time): promises kept unless requests raced | holds |
| `sessions_revived` | a revoked session stays revoked | violated |
| `saga_cancel` | PAID only out of PENDING_PAYMENT | violated |
| `saga_stuck` | every order ends | violated |
| `saga_refund` | a recorded refund reaches the PG | violated |
| `saga_webhook` | REFUNDED is final | violated |

### Inventory

`Inventory.cfg`: one SKU, two request slots and the scheduler, two reservations of one unit,
two units on hand, a batch of one, one fault or crash. Two requests and the scheduler
are enough for every pair of transactions to meet on a row while a third comes in between;
SKUs only share the batch, and larger quantities are covered by the proofs, which have no
bound. A batch of one lets a reservation whose expiry fails keep the head of it from the other.
`StockBounds` (never oversold), `ReservedMatchesPending` and
`OnHandMatchesConfirmed` (counters and rows agree unless transitions raced),
`NoStrandedUnits` (raced or not, every reserved unit has a PENDING row that can give it
back), `ExpiryAnnounced` (the event leaves with the expiry, once) and `LedgerSpec` (the
adapter implements the port's promise). `SelfHealing` is under fairness, and is claimed
only while no race has overwritten a row: a raced row that the domain rejects for ever can fill
the oldest batch.

`InventoryRace.cfg` finds two transitions of one reservation, both decided on PENDING
before either holds the stock row; the second overwrites the first's terminal status.
The counters survive it (`NoStrandedUnits` and `StockBounds` hold without the
proviso) because `assertReservedCovers` stops the second change unless other
reservations cover it.

### Outbox

`OutboxRelay.cfg`: three rows, healthy or poison in every combination, batches of two,
three attempts, two faults, one row of clock skew. Two poison rows fill a batch,
which is the case `HealthyRowsGetThrough` is about; `MaxFaults < MaxAttempts` because a
healthy row that fails often enough is rightly a dead letter.

### Order saga

`SagaCrash.cfg`: one order of one or two SKUs, two crashes at any step (the second may hit
what recovers from the first), one cancellation once the request has ended, no other fault: an
`applyEach` that logs an error and goes on leaves a sold unit to the TTL, as its comment says.
`StockFollowsOrder`: when nothing is under way the stock says what the order says.
`TtlEndsTheOrder`, `UnitsComeBack`, `RefundCompletes`: an order that holds units ends, units
come back or are sold, a cancelled paid order reaches REFUNDED.

`SagaOpen.cfg`: one order, one SKU, two cancel requests at any time, the TTL at any
time, the webhook, one fault, one crash. `GoodsFollowMoney`, `PaidIsAuthorized` and
`RefundFollowsCancel` hold through all of it, the races below included. Events are
delivered out of order here through back-off; `Skew` is 0 because the rows of one order are
written by transactions that follow each other except for the cancellation, and the
effect of skew on the relay is the subject of `OutboxRelay.cfg`. One order is enough for
what these properties say: orders meet only on `stock_items`, whose transactions are
serialised by the row lock (that is `LedgerSpec`), and the initial stock of zero or one
unit covers what another order may have left.

Runs with `CHECK_DEADLOCK FALSE` are those in which all may be done: every order
ended, every row published or dead, all faults used.

### Sessions and the BFF

`WebSession.cfg`: one mailbox spelled as stored, in capitals or malformed, passwords of 9, 10 and 12 characters (one
below the minimum, two to change between), two requests of one browser, two slots for other
clients, three requests in all, access tokens that live one tick and refresh tokens two,
two ticks, one fault. Two browser requests are what it takes for one to refresh under the
other; the third request is the change of password, the sign-out or the replay that comes between.

- `OneAccountPerEmail`: two sign-ups that both passed the look-up end in one account.
- `SupersededStaysDead`: no save brings back a token that was rotated away, unless it revokes.
- `OnlyRacesOutliveAChange`: a session opened with the old password outlives the change only
  if a save of it was under way while the change committed (`sessions_revived` is that case).
- `TokenSpentOnce`: requests that meet a 401 together buy one new token, not two, unless the
  connection of the refresh broke while the API was working on it. Then the next request finds
  no entry in the map, both refreshes have read the same row, and both rotate it.
- `SessionLostForACause`: the browser loses a live session, or is left with a token of no session,
  only for one of these: a page rendered with an expired access token, a failure of the API or of a
  connection, signing out, a renewed token that is refused as well, a 401 that comes when another
  request has used the token up ("late"), an answer that comes after a newer one ("overtaken"). Sharing
  a refresh is none of them, nor is a refusal that was right. "Late" is an overlap, and the code
  does sign the user out for it (section "Disagreements without a run").
- `RequestsEnd`: neither the retry nor the wait for another's refresh goes on for ever.

### Storefront, tab and optimistic adapter

`Shop.cfg`: one customer, one product (none, or one on sale or archived with a line of it in
the cart and a default address, to begin with; registrations of up to two SKUs), quantities
0 and 1, carts of at most two lines, prices of zero, one won and two dollars, addresses with a
blank field or two different ones; three requests in all and two at a time. Two at a time on one aggregate is every
race that a whole-aggregate save can have; the third is the one that reads what they left.
The tab sends two requests and one request or fetch fails, so a press, a second press and a loss
meet in every order. The desk makes four transactions on one row with two attempts each: the
registration, a caller that loses both attempts and the two that beat it. 268,650 distinct states, depth 33.

- `OneOrderPerCart`, `PromiseSpec`: see `Storefront` above.
- `OneDefault`: no book is ever committed with two defaults, raced or not. It takes the index: without it two
  saves that interleave row by row, each with a default of its own, both commit.
- `OnlyRacesClash`: the index refuses a save only if the book has changed since it was read. Its order of
  writes is what that rests on: with the default first, moving the default in a book nobody else touches fails.
- `OrdersArePriced`: all prices of an order were in force together during its checkout.
- `OrderIsTold`: the order that a failed checkout has placed empties the cart, and the shopper who
  stays on that page reads a reason on it, whatever else is pending or got lost, for as long as the page can be fetched
  (a failed fetch throws the reason away with `CartView`).
- `ScreenIsCurrent`: what the shopper sees once all is quiet is what the server has, unavailable lines left
  out, unless an answer was lost or a refund came through (nothing reloads for either).
- `OrderedOncePerStay`: pressing again orders nothing twice, unless an answer was lost or the tab
  changed the cart as well: a save that overlapped the checkout may put the ordered cart back.
- `LedgerSpec`, `ContentionIsEarned`: the optimistic adapter keeps the promise of the port, and
  gives up only when that many others got through.
- `RequestsAnswered`: saves that wait for each other or lock each other out are ended, and every
  button and render comes to rest.

### What the violated runs show

- `sessions_revived`: a refresh that read its session before a password change committed
  writes `revokedAt = null` over the revocation (`prisma-session.repository.ts:26`). The comment at
  `change-password.service.ts:14-16` says that the window in which an old session outlives the
  change is what the use case closes.

- `inventory_race`: `save()` writes a status over one it has not seen
  (`prisma-reservation.repository.ts:26`), against the table in `reservation.ts:23-29` and the
  comment at `reservations-for-order.service.ts:72-73`.
- `saga_cancel`: a cancellation that commits during the PG call is overwritten by PAID
  (`place-order.service.ts:81`). The customer was told CANCELLED.
- `saga_stuck`: an order that holds no reservation (error on its first line, or a PG error
  after which everything was released) stays PENDING_PAYMENT for ever; the README says the
  scan ends it. A crash after the last release and before `failOrder` has the same end.
- `saga_refund`: a crash between the refund transaction and `pg.refund()`; the retry
  finds REFUNDED and does nothing, although the comment says it makes the refund good.
- `saga_webhook`: a webhook that read PENDING commits after the refund and writes
  AUTHORIZED over REFUNDED.

One more, seen while choosing bounds: two cancel requests that both read PAID commit
twice; if the second commits after REFUNDED the order is REFUND_PENDING again with no
refund left to complete it. `RefundCompletes` fails with two requests, and `saga_crash`
therefore has one.

### Disagreements without a run

Met while the models were written, each visible in one place of the code:

- `CartView.tsx:54-58` tells the shopper that unavailable products are left out of the
  order, and `CartView.spec.tsx:43-45` tests that it does; `place-order.service.ts:112-116` refuses the
  whole order (UNKNOWN_SKU).
- A cart whose lines have two currencies is answered with a 500 by `get-cart.service.ts`:
  `CurrencyMismatchError` is no `DomainError`.
- The BFF answers `DOMAIN_RULE_VIOLATED` with 422 where the API sent 409 for some errors.
- Two first additions to an empty address book, overlapping: the second save deletes the
  address of the first (it is not in the aggregate that was read).
- An addition to a cart that overlaps its checkout creates the cart again, with the lines
  that were ordered.
- A 401 that comes late, after another request's refresh has settled and left the map, starts a refresh
  with a used token; it is refused and clears the cookie, which holds the new session by then. The comment at
  `api-client.ts:25-31` is about just that: a user signed out for having sent two requests at once. With "late"
  taken out of the causes TLC refutes `SessionLostForACause` with this trace, 14 states long.
- `use-sign-out.ts:12-13` says a cookie left after a failed sign-out gets a 401 on the next
  request; if the POST never reached the BFF the session is alive.
- The reason of a failed order is shown again on a cart that was emptied later by removals; and it
  is lost when the shopper leaves the page before the answer, or when the reload cannot fetch it.
- An index clash or a deadlock of two saves of an address book is answered with a 500.
- At boot the relay's timer may tick before the `@OnEvent` listeners are registered; an
  event sent then reaches nobody and is marked published.

## 4. Fairness

- The schedulers tick for ever: `setInterval`, and `tick()` catches every error of a run
  (`interval-scheduler.ts`). Hence weak fairness of `ScanExpired`, `BeginExpire`, `Tick`,
  `SomeDelivery`, `Conclude`.
- A request or subscriber that has begun runs on until it ends or the process stops:
  weak fairness of `Advance`, `SomeAct`, `CancelCommit`, `Finish`. The port of the PG
  client says that a call answers or throws, a timeout included.
- PostgreSQL queues the waiters of a row lock, so a transaction that waits for a lock that
  is freed again and again gets it: strong fairness of `LockRow`.
- Time passes: `Lapse`, `CoolDown` by way of `BackoffEnds`, and `Expire` of a reservation
  whose time has come.
- In `WebSession` a request of a browser that the servers have taken up goes on: weak
  fairness, request by request, of its next step in either of them (`FinishCall` or
  `RequestStep`, the end of a call whose answer nobody hears among them). Browsers, other
  clients, the clock and faults, breaks of connections among them, owe nothing. In `Shop` weak fairness of `Serve` and `Work` per slot (awaited
  steps, PostgreSQL ends every wait and every deadlock), of `Hearing` (an answer, or the error
  of a broken connection, reaches the hook) and of `Drawing` (the router ends a render).
- Nothing is assumed of customers, of the webhook, of faults, crashes and publishers.

The liveness of one row in `OutboxRelay` follows from fairness of "some row is sent", since a
batch is finite and is sent in order; the model does not give each row its own fairness.

## 5. What is proved

Every theorem is about the specification that the runs check, for every value of its constants
that satisfies the assumptions named in its module: any set of SKUs, orders, customers, requests,
any number of attempts, faults, crashes and rows. Every state invariant that a passing run checks is
a theorem, and so are the refinements and the action properties; one of them, `StockFollowsOrder`,
has hypotheses on the constants of its model, as the run has. The files are laid out the same way: the
inductive invariant, a lemma on who writes what (a step not listed leaves the variable alone),
one lemma per conjunct, the theorems.

### Inventory (`InventoryProofs`, from `InventoryAssumption`: bounds are naturals, a batch is not empty, the scheduler is not a request slot, `NoTxn` is no slot)

| Theorem | States |
|---|---|
| `TypeCorrect` | `Spec => []TypeOK`; in particular no counter goes below zero |
| `ControlCorrect` | the inductive invariant below |
| `NeverOversold` | `Spec => []StockBounds` |
| `ImplementsLedger` | `Spec => LedgerSpec`, the refinement |
| `CounterMatchesRows` | `Spec => []ReservedMatchesPending` |
| `UnitsConserved` | `Spec => []OnHandMatchesConfirmed` |
| `NothingStranded` | `Spec => []NoStrandedUnits` |
| `AnnouncedOnce` | `Spec => []ExpiryAnnounced` |

`StockBounds` is not inductive: a commit writes counters computed from the
row read earlier. `ControlInv` says why that is safe: the slot in state `locked` is the
holder of the row's lock and its copy of the row equals the committed one (`LockInv`); a
slot's transition concerns an existing reservation of that SKU and quantity
(`TransitionInv`); an id handed to a reserve is used by no other slot and has no row yet
(`ReserveInv`); the batch holds existing rows (`BatchInv`). From it every commit is one
accepted `StockLedger` operation on the current counters, every other step stutters.

The three counting theorems add `UnitsInv`: per SKU, the reserved counter is at most the
units of PENDING rows, with equality, and conservation, while no row of the SKU was
overwritten. A commit changes one row and one counter; the proof counts the
units of the row that moves (`UnitsOf` as a finite set of pairs, so that a quantity is a
cardinality) and splits on whether the row still has the status the transaction saw. If
not, `assertReservedCovers` and the row's own units bound the counter. `AnnounceInv` does
the same for the expiry: the batch and the scanner's slot hold each id at most once, and what
they hold was not announced before.

### Outbox and relay (`OutboxProofs`, `RelayProofs`, from `OutboxAssumption`, `RelayAssumption`)

`TypeCorrect`, `AtLeastOnce` (`PublishedWasReceived`), `GivenUpFairly` (`GivenUpWhenExhausted`) and
`InOrder` (`NothingOvertakes`, an action property). `OutboxInv` belongs to the table and its relay
alone and is used by the saga too: rows of a batch are still due (`BatchInv`), and a batch takes
along every older row that never failed (`OrderInv`), which is what makes `NothingOvertakes` true:
the relay of one process reads the due rows `ORDER BY occurred_at`. `AnswerInv` and `AttemptsInv`
tie what the relay has heard, but not yet written, to the row it concerns.

### Order saga (`SagaProofs`, from `SagaAssumption`)

`TypeCorrect`, `PaidOrdersAreAuthorized`, `GoodsLeaveForMoney`, `RefundsAreCaused`, with cancellations
and the TTL as early as one likes. The order in memory, the payment, the PG, the stock and the outbox
are written by different transactions, so none of the three properties is inductive.
`MoneyInv` follows the money through all of them: `Sold(o)` (the PG approved, the payment says so,
the checkout has ended, OrderPaid is in the table) is never taken back, and every other trace of
money (an event, a task of a subscriber, a cancel request that has read PAID, a confirmed line, the
order's status) has a sold order behind it; cancelled and repaid orders likewise. A webhook
or a redelivered event can then only repeat what is so. `ShelfInv` counts the PENDING lines per SKU,
so that a transition finds the units it gives back: this is the part of `TypeOK` that is hard
(`Changed` subtracts).

`StockFollows` is `Orderly => (Spec => []StockFollowsOrder)`. `Orderly` is what `SagaCrash.cfg` sets:
nobody cancels before the request has ended, the TTL outlasts the saga, rows carry the clock of their
commit, and nothing fails but the process, as often as it likes. None of
the four can be dropped: with `SagaCrash.cfg` changed in any one of them (`CancelEarly`, `ExpireEarly`,
`MaxFaults` or `Skew`) TLC finds `StockFollowsOrder` violated, since a transition that conflicts or fails in
`applyEach` is logged and not repeated. With them, for any number of orders,
lines and crashes, `OrderlyInv` holds on top of `SagaInv`:

- `SmoothInv`: no subscriber rejects (a refund finds an authorized payment, its confirmation an order
  that waits for it), so rows are sent in the order of their commits and every task belongs to the row
  being sent;
- `AloneInv`: while a request runs nobody else touches its order; what it reserved stays reserved;
- `KeptInv`, `ToldInv`, `PaidFirstInv`: a sold order holds units and hears of nothing but its sale and its
  own cancellation; an order that ended unsold has said so; a paid cancellation comes after its OrderPaid;
- `ObeyInv`: a published row has taken effect on every line of its order, and the row being sent has, or its
  task is still there. A conflict in a subscriber would be swallowed, and the row marked all the same; the
  other parts are there to show that none of the three can happen (`Obeys`).

### Sessions and the BFF (`SessionProofs`, from `SessionsAssumption`, `WebSessionAssumption`)

`TypeCorrect`, `OneAccount`, `DeadTokensStayDead`, `PasswordChangesHold`, `TokensAreSpentOnce`,
`SessionsAreLostForACause`. The invariant `SessionInv` says, part by part: there are calls enough for
every token yet to be minted (`MintInv`, a count); the map of refreshes in flight and the requests
that wait in it agree (`FlightInv`); every token in a cookie, a request or an answer was minted
(`HeldInv`), belongs to one row for good (`RowsInv`) and to the copies of that row which requests hold in
memory (`CopiesInv`); a spent token that is not in `broken` can be renewed by no row and no copy (`SpentInv`).
A refresh in the API has its entry in the map or its token is in `broken`: that is what `FlightInv` has to
allow for, as a connection may break between the API's read and its write. While none of the causes
has come up (`CauseInv`) no copy is older than a rotation, every refusal was right, and a cookie that was
used up is about to be replaced.

### Optimistic adapter (`OptimisticProofs`, from `OptimisticAssumption`)

`OptimisticKeepsThePromise` (it implements `StockLedger`), `ContentionIsReal` and `RowsStayCovered`.
The refinement is not inductive by
itself: a caller writes what it computed from a row read earlier. `ComputedInv` says that as long
as the version is the one read, what it holds is an accepted change of the committed row
(`SeenInv`), and that an uncommitted update has its row to itself (`CommitInv`). Versions only
grow, so a caller that was overtaken stays out of date and cannot write. `LostInv` counts the
commits: the attempt's number never exceeds the versions gone by since the call began.

### Error registry (`HttpProofs`, no assumption)

`EveryErrorIsRegistered`: the codes of all classes that extend `DomainError`
are exactly the codes the seven modules register, so no `DomainError` gets the fallback of `resolve()`.
`RefusalsReachTheBrowser`: `resolve()` of the API and the table `STATUS` of the BFF, which knows only some of
the `ErrorCode`s and makes a 500 of the others, fit together: a `DomainError` reaches the browser as a refusal
and never with the status of a defect. Errors that are no `DomainError` do not go through `resolve()`; the filter
makes INTERNAL_ERROR of them.

### Storefront, tab and shop (`ShopProofs`, from `StorefrontAssumption`, `GoodsAssumption`, `TabAssumption`, `DeskAssumption`)

`GoodsAssumption` says that the shop can be used at all: a price and an address can be accepted,
amounts are integers, registrations are sequences.

- `DeskContentionIsReal`, `DeskKeepsThePromise`: the desk's steps are those of the adapter, so the
  theorems about it hold of the shop.
- `ShopKeepsStore`: `StoreInv`, from which `BooksHaveOneDefault`, `CartsAreOrderedOnce`,
  `PricesAreOfOneMoment` follow. A request saves an aggregate it read earlier, so the invariant speaks of
  what each request carries along (`CarryInv`), which stays true while others go on because the
  list of prices only grows. `BooksInv` is the part on address books: new ids are nobody else's, a removed row is gone
  unless the book was raced; no two saves of a book hold one row, a save that has written a default
  holds every row that is one in the committed book, and no other save of the book has written one
  (`LockInv`); hence no commit leaves two (`DefaultsInv`). A cart ordered twice would
  need the cart back after its checkout deleted it: `GoneCartInv` says that only a save that overlapped the checkout,
  which is then on record in `raced`, can do it, and `CartIdInv` that a cart's id never changes owner.
- `OwnRowsNeverClash`: a save of a book that nobody changed finds only its own rows, and has deleted or written
  the old default before it comes to the new one (`ClashesAreRaces`).
- `ShopKeepsThePromise`: the refinement of `ShopPromise`. A save of an aggregate that nobody raced
  finds it as it was read, so it is one operation on the current value (for a book: what `CommitBook` merges is the
  book in memory); all other steps stutter.
- `ShopTypeCorrect`: `GoodsInv` adds that every cart, price, order and address, and what requests
  are about to save, can be read back: quantities are positive, totals are. The sum is a
  fold of the community modules, whose recursion the proof follows from a least subset for which
  the claim fails (`FoldIsPositive`).
- `TabFitsTogether`, `ShopperIsTold`, `ScreenIsUpToDate`, `StayOrdersOnce`: `TabInv` ties posts, slots and
  the page together (an answer is for a press that waits for it, no slot works for a closed tab).
  `ToldInv`: an order press from the mounted `CartView` that was answered and did not lead away has left a reason there.
  `FreshInv`: each part of the page is as the server has it, or a press that will ask for a reload is under way
  (`Watched`).
  `StayInv`: while no answer was lost and nothing else saves the cart, there is one checkout at a time, it works on the cart
  that is stored, and a page without lines is right. That last part is the button: it is gone when
  the lines are.

### What TLC has seen of the invariants

`StoreInv` was found by proof. Its part `BooksInv`, and `ToldInv`, `FreshInv`, `WaitInv`, `StayInv` and `GoodsInv`, were
model-checked with the constants of `Shop.cfg`, and `OrderlyInv` with those of `SagaCrash.cfg` and with two orders and two cancellations. Proving the tab
corrected the model in what the tab knows of the order a shopper already had; no property of the code changed.

### Model-checked only

- Liveness: `SelfHealing`, `HealthyRowsGetThrough`, `TtlEndsTheOrder`, `UnitsComeBack`,
  `RefundCompletes`, `RequestsEnd`, `RequestsAnswered`. Fairness and ENABLED are out of the prover's reach here.
- The properties of the violated runs are false.

## 6. Plan

Done: inventory with its refinement and proofs, the outbox, the saga, the optimistic adapter,
sessions and BFF, carts, address books, catalogue, the tab, the errors, and the proofs of all of them.
Next:

1. Shorter proofs where two modules prove the same of an outbox step.
2. `StockFollows` order by order: a cancellation, an expiry or a fault that concerns another order
   should not matter to this one, while `Orderly` speaks of all of them.

## 7. Not modelled

- Queries and the pages that only show them: order list, product list, sign-in form. They keep no
  state that a property could be about.
- The sealing of the cookie, signatures of tokens, password hashing, same-origin checks:
  assumed to do their job.
- Formats of fields in the Zod schemas; layout, wording and formatting of the views.
- The attempts of a payment other than its PG transaction; `AccountRegistered`, whose one
  listener writes to the log.
- Composition roots, configuration, migrations other than the constraints the models use, test
  doubles and the tests.
- The customer who was charged by a PG whose answer was lost: the design documents that
  the webhook never moves the order, and nothing in the code would give the money back.
- The order of framework start-up.
