# A verification project for Apparel Network

Apparel Network is a multi-store clothing marketplace: a FastAPI service over one
PostgreSQL database, with Celery workers for an event outbox and a search index.
This directory models the service's core logic in TLA+, checks the models with TLC
on small instances and proves the central results with TLAPS for every value of
the constants. Paths below are relative to `src/backend/app/modules/` unless
they start with `src/` or `docs/`.

## The system

Every request runs in one database session and one transaction
(`src/backend/app/database/session.py`): the router's service dependency
commits after the handler and rolls back on an exception. PostgreSQL runs at
READ COMMITTED. Concurrency control is of four kinds: a version on every row (a
stale writer's UPDATE hits no row), `SELECT ... FOR UPDATE` where a repository
says so, advisory locks for opening hours, and unique indexes. Nothing retries a
failed request.

| component | state | operations | what makes it correct |
|---|---|---|---|
| Inventory | one row per variant: on hand, reserved, status, version, soft delete; an append-only movement ledger | create, patch, adjust, reconcile, archive, consumption by a dispatch | quantities never go negative, the ledger accounts for every unit, an operator never takes units away from a live hold |
| Reservations | a hold with an expiry over all lines of an order | create, release, consume, lazy expiry on read | at most one active hold per order, holds fit the stock, only a consumed hold ships |
| Shipments | one shipment per reservation, items, tracking, what the carrier was told | create, pack, ship, deliver, cancel | stock leaves once, only for a paid order and a consumed reservation |
| Checkout | a session over one cart with frozen lines, prices and promotions | create, confirm, cancel, lazy expiry | one session per cart; it confirms only what it froze |
| Orders | one order per confirmed checkout | create, confirm, cancel | one order per checkout, totals copied once |
| Payments | a payment per idempotency key, moved with an external provider | create, authorize, capture, cancel | captured at most once; the provider and the row agree |
| Returns and refunds | quantities returned per line, refunds per return | create, approve, receive, inspect, refund | never more units returned than bought, never refunded beyond the price |
| Cart | one active cart per user and store | add, update, remove, delete, checkout | checked out together with its session |
| Promotions and coupons | terms, rules, tiers, limits, usage counters | create, edit, activate, archive, freeze, link | limits hold under concurrent checkouts; what is frozen is what held at the freeze |
| Pricing | prices, price lists, assignments | create, transition, assign, resolve | the preferred price wins, a status never goes back |
| Products and variants | variants with attribute values and a signature of them | create, update, assign, remove, delete | the signature names exactly the values assigned |
| Catalogs and taxonomy | catalogs, a category tree, ordered collections | create, move, archive, assign, reorder | one default, no cycles |
| Catalog ingestion | an uploaded file, its preview, its committed rows | upload, validate, commit | all rows or none, over the versions previewed |
| Stores and verification | a store and the evidence for it | create, submit, review, approve, reject, close | the two rows agree; a decision is about the evidence its reviewer saw |
| Memberships | invitations and members of a store | invite, accept, decline, suspend, remove | a removed member does not come back by an old invitation |
| Store media | image rows and bytes in object storage | upload, replace, delete, restore | a row that is shown has its bytes |
| Operating hours | rules by day, period and priority | create, update, delete; status, next opening and closing | rules never overlap; the transitions answered are those of the rules |
| Search and analytics | an index fed by tasks; daily counters | index, remove, rebuild; record, sum | only approved stores are found; counters equal the facts |
| Identity sessions | families of refresh tokens | login, refresh, revoke, clean up | one live token per family, a revocation leaves nothing live |
| Account security | failed logins, passwords, one-time tokens | login, lock, change, reset, verify | a token works once, a lock is at most a few requests late |
| Authorization | grants, cached permissions, routes and their scopes | assign, revoke, check | no access to another store; a stale entry has a cause |
| Event outbox | a row per event: pending, processing, published, failed | claim, mark, release, recover | each event reaches a terminal status |
| Notifications | delivery attempts per event, recipient and channel | dispatch, retry, preferences | nothing is sent again once a channel is over, and each is over before the event is published |

The components meet in the purchase path. A cart becomes a checkout session,
which freezes each line with the version of its inventory row and the promotions
that apply; a confirmed session becomes an order; a payment captured at the
provider confirms the order; a reservation holds the order's lines; its
consumption allows a shipment; the dispatch takes the units out of stock; the
delivered order may be returned and refunded. Each arrow is a separate request of
the customer, so between any two of them the operator may change the stock, time
may pass, or another customer may come. An import writes products, variants,
prices and stock through their services in one transaction. Events leave through
the outbox, except that the search task is dispatched from within the request.

What is hard: requests of different users interleave on the same inventory rows
and lock them in different orders; a reservation expires while a request that
read the clock earlier still runs; the payment provider, the refund provider, the
carrier, the object storage and the message gateway are called inside
transactions that may still roll back; a worker may die holding its claim on an
event; limits on promotions, failed logins and cached permissions are read in one
step and used in another.

## Modules

| module | models | builds on |
|---|---|---|
| `Stock` | inventory and reservations, one committed request per step: the abstract specification of the stock | |
| `StockTx` | the transactions behind it: unlocked reads, row locks, checks, commit | `EXTENDS Stock`, implements `Stock!Spec` |
| `Fulfilment` | order, reservation, shipment, carrier and shelf from payment to delivery | |
| `RowLocks` | the order in which requests lock the rows of a store | |
| `Checkout` | carts, checkout sessions, promotions and the placing of orders | |
| `Discounts` | promotions and coupons in full, and the redemptions a checkout freezes | |
| `Payments` | payments, the provider, and the status of the order they pay for | |
| `Returns` | returns of a delivered order, refunds and their provider | |
| `Notifications` | the event outbox and the dispatcher that drains it | |
| `Sessions` | refresh sessions | |
| `Accounts` | failed logins, passwords, one-time tokens | |
| `Permissions` | grants and their cache | |
| `Routes` | what every route asks for and what every role is granted | |
| `Access` | a request that passes route, scope and row while roles and seats change | `EXTENDS Routes` |
| `Stores` | stores and their verification | |
| `Memberships` | members and invitations | |
| `MediaShelf` | what the images of a store promise | |
| `StoreMedia` | images with their storage transactions | implements `MediaShelf` |
| `StoreHours` | opening rules, the status and the next transitions | |
| `Search`, `Analytics` | the index and its tasks; the daily counters | |
| `Variants`, `Prices`, `Ingestion`, `Taxonomy` | the catalog | |
| `MCStock`, `MCStockTx`, `MCPurchase`, `MCWorkers`, `MCIdentity`, `MCStores`, `MCCatalog` | values of the constants, symmetry, and several systems side by side | the modules they EXTEND |
| `Stock_proofs` | theorems about `Stock`, `StockTx`, `Fulfilment` | |
| `Purchase_proofs`, `Returns_proofs` | theorems about `Checkout` and `Payments`; about `Returns` | |
| `Identity_proofs` | theorems about `Sessions`, `Accounts`, `Permissions`, `Access` | |
| `Stores_proofs` | theorems about `Stores`, `Memberships`, `StoreMedia`, `StoreHours`, `Search`, `Analytics` | |
| `Catalog_proofs` | theorems about `Prices`, `Variants`, `Ingestion`, `Discounts` | |
| `Workers_proofs` | theorems about `RowLocks`, `Notifications` | |
| `SumTheorems` | lemmas about sums over finite sets, which the proofs about returns, counters and promotions cite | |

An MC module puts systems that share no state into one run: the variable `part`
says which of them a behaviour is about, and the others keep their initial state.
Each part is explored exactly as on its own.

The modules share a pattern. A table of the database is a function from
identifiers to rows, with a value of its own (a status `"none"`, `NoStore`,
`NoPrice`, ...) for a row that is not there yet. A request that reads, does
something else and then writes is a record in `tx[w]` (or `work`, `handling`,
`process`, `styling`, ...), written by a `Begin` action and consumed by an action
that makes the version checks and meets the unique indexes of the code; a
rollback ends it without a trace in the tables at any moment, for a 409, an
exception, a victim of the deadlock detector or a crash of the process. A request
that reads and writes in one guarded statement is one action. Where no status of
a row is entered twice the version is left out, because "the version is the one I
read" then says the same as "the status is the one I read"; all other rows keep
theirs.

The comment at the head of every module says what it covers, the comments at its
VARIABLES which rows they are, and the comments at its actions which conditions
they come from; `PROJECT.json` maps every definition to its lines. What follows is
how the actions correspond to the code.

### Stock and StockTx

`stock[i]` is the `inventory_items` row of item `i` (version 0: not created yet),
`ledger[i]` the sum of `quantity_delta` over its `inventory_movements`,
`snapshot[o][i]` the inventory version copied from the checkout to the order
item, `hold[o, a]` the `a`-th reservation of order `o`, `shipped` the orders
dispatched and `clock` the wall clock. `quantity_available` is always on hand
minus reserved, so it is an operator.

| action | code |
|---|---|
| `Create`, `LegacyUpdate`, `ApplyQuantity`, `Archive` | `InventoryService.create`, `update_owned`, `adjust_owned` and `reconcile_owned`, `delete_owned` |
| `CheckoutLine` | `CheckoutService._prepare_item`, one line read without a lock |
| `Reserve`, `Release`, `Consume`, `Expire` | `ReservationService.create`, `release_owned`, `consume_owned`, `_expire_if_needed` |
| `Dispatch` | `ShipmentService.ship_owned` with `InventoryService.consume_reservation` |
| `Tick` | the passing of time |

A request reads the clock once when it starts and uses that reading to the end.
`Readings` is therefore any time up to `MaxLag` ticks ago: a reservation whose
expiry passes while its request waits for a lock is still consumed. An order has
room for several reservations, because a released or expired one may be followed
by another. Holds are counted by their expiry and not by their status, as
`active_quantity` does.

In `StockTx`, `tx[w]` is the request worker `w` serves, with what it read before
any lock, and `got` the inventory rows it has locked. `BeginReserve`, `BeginShip`,
`BeginEntry` and `BeginFinish` are the reads; `LockRow` is a
`SELECT ... FOR UPDATE` of the next row in identifier order followed by the
checks the code makes on it; the `Commit` actions write everything at once, under
the version checks and the unique index that hold at that moment; `Reject` is
a 409 and `Rollback` a crash or a victim of the deadlock detector. Requests
that touch one row in one statement are steps of `Stock` itself. `ImplementsStock`
is `Stock`'s specification under the identity mapping: every action that only
reads or locks is a stutter of `Stock`, and every commit must be one of its actions.

### Fulfilment

Every order is for one unit of one item. `purchase[o]` is the status of the order
and whether its payment is captured, `booking` the reservations, `parcel[o]` the
only shipment the order can have (`uq_shipments_order`), `shelf` the inventory
row, `taken[o]` the movements of its dispatch, `carrier[o]` what the carrier was
told (a label, a void, a manifest), which no rollback takes back.

| action | code |
|---|---|
| `Pay`, `ConfirmPurchase`, `CancelPurchase` | `PaymentService.capture_owned`, `OrderService.confirm_owned`, `cancel_owned` |
| `BeginBook`/`Book`, `BeginFinishBooking`/`FinishBooking`, `Lapse`, `ExpireBooking` | `ReservationService` |
| `BeginShipment`/`CreateShipment`, `BeginPack`/`Pack`, `BeginDeliver`/`Deliver`, `BeginCancelShipment`/`CancelShipment` | `ShipmentService.create`, `pack_owned`, `deliver_owned`, `cancel_owned` |
| `BeginDispatch`, `TakeUnits`, `Ship` | `ShipmentService.ship_owned`: the manifest, the units of the locked row, the shipment |
| `Restock` | a count of the shelf |

### RowLocks

A request is the sequence of row locks it takes: `FOR UPDATE`, or `KEY SHARE` for
a row that an inserted row refers to. `script[w]` is that sequence and `got[w]`
how much of it is held; `Lock` takes the next one when no other request holds a
conflicting lock, `Finish` gives all of them back, and `Victim` is PostgreSQL's
deadlock detector.

| kind | code | locks |
|---|---|---|
| `reserve` | `ReservationService.create` | items FOR UPDATE by identifier, then KEY SHARE of the store |
| `ship` | `ShipmentService.ship_owned` | each item FOR UPDATE by identifier, with KEY SHARE of the store after each |
| `count` | `adjust_owned`, `reconcile_owned`, `update_owned`, `delete_owned` of inventory | one item, then its store, both FOR UPDATE |
| `order` | the insertion of order items and checkout items | KEY SHARE of the store, then of each item in the order of the cart |
| `import` | the commit of an uploaded file | counts in the order of its rows |
| `return` | `ReturnService.create` | items FOR UPDATE in the order they are requested |

### Checkout and Discounts

`cart[c]` is a cart with its only line, `session[c]` the checkout session of that
cart (the unique index on `cart_id` is not partial, so a cart has one for ever),
with the quantity, subtotal, discount and redemptions it froze, `orders[c]` how
many orders refer to it, `promo[p]` the status of a promotion and `price` the
current price of the product. `limits` remembers which promotions were locked when
the session was evaluated; no column holds it, and no guard reads it.

| action | code |
|---|---|
| `CreateCart`, `BeginEdit`/`CommitEdit`, `DeleteCart` | `CartService.create`, `add_item`/`update_item`/`remove_item` with `touch`, `delete_owned` |
| `BeginOpen`, `InsertSession` | `CheckoutService.create` up to the flush of the session: the cart is priced anew, and a second insert for one cart waits for the first |
| `LockLimits`, `Evaluate`, `CommitOpen` | `PromotionEvaluationService.freeze_checkout`: the listed promotions are locked, the cart is read a second time with the prices stored in it, the redemptions are written |
| `BeginFinish`, `CommitConfirm`, `CommitCancel`, `Expire` | `confirm_owned` with `CartService.checkout_owned`, `cancel_owned`, `_expire_if_needed` |
| `BeginOrder`, `CommitOrder` | `OrderService.create` |
| `Activate`, `Archive`, `SetPrice` | the store's side |

`Checkout` has promotions of a fixed amount; `Discounts` has the freeze on its own
with every type, rule, tier and coupon. `List`, `LockRows`, `EvaluateCart` and
`Redeem` are the four stages of `freeze_checkout`, between which the owner edits
(`UpdatePromotion`, `ActivatePromotion`, `ArchivePromotion`, `DeletePromotion`,
`CreateCoupon`, `UpdateCoupon`, `DeleteCoupon`) and days pass; `LinkOrder` and
`CompleteOrder` are what an order makes of its redemptions. `termsAt` remembers the
terms of every version of a promotion, so that a redemption can be held against
the version it was frozen from.

### Payments

A payment identifier is generated with its order and key; `provider[p]` is what
the provider has done for it, and does not roll back. `BeginCreate` and
`BeginTransition` are the reads, `CallProvider` the call of the provider inside the
open transaction, and `CommitCreate`, `CommitTransition` and `CommitCapture` the
commit under the version that was read before the call (`CommitCapture` also
confirms the order, in the same transaction). `ConfirmOrder` and `CancelOrder` are
the endpoints of `OrderService`, which need no payment.

### Returns

`ret[r]` is a return with the units of each line, `refund[r]` the refund of that
return, `paidBack[r]` what the refund provider did. `BeginReturn` reads the order,
`LockLines` waits for the lock on its lines and counts the units already in other
returns, `CommitReturn` stores the return. `Move` is a transition of
`ReturnService`, `CreateRefund`, `BeginProcess`, `AskProvider` and `CommitProcess`
are `RefundService`. `CancelReturnedOrder` may come at any time, as in `Payments`.

### Notifications

`event[e]` is an outbox row, `note[e][c]` the notification of the event on a
channel, `gateway[e][c]` the identifiers under which the gateway has sent, and
`tx[w]` the transaction of one run of the Celery task: the events it claimed with
`FOR UPDATE SKIP LOCKED`, what became of those it has processed, and the
notifications it is about to write. `Claim`, `Handle` and `CommitRun` are
`dispatch_pending`. A row is `due` when its `available_at` or `next_retry_at`
has passed. A claim is never committed before the mark that follows it, so the
status `processing` and the branch for an expired lease are never seen.

### Sessions, Accounts, Permissions

`Sessions`: `sessions[s]` is an `identity_refresh_sessions` row with its family
and parent, `request[r]` what a request has read and which rows it has locked.
`Login` opens a family; `BeginRefresh` reads and locks the token, and `Rotate`,
`RefreshExpired`, `RefreshReused` and `RefreshIneligible` are the outcomes; a bulk
revocation (`RevokeOne`, `RevokeOthers`, `ResetPassword`, a reused token) fixes the
rows it looks for when its statement starts, locks them one at a time (`LockNext`),
looks at each again under its lock, and commits (`Commit`). `Logout` and `LogoutAll`
do the same but end in `AnswerLogout`, without a commit (see below); `Cleanup`
deletes old rows.

`Accounts`: a login reads its account (`BeginLogin`), counts the failures in the
window (`CountFailures`) and commits its attempt and perhaps a lock
(`FinishLogin`), three steps between which other logins do the same.
`ChangePassword` checks the history; `BeginRequest`/`FinishRequest` issue a token
and `ReadToken`, `LockAccount`, `FinishReset`/`FinishVerify` use it. `uses` and
`lockedAt` are history variables.

`Permissions`: `CacheMiss` reads the generation and version keys and the grants,
`StoreEntry` writes the entry back under the key as it then is, `StoreFails`,
`ExpireEntry` and the failures of the invalidation are Redis; `AssignRole`,
`RevokeRole`, `AssignPermission` and `RevokePermission` commit first and invalidate
after (`InvalidateUser`, `InvalidateAll`, `InvalidationFails`).

### Routes and Access

`Routes` is data read off the routers and the migrations: every route with the
permission it requires and the scope its service puts on the row, and every
migration's grants. `Access` lets one request at a time pass three points, `Ask`
(the permission), `Find` (the row within the scope) and `Finish`, while roles are given
and taken and people are invited, suspended and removed between any two of them.

### Stores, Memberships, StoreMedia, StoreHours

`Stores`: `CreateStore`, `UpdateStore` and `CloseStore` are single statements.
`BeginSubmit`, `Review`, `Approve` and `Reject` read the store; `ReadVerification`,
`AddVerification` or `WriteVerification` and `MoveStore` are the statements that
follow, and `CommitReview` the commit. `Look` is an administrator reading the
evidence, which a decision's version refers to.

`Memberships`: `BeginInvite`/`Invite` and `BeginAccept`/`Accept` read and then
write; `Decline`, `Suspend`, `Reactivate`, `UpdateRole` and `Remove` are single
updates under status and version; `ListMembers` adds the owner's own row,
`WeekPasses` lets invitations expire, `DeleteStore` closes the store.

`StoreMedia`: an upload is `StartUpload`, `Put` (the bytes), `ReadActive`,
`ArchiveActive` (the logo or banner it replaces), `Insert` and the commit; a
deletion is `StartDelete`, `Copy` to a tombstone, `RemoveSource`, `SoftDelete` and
the commit, then `Purge`. `CommitFails` leads to the compensation (`UndoUpload`,
`RestoreCopy`, `RestoreClear`), `CommitUnanswered` is a commit that succeeded
without an answer, `DeletionRefused` an S3 error, `Crash` the end of the process
between any two steps. `Reorder` and `Update` are the remaining edits.

`StoreHours`: `BeginCreate`/`FinishCreate` and `BeginUpdate`/`FinishUpdate` take
the advisory lock of the day and priority, look for overlaps and write; `Delete`
needs no lock. `OpenAt`, `NextOpening` and `NextClosing` are the algorithms of
`operating_hours_services.py` over slots of a week, checked at every instant of it
against the reference definition in `TransitionsExact`.

### Search and Analytics

`Search`: a request `Write`s a store and queues its task there and then, before
`CommitWrite` or `RollBackWrite`; `AskStatus` and `AskRebuild` queue too. A worker
`Take`s a task, `Configure`s the index, reads the store as committed
(`ReadStore`), writes or removes its document (`WriteIndex`) and acknowledges;
`ProviderFails` and `WorkerLost` are the failures and retries.

`Analytics`: `BeginRecording` inserts the fact, `CountSource` counts members or
bytes again as the request sees them (a request whose own change another one has
made meanwhile fails on its row instead), `ApplyDaily` updates or inserts the row of the day (waiting for one
another inserts), `CommitRecording` and `RollBackRecording` end; `DayPasses`.

### Variants, Prices, Ingestion, Taxonomy

`Variants`: `BeginCreateVariant`, `BeginUpdateVariant`, `BeginAssignValue` and
`BeginRemoveValue` read the values and compute the signature to be; the action
without `Begin` writes values and signature under the version read and the unique
index over signatures. `DeleteVariant`, `DeleteValue`, `ArchiveAttribute` and the
creation of values go on beside them.

`Prices`: `BeginUpdatePrice` validates the transition on what it read,
`UpdatePrice` writes under the version; lists and assignments change in single
statements. `Resolve` is `PricingResolver.resolve` with the sort keys of
`price_list_repositories.py`, checked in every state against `ResolvedIsBest`.

`Ingestion`: `CreateImport`, `BeginUpload`/`FinishUpload` (a checksum another
upload has not committed yet is not seen), `UploadImage`, `Validate` (the preview notes key and
version of every row it matched), `BeginCommit`, then one `CommitPart` for every
service call of a row and `CommitImage` for its image, and at the end
`FinishCommit`, or `FailCommit` (back to the savepoint, status `failed`) or `Break`
(the whole request rolls back). `EditRow`, `DeleteRow` and
`AddRow` are the owner's own changes.

`Taxonomy`: catalogs with their default, categories whose parent is checked by
walking up unlocked rows (`BeginUpdateCategory`) before the write
(`UpdateCategory`), and collections with an order.

## What the runs check

Every property has a mutant: a small change of a definition that models code, of
the kind a bug would be, under which the property fails in the same run.

| run | bounds | shows |
|---|---|---|
| `stock` | 1 item, 2 orders of 1 and 2 units with 2 reservations each, up to 2 units on the shelf, row versions up to 3, 1 tick; besides, 2 paid orders of one unit, or one order reserved twice, with 2 requests, 1 unit in stock and 1 restocked | the ledger is exact, only a dispatch can leave a hold without stock; the units of a paid order leave once, and only behind a payment, a consumed reservation and what the carrier was told |
| `stock_tx` | 1 item, 1 order with 2 attempts, 2 workers, row versions up to 3, 1 tick | every commit of interleaved transactions is an atomic step of `Stock`; what was checked under a lock stays true |
| `purchase` | 2 customers with a cart, 1 promotion with one use, 2 requests; 1 order, 2 keys with 2 identifiers each, 2 requests; 2 lines of 1 unit at prices 1 and 2, 3 returns, 2 requests | cart, session and promotion stay together; one capture, rows behind the provider; units and money are returned once |
| `workers` | 1 event, 2 channels, 2 workers, 2 claims, 1 retry, 2 identifiers; 2 items and their store, 2 transactions of all six kinds | nothing is sent for a notification that is over, every event settles; reservations and dispatches never wait in a circle |
| `identity` | 1 account, 3 sessions, 2 requests, time up to 2; 2 tokens, 2 requests, 2 passwords, thresholds 2 and 3, 3 instants; 2 principals, 1 role, 1 right, 1 check, 2 changes; 2 persons, 1 store, 3 roles one of which is held, every route | sessions, lockout, one-time tokens, the permission cache and tenant isolation |
| `stores` | 1 store, 2 administrators, 2 requests, 2 pieces of evidence; 2 people and 2 membership rows; 3 images of 2 types, 2 requests, 1 failure; 2 rules out of 7 candidates in a week of 2 days of 3 slots; 1 store with 2 writers, 2 index workers, 2 queued tasks, 1 mishap; 2 days, 3 facts | verification, memberships, image storage, opening hours, search and analytics |
| `catalog` | 2 variants, 3 values of 2 attributes; 2 prices, 2 lists, 2 groups; 2 imports of 2 files, one of two rows; 2 catalogs, 2 categories, 1 collection, 2 products; 2 promotions, 1 coupon, 2 freezes | signatures, price resolution, imports, discounts |
| `oversubscribe`, `payment_provider`, `logout`, `search_status`, `taxonomy_cycle` | those of the run they belong to | the disagreements below |

Properties, by run:

- `stock`: `LedgerExact` (the movements add up to the shelf);
  `OnlyDispatchUncovers` (creation, patches, counts, archival, reservation, release,
  consumption, expiry and time never push the holds of an item above what is
  available); `LeavesOnce` (the units of an order leave the shelf exactly when its
  shipment is dispatched, once); `ShipmentBacked` (a shipment stands on a paid
  order and a consumed reservation, and is packed and sent only after the carrier
  was told).
- `stock_tx`: `CheckedStaysTrue`, `ImplementsStock`.
- `purchase`: `ConfirmedTogether` (a session is confirmed exactly when its cart is
  checked out), `LockedWithinLimit` (checkouts that locked a promotion never use it
  beyond its limit); `OneCapturePerOrder`, `CapturedOrderConfirmed`,
  `RowsFollowProvider`; `NeverOverReturned`, `NeverOverRefunded` (at the provider,
  although the code limits completed refunds only), `RefundFollowsProvider`.
- `workers`: `PublishedWhenOver`, `NothingSentTwice`, `EventSettles` (liveness),
  `OrderedNeverDeadlock`.
- `identity`: `OneLivePerFamily`, `RevocationCovers` (what a revocation found when
  its statement started is over when it commits), `TokenWorksOnce`,
  `LockoutLagsAtMost` (failures that set no lock are fewer than the threshold plus one
  for every further concurrent login), `StaleHasCause` (a cached permission
  differs from the grants only while an invalidation is pending or lost, or after a
  change overtook the read it was made from), `TenantIsolation`, `StaffDecides`.
- `stores`: `RowsAgree`, `DecidedAsShown`, `RemovalSticks`, `NoOverlap`,
  `TransitionsExact`, `ImplementsShelf`, `OnlyApproved`, `CountersMatchFacts`.
- `catalog`: `SignatureExact`, `ResolvedIsBest`, `NeverBack`, `AllOrNothing`,
  `AppliedAsValidated`, `WithinLimits`, `SnapshotTrue`.

Why these bounds are enough to be of use: the hazards are races of two requests
over one row, so two workers reach all of them; for circles of more than two in
`RowLocks`, and for any other number, there are the proofs. Two orders of one and
two units over a shelf of at most two make stock both sufficient and short. One tick
with a lag of one lets a request use a reading from before an expiry. One use of a
promotion and two carts make the limit bind. Two keys and two identifiers for each
give a payment that is repeated under its key and one that is not. Three returns of
two units are one more than can be accepted. Two claims and one retry reach the
final error of an event and the final refusal of a notification. Three sessions are
a login, a rotation and one more of either. One failure in `StoreMedia` may fall on
any call, with another request under way. A row of version 1 that may be changed
once is stale for whoever read it before.

The bounds `MaxVersion`, `MaxClock`, `MaxLag`, `MaxTtl`, `MaxAttempts`,
`MaxRetries`, `MaxKeys`, `MaxTime`, `Horizon`, `MaxChanges`, `MaxHeld`,
`MaxRevision`, `MaxEdited`, `MaxChanged`, `MaxFaults`, `MaxRevised`, `MaxQueued`,
`MaxTries`, `MaxMishaps`, `MetricDays`, `MaxFacts`, `MaxVariantVersion`,
`MaxPriceVersion`, `MaxRowVersion`, `MaxTaxonVersion`, `MaxTerms`, `MaxVoucher` and
`MaxRestock` are constants, each in a guard or saturating; `MaxDemand`,
`MaxQuantity` and `InStock` bound quantities. Some are the code's own limits
(attempts and retries of the outbox and of a task, the thresholds, window and
history of an account), given small values.

Symmetry is used for requests, workers and persons that no definition tells
apart, never in the run with liveness. The systems may stop where a bound is
reached, a session finished or a status terminal, so the configurations say
`CHECK_DEADLOCK FALSE`; circular waiting is stated as `OrderedNeverDeadlock`.

### Disagreements between the documents and the code

| run | a document or comment says | the code |
|---|---|---|
| `oversubscribe` | `docs/phase-5.4-inventory-reservation.md:37`: "This prevents concurrent holds from oversubscribing stock"; `docs/02-business-requirements.md:218`: "concurrent reservations cannot oversubscribe stock" | a consumed reservation stops counting before its shipment leaves, and another order is promised the same units |
| `payment_provider` | `docs/phase-5.3-payment-foundation.md:56`: repeating a key returns the original intent "without invoking the gateway" | two requests with one key that overlap both create an intent at the provider |
| `logout` | `identity/api/router.py:87`: "Revoke the current session" | the logout authenticates on the session it then uses and nothing commits it: the revocation is rolled back |
| `search_status` | `docs/phase-3.7-store-search.md:56`: `StoreClosed` deletes because closed stores are not public | asking for the status of a store outside its hours publishes an event of the same name (`stores/application/operating_hours_services.py:392`), and the store leaves the search |
| `taxonomy_cycle` | `docs/phase-4.2-product-categories-collections.md:14`: "hierarchy cycles are rejected" | two concurrent moves each find no cycle |

### Behaviour no property is stated about

Met while modelling, with no document to hold it against:

- *Purchase.* A return is created for an order cancelled between its read and its
  insert (`returns/application/services.py:97`). A refund the provider leaves in
  `processing` is moved by no request (`returns/application/services.py:466`). A cart
  past its expiry can be neither deleted nor replaced, because nothing calls
  `expire_owned` (`cart/application/services.py:313`). A paid order cannot be
  reserved after any change of its item's version, a restock included. A shipment
  cancelled blocks its order for ever (`uq_shipments_order`). The carrier keeps the
  label or manifest of a request that rolls back, and a cancellation that loses to a
  dispatch has voided the label all the same. The expiry a read stores for an
  overdue reservation is undone by the 409 that follows.
- *Promotions.* A promotion activated between the listing and the evaluation is
  redeemed without its lock (`promotions/application/services.py:662`), which is why
  `LockedWithinLimit` and `WithinLimits` speak of locked ones; one archived between
  the evaluation and a third listing ends in a `KeyError`. A cancelled checkout does not
  give its redemptions back. The last tier reached applies, not the best. Of two
  codes of one promotion the last wins; the code of a deleted coupon is never free
  again. A first-purchase promotion applies to every checkout opened before the
  first order.
- *Events.* After a rollback a notification is sent again under a new identifier,
  because the row that held the first is gone
  (`notifications/application/dispatchers.py:214`). Polls count as attempts, and a
  recovered event keeps them, so that its next error may be final
  (`src/backend/app/events/infrastructure/repositories.py:136`).
- *Identity.* A login lifts a lock set after it read the account. The clean-ups
  have no caller, so nothing is assumed of their fairness. A customer packs and
  dispatches his own order; store staff hold permissions that no scope open to
  a member uses; only `super_admin` may create a store.
- *Stores.* Of two deletions of one image the one that loses moves its tombstone
  back, so the object returns under the key of a deleted row
  (`stores/infrastructure/media_transactions.py:66`). The search task is dispatched
  before the commit, so that a worker may read the old row and leave a verified
  store out; a stale worker puts back the document of a deleted store; a close that
  rolls back has removed it; a rebuild removes nothing. Two concurrent
  acceptances of invitations may leave `active_members` one too low.
- *Catalog.* An import does not compare the versions of rows it found unchanged, so
  it completes over rows that were changed or deleted meanwhile; an import of a SKU
  whose product is deleted never succeeds. A default catalog cannot be deleted, and
  a second default is a 500. Concurrent creations may leave two active
  prices of one product. A deleted price list keeps its assignments. A client that
  guesses a future version of a variant makes its signature stale, which the model
  excludes by letting requests name versions they have read.
- *Locks.* Orders, imports and returns lock rows in other orders than reservations
  do, and may deadlock with them; PostgreSQL ends one of them.

### Fairness

Safety is checked without fairness. `EventSettles` is checked under
`OutboxFairness`: weak fairness of `EventDue` (time passes) and of `Claim` for each
event (the beat starts the task every ten seconds, `src/backend/app/worker.py`, and
a claim takes every due row nobody has locked); strong fairness of `NoteDue`,
`Handle` and `CommitRun` for each event, which says that the worker is not killed
before its commit each time the event is claimed. Nothing forces the gateway to
accept, the administrator to recover or the customer to stop switching channels.

## What is proved

TLAPS proves the following for every value of the constants that satisfies the
named `ASSUME`s of the modules: any number of requests, items, orders, events,
people and rules. Every safety property of the passing runs is among them.
The assumptions say what kind of thing a constant is (finite sets, natural numbers,
a null value that is no row), what validation guarantees of an input, or what the
schema does (a coupon's limits, the length of a week). TLC evaluates each of them.

| module | theorem | says |
|---|---|---|
| `Stock_proofs` | `TypeCorrect`, `AvailabilityHolds`, `LedgerHolds` | rows are well formed, availability is never negative, the ledger is exact |
| | `OneActiveHolds`, `ShippedHolds` | one active hold per order; what was shipped was consumed |
| | `OnlyDispatchUncoversHolds` | no step but a dispatch takes units away from a live hold |
| | `CheckedStaysTrueHolds`, `TransactionsImplementStock` | what is checked under a lock is true at the commit; `StockTx` implements `Stock` |
| | `LeavesOnceHolds`, `ShipmentBackedHolds` | `Fulfilment` from payment to delivery |
| `Purchase_proofs` | `CheckoutTypeCorrect`, `Together`, `NotEmpty`, `WithinLimit`, `OneOrder`, `Frozen` | carts, sessions, promotions and orders |
| | `PaymentsTypeCorrect`, `OneCapture`, `CaptureConfirms`, `OnePayment`, `RowsFollow`, `Final` | payments and their provider |
| `Returns_proofs` | `NeverOverReturnedHolds`, `NeverOverRefundedHolds`, `RefundFollowsProviderHolds`, `RefundedTogetherHolds` | returns and refunds |
| `Identity_proofs` | `OneLiveHolds`, `RevocationHolds` | sessions |
| | `TokenOnceHolds`, `LockoutLagsHolds` | accounts |
| | `StaleCauseHolds`, `IsolationHolds`, `StaffDecidesHolds` | authorization |
| `Stores_proofs` | `RowsAgreeHolds`, `DecidedAsShownHolds`, `RemovalSticksHolds` | verification and members |
| | `NoOverlapHolds`, `TransitionsExactHolds` | opening hours |
| | `MediaImplementsShelf` | `StoreMedia` implements `MediaShelf` |
| | `OnlyApprovedHolds`, `CountersMatchFactsHolds` | search and analytics |
| `Catalog_proofs` | `SignatureExactHolds`, `ResolvedIsBestHolds`, `NeverBackHolds` | variants and prices |
| | `AppliedAsValidatedHolds`, `AllOrNothingHolds` | imports |
| | `WithinLimitsHolds`, `SnapshotTrueHolds` | promotions and coupons |
| `Workers_proofs` | `OrderedNeverDeadlockHolds`, `PublishedWhenOverHolds`, `NothingSentTwiceHolds` | row locks and the outbox |

Each proof has the same shape: an inductive invariant whose conjuncts are named,
one lemma per action or family of actions, and a last step that combines them.
What the invariants add to the properties is the argument:

- *Stock.* `IInv` adds that an item that does not exist has no units and that every
  hold of an active reservation is within its order. Availability is a statement
  about sums over orders; the proof counts the set `HeldUnits` of pairs of a
  reservation and a unit, so that reserving and releasing add and remove a set of
  known size. A hold that is still counted after its reservation was consumed is
  what makes a dispatch the exception in `OnlyDispatchUncovers`.
- *StockTx.* `TxInv` says that no two workers hold a lock on one row (`LocksApart`),
  that a version that still is the one read means that the row is the one
  read (`ReadsLast`), and that checks outlive the steps of the others
  (`CheckedStaysTrue`). From it each commit is a step of `Stock` (`StepOfStock`),
  and everything else a stutter. `Stock`'s own theorems then hold of the transactions.
- *Fulfilment.* Every status is entered once and with a new version
  (`VersionsTell`), so a request that still finds the version it read knows the row
  (`HandlingKnows`); the shelf is held by one dispatch (`ShelfLocked`).
- *Checkout, Payments.* A session's insert under the unique index opens alone
  (`OpensAlone`), and who locked a promotion keeps its count (`LimitsLocked`). A
  capture finds its order pending or fails under the version it read, although the
  provider was called in between.
- *Returns.* Only one request holds the lines of an order (`OneHoldsLines`) and its
  units fit beside those of the returns it counted (`LockedFits`). Refunds are of inspected
  returns for no more than their lines cost, so the bound on units is a bound on
  money. Both are sums over finite sets; `SumTheorems` proves about
  `SumFunctionOnSet` what is needed, by an induction over the subsets of the set
  that is stated with a set instead of an operator.
- *Sessions, Accounts, Permissions, Access.* A family is born with one session, and
  what follows another in it was made under the lock of the one it ends
  (`FamiliesBorn`, `OneLivePerFamily`, `HeldApart`); `UsedAreUsed` ties uses to
  tokens; `FailuresLag` and `LoginsLag` bound the failures by the count each request
  has read; `ChecksKnow` and `KeysBounded` say what an outstanding read of the cache may
  know. `AccountsAssumption` states of the powers of two in the lock durations
  what the provers cannot compute. For `Access`, all routes are examined
  against the grants (`RoutesAskForStaff`).
- *Stores.* The two rows are in one of five combinations, and a transaction that has
  written the first holds the row it writes next (`Story`, `ProcessTrue`,
  `HeldOnce`); a version seen tells the evidence seen (`SeenTrue`). An open
  membership is the newest of its user (`OpenIsNewer`, `PendingBesideLive`). A rule
  a request is about to write is free of overlaps since it took the lock of its
  scope (`StillAccepted`).
- *Opening hours.* `TransitionsExactHolds` needs of the state only that rules are
  valid and the arithmetic of days and slots: between two boundaries of the rules
  that are looked at, and within a day, `_resolve` picks the same rules
  (`OnlyBoundariesMatter`); every boundary of the days ahead is a candidate
  (`DayAhead`), so the first candidate that opens is the first slot that does.
- *StoreMedia.* `MediaInv` relates every step of an upload or a deletion to the
  bytes, tombstones and rows it has dealt with (`UploadTrue`, `DeleteTrue`,
  `LocksTrue`), and gives `BytesOfRows`; with it each action is a step or a
  stutter of `MediaShelf`.
- *Search.* Who changes a store holds its row from the statement that looked at its
  status to the commit (`HeldStatus`), and approval, once given, is never taken back
  (a closed store was approved once), so what a worker has read of an approved store
  stays approved (`ReadApproved`) however tasks are repeated or reordered.
- *Analytics.* A row of a day is written by one transaction at a time
  (`DayWrittenOnce`), on what was last committed (`WrittenOnLatest`), with the
  facts in the same commit (`DaysExact`); the summary of a period is a sum over days
  without a row, which count nothing, and days with one.
- *Promotions.* The counters of a promotion, a coupon and a customer are the number
  of their redemptions (`UsageExact`), so the sum of a customer's counters over all
  coupons is the number of his redemptions; what was evaluated of a locked
  promotion stays true until it is redeemed (`LinesTrue`), because whoever adds a
  redemption or rewrites the terms waits for the lock (`LockedByOne`).
- *Catalog.* A signature written under the version of the row is that of the values,
  because whoever changes the values raises the version; a price's status after the
  version a request read is never behind it; an import's undo log restores the
  catalog its savepoint saw.
- *RowLocks.* The kinds in `Ordered` lock items in ascending order and
  stores in a mode that does not conflict among themselves; in a circle of waiting requests the
  greatest row awaited would be below itself (`Ascends`, `Above`).
- *Notifications.* Claims are disjoint, a transaction's notes are as the tables
  were when it claimed, and an event is marked published only from notes that are
  over, in the transaction that writes them.

### What stays model-checked

`EventSettles` is a liveness property under fairness, which this prover does not
reach, and so is `ENABLED`. Induction over data is out of reach as well: the library's
induction theorems take an operator, which none of the provers can instantiate.
Where a proof needs a least or greatest element or an induction over a finite set, the
argument goes through a well-founded relation or a set of sets instead. What
the runs with an expected violation show are counterexamples, and need no proof.
`Taxonomy` has no theorem: the property its documents promise is the one that is
violated, and its version checks are those of the other modules.

## What is not modelled

- Money is small numbers without currencies' decimal places; a cart has one line in
  `Checkout` (several in `Discounts`), and promotions of a fixed amount there. Text
  (names, notes, slugs, locales), pictures of products, pagination and formatting are left out.
- The middleware of the API: idempotency contracts, rate limiting, request size and
  security headers, metrics and logging. Each is a pure function of one request or an
  operation of Redis; the keys of payments, which the code implements itself, are
  modelled in `Payments`.
- Parsing of spreadsheets: an import starts with the rows that were parsed.
- Signing of tokens and hashing of passwords: a token is a value nobody guesses.
- PostgreSQL, Redis, the object storage, the index and the gateways are modelled from
  how the code uses them: row locks and unique indexes that wait, statements at READ
  COMMITTED that look at a row again after waiting, a commit that may succeed
  without an answer.
- The dashboard, the storefront and the shared packages, the migrations other than
  the data they insert, and the infrastructure files.

## Plan

The models cover the components listed above. What would add to them, in order:

1. the theorem that a single mover of categories leaves the tree acyclic, with
   the ranks that replace the induction over paths;
2. `Stock` as the abstract specification of the shelf of `Fulfilment`, with the
   refinement between them;
3. in `Checkout`, several lines with reservations of different orders, and the
   amounts of `Discounts` instead of fixed ones.
