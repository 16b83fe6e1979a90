# Verification of the marketplace back end

TLA+ specifications of the store back end in `src/`: a NestJS application that
keeps its state in PostgreSQL through TypeORM. The specifications follow the
code, statement by statement where the order of statements matters; TLC checks
them on small instances and TLAPS proves most of the invariants for every size.

Five models cover it. `Reservations` is the stock of customer orders: how units
are reserved when an order is placed, taken when it is paid, and given back when
it is cancelled, abandoned or left unpaid; it is where the most code meets
(orders, inventory, two cron jobs, the database's isolation) and where a mistake
sells what is not there. `Stockroom` is how stock comes in and is corrected,
`Till` the point of sale, `Accounts` who may act on the platform, `Marketplace`
what the rest of the modules do to the same stores, products and orders.

## 1. Inventory of the system

One Node.js process serves HTTP requests and runs three cron jobs. Every
`await` of a handler lets another handler run. Nothing is shared in memory but
the live notification streams; everything else meets in the database, where the
default isolation level (READ COMMITTED) and the default connection pool apply.
No code takes an explicit row lock, and no entity has a version column.

| Component | State | Operations that change it | What is hard | What makes it correct |
|---|---|---|---|---|
| Order life cycle (`orders.service.ts`) | `orders`, `order_items` | create, submitPayment, confirmPayment, updateStatus, two jobs | stale order entities saved after awaits; stock calls with and without a transaction | status machine; an order in progress holds its stock, once |
| Order jobs (`orders.scheduler.ts`) | none | release every 5 minutes, cancel daily | a run does not wait for the one before; dies midway | everything overdue is released or cancelled in the end |
| Stock allocation (`inventory.service.ts`) | `inventory_batches`, `inventory_batch_allocations`, `inventory_movements` | consumeStock, restoreStockFromAllocations, LEGACY batches, entries, adjustments | read, compute in memory, save; three tables that must agree | units free and held add up; oldest batch first; never below zero |
| Purchases (`purchases.service.ts`) | purchases, items, payments, their batches | create, registerPayment, cancel | check before the transaction; upload between read and save | a cancelled purchase leaves no units; paid amount is the sum of payments |
| Point of sale (`sales.service.ts`) | sales, items | create | second connection inside a transaction; cash and credit outside it | a sale, its stock, its cash and its credit all happen or none |
| Cash sessions (`cash.service.ts`) | sessions, movements | open, close, move, registerCashSale | read, add, save | one open session per user; expected amount is what came in |
| Customers (`customers.service.ts`) | balance and ledger | credit sale, payment, update | read, add, save | balance equals ledger and respects the limit |
| Coupons (`coupons.service.ts`) | coupons | create, validate, incrementUsage | counted after the order commits | not used more often than allowed |
| Advertising, subscriptions | their rows, flags copied to `stores` | register, cancel, expire (daily job) | two rows for one flag | the flag follows the rows |
| Accounts (`auth.service.ts`) | users, refresh tokens, recovery codes | register, verify, login, refresh, logout, recover | check then save | a token is used once; attempts are bounded |
| Invitations (`invitations.service.ts`) | invitations | create, validate, accept | validated and accepted in different calls | accepted once |
| Products, stores | catalogue rows | create, update, remove | deletions over many tables | removal leaves no half of anything |
| Reviews | reviews, images | create or update | find, then insert | one review per buyer and product |
| Notifications, push | open streams in memory; subscriptions | subscribe, unsubscribe, send | several connections of one user open and close in any order | every open stream gets its events |
| Tax (`common/utils/tax.ts`) | none | computeLineTax, summarizeTax | rounding | parts add up to the total |
| Categories, menus, suppliers, users, app-config, audit | single rows | create, update, delete | nothing beyond one statement | - |
| Dashboard, feeds, sitemap, previews | none | read-only | - | - |
| E-mail, Cloudinary, CallMeBot, Turnstile | outside services | calls | - | - |

How they call each other: orders and sales call inventory (with or without their
transaction's manager), orders call coupons, notifications and e-mail after the
commit; sales call cash and customers; purchases create batches; subscriptions
and advertising write columns of `stores`. The cron jobs call the service
methods of their module.

`PROJECT.json` lists the same components with their status, and every hazard with
the line where it bites and the property that covers it.

## 2. Modules

| Module | Models |
|---|---|
| `Reservations.tla` | the order and stock paths of `OrdersService`, `InventoryService` and `OrdersScheduler`, over four tables, with interleaving, transactions, row locks, stale entities and crashes |
| `StockPromise.tla` | the abstract account those paths promise when they do not overlap: free units, held units, the stage of each order |
| `Sums.tla` | lemmas about sums over finite sets of rows, for the proofs |
| `ReservationsProofs.tla`, `PromiseProofs.tla` | proofs about `Reservations` |
| `Stockroom.tla` | `PurchasesService` and the writes of `InventoryService` that no order is behind: entries, adjustments, LEGACY batches; consumption and restoration beside them |
| `Tax.tla` | `computeLineTax` and `summarizeTax`, as operators on hundredths |
| `Till.tla` (extends `Tax`) | `SalesService.create` with `CustomersService`, `CashService`, `AuditService` and the connection pool, and the desks' own operations |
| `Accounts.tla` | `AuthService`, `InvitationsService`, `UserService` over five tables |
| `Storefront.tla` | the rows all marketplace modules share (stores, products, orders, the rows that hang on a product) and `StoresService`'s own writes |
| `Promotions.tla` (extends `Storefront`) | coupons and the orders that use them, advertisements, subscriptions |
| `Catalogue.tla` (extends `Promotions`) | products, categories, suppliers, menu categories, favourites, reviews; removal of a product and of a store |
| `Live.tla` (extends `Storefront`) | the map of event streams and the push subscriptions |
| `Marketplace.tla` (extends `Catalogue`, `Live`) | their composition: one process, one budget of calls, one initial state |
| `StockroomProofs.tla`, `BooksProofs.tla` | proofs about `Stockroom`: types and batches; books, lots, movements and shortages |
| `TillProofs.tla`, `AccountsProofs.tla`, `MarketplaceProofs.tla` | proofs about `Till`, `Accounts` and `Marketplace` |
| `MC*.tla` | finite instances for TLC |

In every model a request slot holds at most one running handler; `req[r]` is what
the handler has in its local variables, `pc` its next statement. `used` counts
against the bounds and is not part of the system. `Die` ends a handler at any
`await`. `save()` of a loaded entity is what TypeORM makes of it: a SELECT that
finds the columns that differ by then and an UPDATE of those.

### Reservations: how the state corresponds to the code

* `batch[b]` is a row of `inventory_batches`: `available_quantity` and `status`.
  Batches are numbered in the order `consumeStock` sorts them; `LegacyBatches` are
  the `LEGACY-<product>` rows that exist once they are created (`ABSENT` before).
  No statement here deletes a batch; EXPIRED and BLOCKED are never set by it.
* `allocs` is `inventory_batch_allocations` in order of insertion; `restored` is
  `restored_at IS NOT NULL`; `line` is `reference_item_id`.
* `ledger[p]` is the sum of `quantity_delta` of the product's movements, the only
  thing any code reads of them; `Moved` is what they add up to at first.
* `order[o]` has `status`, `payment_status` and whether `payment_confirmed_at` is
  set. `age[o]` is 0, 1 (older than `RESERVATION_MINUTES`) or 2 (five days).
* `expired` are the batches whose `expires_at` has passed.
* `req[r]` holds the local variables of one running handler: its next statement
  (`pc`), the orders it loaded, the item and the quantity still needed, the
  candidates as they were read, the batch entity in hand, the columns its next
  UPDATE will write, and the rows its open transaction has written.
* `used` counts against the bounds; it is not part of the system.

### Reservations: how the actions correspond

| Code | Actions |
|---|---|
| `create` | `BeginCreate` (checks, order entity), then per item `ReadCandidates` (or `CreateLegacy`), per batch `TakeOldest`, `UpdateBatch`, `InsertAllocation`, at the end `CommitCreate` |
| `submitPayment` | `BeginSubmit`, `SelectOrder`, `UpdateOrder` |
| `confirmPayment` | `BeginConfirm`, `CheckAllocations`, the consumption as above, `SelectOrder`, `UpdateOrder` (which commits) |
| `updateStatus` | `BeginUpdate`, then the restoration (to CANCELLED) or `CheckAllocations` and the consumption (out of PENDING), both without a transaction, then `SelectOrder`, `UpdateOrder` |
| `releaseExpiredReservations` | `BeginRelease`, per order `FindAllocations`, per allocation `ReadBatch`, `SelectBatch`, `UpdateBatch`, `MarkRestored` |
| `autoCancelUnpaidOrders` | `BeginAutoCancel`, the same per order, then `SelectOrder`, `UpdateOrder` |
| exceptions | `Throw`: the handler ends, an open transaction leaves nothing, statements without one stay |
| process or connection failure | `Die`, and the second disjunct of `Post` |
| PostgreSQL | `WaitsFor` (row locks until the commit), `DeadlockVictim`, `Flush` (commit), `Sees` (READ COMMITTED plus one's own writes) |
| TypeORM `save` | two statements: a SELECT that finds the columns that differ (`Differs`), an UPDATE of those columns (`Merged`); no UPDATE when none differs |

### Reservations: what is simplified

* The product lookups, the customer, the coupon, prices, notifications and the
  access checks of these handlers are left out: they only refuse a call, or write
  tables nothing here reads. `BeginCreate` makes all its stock checks in one step;
  `consumeStock` repeats the check on what it reads itself.
* `CreateLegacy` is one step: the LEGACY lookup, the sum of the movements and the
  insertion. Two LEGACY batches of a product, which the schema allows, are not in
  the instances.
* A movement is inserted in the same step as the allocation's save before it,
  except when the request dies between the two. Movements are only summed, so no
  other request can tell.
* A `confirmPayment` updates its order and commits in one step.
* `GrowOld` (an order passes a time limit) happens only while some request could
  begin: only the first query of a cron job looks at the clock.
* Handlers of other modules that change stock (sales, purchases, adjustments) are
  in `Stockroom` and `Till`, over their own copies of the tables.

### Stockroom

`purchase[u]` is the row (`status`, `paid_amount`, `balance`), `payments[u]` its
`purchase_payments`; `batch` is `inventory_batches` in order of `received_at`, `moved[b]`
the movements of each batch added up, `allocs` the allocations of orders.

| Code | Actions |
|---|---|
| `PurchasesService.create` | `CreatePurchase`, one transaction |
| `update` | `BeginUpdate`, `SelectPurchase`, `WritePurchase` |
| `registerPayment` | `BeginPay` (load, checks), upload of the receipt, `SelectPurchase`, `WritePurchase`, `InsertPayment` |
| `cancel` | `BeginCancel` (check that no unit was drawn), `LoadBatches`, `CommitCancel` |
| `registerEntry`, `registerMovement` IN | `BeginEntry`, `InsertMovement` |
| `registerMovement` ADJUSTMENT | `BeginAdjust`, `FindLegacy`, `InsertLegacy`, `AdjustBatch`, `InsertMovement` |
| `backfillLegacyBatches` | `BeginBackfill`, per product `FindLegacy`, `InsertLegacy` |
| an order's stock, without a transaction | `BeginConsume`, `ReadCandidates`, `TakeBatch`, `InsertAllocation`; `BeginRestore`, `GiveBack`, `MarkRestored` |
| a day passes | `Expire` |

Simplified: one order item at a time; costs are small integers; suppliers, notes and
dates are left out; a `save` of a batch is one step. A loaded purchase carries its
payments, so a save that finds a payment it did not load fails, as TypeORM's does.

### Till

`stock[p]` is the one batch of a product, `customer`, `ledger`, `session`, `drawer`
the tables of customers and cash, `sales` the committed sales, `audited` the sales
with an audit record. A sale's open transaction keeps what it wrote in `req[r].wrote`
and `left` and locks those rows. `create` is `BeginSale` (checks, outside), then
`OpenTransaction`, which takes a connection for as long as the sale lasts, then per
item `CheckStock` (on a second connection), per item `ReadBatch` and `TakeUnits`, then
`LoadCustomer`, `SelectCustomer`, `WriteCustomer`, `InsertEntry` (credit, second
connection), `LoadSession`, `SelectSession`, `WriteSession` (cash, second connection),
`LogAudit` (second connection), `Commit`. The same statements, on their own, are
`registerPayment`, `update`, `openSession`, `closeSession` and `addMovement`. Opposite
baskets deadlock on the row locks and PostgreSQL aborts one (`DeadlockVictim`).

Simplified: the LEGACY fallback and batches beyond one per product (in `Stockroom`);
`customers.create`; discounts on a sale, which the code does not have. `Tax` counts in
hundredths of a peso; `Math.round` of an exact half goes up, and the binary fractions of
JavaScript's doubles are not modelled.

### Accounts

`users`, `customers`, `refresh`, `codes`, `invites` are the tables in order of insertion,
`here` whether the row still exists; `stores` the users who got a store. Remembered and
not stored: how an account came about, the token a refresh token was issued for, how
many wrong answers a code judged and how many passwords it set.

Simplified: reads that follow each other are one step, and so is a `save`; passwords are
"right" or "wrong"; roles are left out; `NODE_ENV` is `production`, so no account is
verified because its mail failed; mails go out or fail, nondeterministically; the acting
administrator is outside. A save of an entity whose row was deleted inserts it again.

### Marketplace

`store[s]` has the columns that three services write (`is_active`,
`is_premium_advertiser`, the ends of the advertisement and of the subscription),
`product[p]` its store, category and `is_active`, `rows[p]` how many rows of each table
refer to it, `order` the orders of one item. `coupon`, `ads`, `subs`, `named` (categories,
suppliers and menu categories), `favorites`, `reviews`, `storeReviews`, `tab` and `stream`
(open connections and the in-memory map), `push` are what each service owns. Each handler
begins with the reads up to its first write (`Begin...`) and has one action per write.

* Stores: create (`ensureUniqueSlug`, insert), the three saves of a loaded store
  (`BeginEditStore` for the owner's, `BeginRuleStore` for the administrator's), and
  `remove` (`BeginRemoveStore` counts the orders, `EraseStore` is the transaction).
* Coupons: create, remove; an order `BeginOrder`/`BeginOrderWith` (validate), `CountUses`
  (one per buyer), `PlaceOrder`, `Increment`. A coupon is found by its code alone.
* Sales at the counter: `BeginSale` (the product and its stock), `Sell` (the sale and the units
  it takes, or the rollback). How a sale works inside is in `Till`; here it is one more
  thing that holds on to a product's rows.
* Advertisements: `InsertAd`, `Raise`; `CancelAd`, `Lower`; the nightly `LowerAll`,
  `ExpireAds`. Subscriptions: `InsertSub`, `FindLatest`, `Extend`; `CancelSub`. A payment ends on
  a date; copied to the store's timestamp it is the instant at which that day begins. So the public sees
  the store up to the day before, and `Visible` compares strictly.
* Products: create and update, favourites, images, videos and variants, and `remove`,
  one `DeleteRows` per table, then `DeleteProduct`, none of them in a transaction. What
  a DELETE runs into is in `Holds` and in `held`, from the foreign keys of the schema.
* Reviews: find, save, and for photos delete and insert.
* Streams: `Subscribe`, `Finalize`; push: find-then-insert, `Send`, `Drop`.

Simplified: an order has one item, and OPEN stands for PENDING, PAID, PREPARING and
SHIPPED; prices, discounts and texts, names and their changes, the order of images, and
the links of a product to supplier and menu category are left out; every product has a
store; the customers of a store are not tied to it; the photos of one upload are one
element; a user has one role; permissions by store are left out, since they only refuse
calls. The removal of a store is one step, since nothing of its transaction is seen before
it commits.

What the code does here that a reader may not expect, all of it in the model: `update` of
a product cannot move it to another store or category (the loaded relations win over the
columns); a store is hidden all of the last day it paid for; a stale save of a store writes back the flags an advertisement or payment has
set meanwhile; cancelling one advertisement clears the flags although another one runs;
`products.remove` says it deletes in an FK-safe order and leaves out `purchase_items` and
`review_images`, so it fails halfway for a product that was bought in or has a review with
photos; `stores.remove` deletes `purchase_items` before the batches that refer to them, so it
fails, as a whole, for a store that received a purchase, and it deletes the sales at the
counter although it keeps a store with orders.

## 3. Runs

The first seven use `MCReservations`, with two products, `fruit` and `shirt`.

| Run | Instance | Checks | Shows |
|---|---|---|---|
| `races` | 2 orders that want both products in opposite order, 1 unit of each, 2 slots, any two requests overlap; 3 HTTP calls, 1 overlapping cron job, fruit perishable | `TypeOK`, `NonNegative`, `NoOrphanAllocation`, `WholeOrderOrNothing` | what survives every interleaving |
| `serial` | 2 orders, 2 batches of each product, every status, 4 calls, one request at a time | `StatusMatchesQuantity`, `OldestFirst`, `KeepsPromise` | the code is right when requests do not overlap |
| `crashes` | 2 orders, one for two shirts when each batch of shirts holds one, 1 batch of fruit, LEGACY batches of both, 2 calls, two requests die anywhere, fairness; 78,000 states | `CrashCostsOneLine`, `ReservationReleased`, `UnpaidCancelled` | what a crash costs, and that the jobs recover |
| `oversold` | 2 orders for one shirt, 2 slots | `NotOversold` is violated | see below |
| `consumed_twice` | 1 order for one of two shirts, 2 slots | `ConsumedOnce` is violated | see below |
| `restored_twice` | 1 call, 2 slots | `NeverRestoredTwice` is violated | see below |
| `partial` | the order of 2 shirts and 1 fruit, the other of 1 fruit, one request at a time | `LeavesPendingHoldingStock` is violated | see below |
| `desk` | `MCStockroom`: 2 products, one perishable, one with unbatched movements; a purchase of both, part paid; 4 calls, 1 overlap, 1 crash; 2 million states | 8 invariants | books, lots and movements agree, or differ by what overlapped or died |
| `adjusted` | one product, one purchase, one request at a time | `AdjustmentAddsUp` is violated | see below |
| `counter` | `MCTill`: 2 products, 2 baskets in opposite order, 1 customer with the limit of one sale, 1 cashier, 3 connections; 3 calls, 1 overlap, 1 crash, fairness; 455,000 states | 8 invariants, `SaleEnds` | what is booked when sales overlap or die |
| `login` | `MCAccounts`: 2 addresses, an account with a session and a code, an invitation; 3 calls, 1 overlap, 1 crash, 1 lapse; 1.2 million states | 6 invariants | tokens, codes and invitations are single, but for overlaps |
| `open` | `MCMarketplace`: 2 stores, 2 products, 2 users, 3 coupons of one code, 5 names, 2 tabs, 1 browser, 2 days; 3 events, 1 overlap, 1 crash; 883,000 states | 6 invariants, `SalesGoWithTheirStore` | what handlers of different modules do to one row |

**The properties.** `NonNegative`: no batch is committed below zero. It holds not
because anything guards the count, but because `save` writes a quantity computed
from units that were read; an update by difference (the mutant `MergedByDelta`)
would break it. `NoOrphanAllocation`: an allocation's order exists and its batch
is of the right product. `WholeOrderOrNothing`: the step that commits
allocations together with an order commits all of its lines, in full, deadlock
aborts included. `StatusMatchesQuantity`: a batch is on sale exactly while it has
units. `OldestFirst`: first in first out, first expired first out for perishables.
`KeepsPromise`: `Reservations` implements `StockPromise`, where free units plus
held units are what was supplied, an order appears holding all of its stock, and
is cancelled holding none; units between the save of a batch and the save of its
allocation count as where they come from (`InHand`). `CrashCostsOneLine`: when
nothing runs, units on sale and held differ from what was received by at most the
largest line any order has of the product, per request that died; if only one died, by
no more than a batch either. The second death may cost more than a batch: a restore that
died once has its units back and its allocation unmarked, the next run gives them back
again, and a batch that then holds more than it was received with can lose all of it. `ReservationReleased`, `UnpaidCancelled`: the two jobs
get done what they are for.

`StockPromise` is deliberately as weak as the code in two places: `Confirm` takes
stock for a cancelled order as well, because `confirmPayment` does not look at
that status, and `Take` works piece by piece and may stop halfway, because a PATCH
out of PENDING has no transaction.

**Exact bounds instead of "when nothing overlaps".** Most races of this code lose or repeat
one thing per overlap. The properties of the newer runs say so: `RotatedOnce`,
`CodesHoldOut`, `InvitationsAreSingle`, `CouponKeepsTerms` and `OneOfEach` allow one more
for each request that began while another ran (`used.overlaps`), or that died between two
writes (`used.faults`), and nothing beyond; where a unique index closes the race they
allow none. What is promised only to requests that do not overlap or die has `Serial`,
`Clean` or `Quiet` as its hypothesis, which the runs meet in most of their states.

* `Stockroom`. `PaidNeverInvented`: `paid_amount` may lose a payment, never exceed what
  was paid. `BooksBalance`: paid, balance, payments and status agree. `CancelledHoldsNothing`:
  a cancelled purchase has blocked, empty lots and no order holds units of them.
  `MovementsExplainBatches`: a batch's quantity is its movements, but for one per crash.
  `ShortOnlyByCancellation`: an adjustment is checked against all batches and taken from
  one, which goes below zero by no more than what cancellations emptied. `OneLegacyBatch`,
  `SummaryIsSellable` (the panel counts what can be sold, and expired lots).
* `Till`. `SaleIsBooked`: a committed sale has its audit record and, on credit, its one
  entry. `OrphansNeedCrash`: an entry or record without its sale needs a crash.
  `DebtInRange`, `DebtMatchesLedger`, `DrawerMatches`, `OneOpenSession`. `SaleEnds`: with more
  connections than sales every sale ends; with as many, all may wait for good, and the
  mutant `FreeOfPairs` shows it. `TaxMatchesRate`: over prices of 1 to 12 pesos, all rates
  to 20 %, both modes and five discounts, tax is the rate's share to within the rounding,
  never negative, never more than the total. Prices are whole pesos here. The DTO admits cents, and
  a unit price is then still rounded to pesos, so that 0.40 with 5 % on top is charged 0 with
  a tax of -0.40: nothing is said of such prices.
* `Accounts`. Besides the counts above: `ErasedIsGone` (after `deleteMyAccount` no customer has
  the address, and an account kept for its orders can never act again), `NoStrandedAccount` (no
  address is taken by an account whose owner was never sent a link).
* `Marketplace`. `PaidTimeIsKept`: a store is visible until the last day of every payment that stands
  begins, and, once it has a payment that stands or a date, no longer than one of its payments,
  cancelled ones counted (a cancellation leaves the date). No advertisement expires before its end,
  none is shown that is not paid. `RemovalIsAllOrNothing`: what was ordered or sold is there whatever
  removal runs against it, and has its batches but for one product per overlap; a product no
  removal is at work on has batches and movements or neither, but for one product per overlap
  or death between the deletes. `SalesGoWithTheirStore`: counter sales are deleted only with their whole
  store, and of no store that has an order, whatever overlaps. `StreamsMatchTabs`: events reach the open connections of their user and no
  other. `TypeOK` includes that what refers to a store refers to one that is there.

**Races no property covers.** Where a race does break something and no text of the code
promises otherwise, the property says what holds without overlap and the hazard
says that the race itself is not covered: units left in a DEPLETED batch, two LEGACY batches, units
sold while their purchase is cancelled, two open sessions, an amount lost from a drawer or between a balance and its ledger.
The models contain all of these. `SaleEnds` does not cover the exhaustion of the pool, which its
instance excludes with one connection more than sales.

**Where the code does not do what its comments say.** Five runs, each with one
finding in `PROJECT.json`:

* `oversold`: two `create` calls read the last unit before either commits. The
  second UPDATE waits for the first's row lock and then writes the same 0.
  Both allocations commit. The comment at `orders.service.ts:295` says stock is
  taken at once so as not to oversell.
* `consumed_twice`: `hasAllocations` is checked before the consumption and
  nothing locks the order: two calls that overlap both consume. The comment at
  `orders.service.ts:349` says once.
* `restored_twice`: two runs of the five-minute job that overlap both find the
  allocation unrestored. The comment at `inventory-batch-allocation.entity.ts:68`
  says `restored_at` is there so that this never happens.
* `partial`: needs no overlap. A reservation expires, another order takes the
  fruit, the store moves the first order to PAID: its shirts are consumed, its
  fruit throws, the shirts stay consumed. The next confirmation finds allocations
  and consumes nothing: the order is paid without its fruit. The comment at
  `orders.service.ts:594` says stock is taken all the same.
* `adjusted`: needs no overlap. A product comes in as a lot of 2. Its first adjustment finds no
  LEGACY batch and creates one from the sum of its movements, that of the lot included: the
  2 units are there twice. The error text at `inventory.service.ts:712` speaks of the stock
  that was checked, which is not the stock there is afterwards.

One more has no run of its own. The removal of a store counts its order items and not its sales, and
its transaction deletes the sales: a store that sold at the counter and never had an order is
removed with its receipts, by a sale and a removal that need not overlap. The comment at
`stores.service.ts:388` says a paid transaction can never be erased by mistake.
`SalesGoWithTheirStore` says what is left of that.

`StatusMatchesQuantity` holds serially and not with overlaps: a save that found
only the quantity different writes only the quantity, so a release that overlaps a
consumption can leave units in a DEPLETED batch. Nothing in the code promises
otherwise under overlap, so it is a property of the serial run.

**Bounds.** `MaxCalls`, `MaxOverlaps`, `MaxFaults` and `MaxAllocs` are the only
artificial ones, all guards of the actions that begin something; no run of a
handler is cut short by them. Three calls and one overlapping job are enough for
create, a concurrent create, cancellation or confirmation, and a release that
overlaps any of them; two request slots are enough because every race named in
`PROJECT.json` is between two requests, and opposite carts make the smallest
deadlock. One unit per batch makes every batch a boundary case; two batches of a
product make an item span batches, and two lines make a consumption fail halfway.
A cron job that finds no order ends at once and costs nothing. The slots are
symmetric, orders are not (their carts differ). `Reservations` never terminates: cron
jobs can always begin, so deadlock stays checked in its runs. The other models have no
job that starts for ever and stop when the budget of calls is used up, so their
runs do not check deadlock; `SaleEnds` is the check that matters there.

In the newer runs one overlap makes two handlers meet at any pair of their statements, and
the remaining calls prepare the rows or look at what was left; one crash ends any of them
anywhere. Three events in `open` are one to prepare and two that meet: the initial
states already hold a store, products with every kind of dependent row, a coupon and a
delivered order. `MaxBatches`, `MaxUsers`, `MaxSessions` and `MaxDay` only keep something from
beginning. `MaxOverrides` is how often an administrator sets a store's flags by hand.
Symmetry is used on slots, tabs and two suppliers of one store only, and never with the
liveness property.

**Fairness** (`FairSpec`, only for the two liveness properties). Weak fairness of
every running request: Node.js resumes a handler when its statement returns, and
a statement waits only for a lock that its holder releases. Strong fairness of
each job's beginning: timers start it over and over, whatever else runs at that
moment, so it is enough that a slot is free again and again. Nothing is assumed
of customers, stores, the clock or failures; a request may die a bounded number
of times. In `Till` the same weak fairness of a running request is assumed: pg hands a
connection that is given back to whoever waits, in turn.

## 4. Proofs

`tlapm` checks all of it, for any number of requests, products, purchases, sales, accounts,
stores and so on, any amounts and any values of the bounds. What is assumed is the named
assumption of each model and nothing else: carts, lines, prices and limits have the types
they have in the code, sets whose sizes or sums a formula speaks of are finite
(`IsFiniteSet`: there are finitely many handlers, products and prices at a time), LEGACY
batches start empty. TLC evaluates each of them in the runs.

| Module | Theorem | States |
|---|---|---|
| `Sums` | lemmas | what a sum over a finite set of rows is when a row is added, changed or removed, what bounds it, and how two sums compare |
| `ReservationsProofs` | `TypesHold`, `NeverBelowZero`, `AllocationsBelong` | `TypeOK`, `NonNegative`, `NoOrphanAllocation` |
| `PromiseProofs` | `OrdersAreWhole`, `StatusHolds`, `OldestHolds`, `CrashesHold` | `WholeOrderOrNothing`, `StatusMatchesQuantity`, `OldestFirst`, `CrashCostsOneLine` |
| `StockroomProofs` | `TypesHold`, `LegacyHolds`, `SummaryHolds` | `TypeOK`, `OneLegacyBatch`, `SummaryIsSellable` |
| `BooksProofs` | `PaidHolds`, `BooksHold`, `CancelledHolds`, `MovementsHold`, `ShortHolds` | `PaidNeverInvented`, `BooksBalance`, `CancelledHoldsNothing`, `MovementsExplainBatches`, `ShortOnlyByCancellation` |
| `TillProofs` | `TypesHold`, `BookingHolds`, `OrphansHold`, `DebtHolds`, `SessionsHold`, `LedgerHolds`, `DrawerHolds`, `TaxHolds` | `TypeOK`, `SaleIsBooked`, `OrphansNeedCrash`, `DebtInRange`, `OneOpenSession`, `DebtMatchesLedger`, `DrawerMatches`, `TaxMatchesRate` |
| `AccountsProofs` | `TypesHold`, `RotationHolds`, `CodesHold`, `InvitationsHold`, `ErasedHolds`, `LinksHold` | `TypeOK`, `RotatedOnce`, `CodesHoldOut`, `InvitationsAreSingle`, `ErasedIsGone`, `NoStrandedAccount` |
| `MarketplaceProofs` | `TypesHold`, `StreamsHold`, `RemovalHolds`, `SalesHold`, `OneOfEachHolds`, `CouponsHold`, `PaidTimeHolds` | `TypeOK`, `StreamsMatchTabs`, `RemovalIsAllOrNothing`, `SalesGoWithTheirStore`, `OneOfEach`, `CouponKeepsTerms`, `PaidTimeIsKept` |

### The shape of the arguments

No property here is inductive by itself, always for the same reason: a handler
writes after an await what it read before it. So every inductive invariant says, beside
the property, what handlers hold (which row, read when, with what it is still going to
do), as one operator over the slot `req[r]`. The proofs then have one lemma per action for
the step it takes, and a lemma for all actions that leave the slot's rows alone. Types are
proved first: `TypeInv` says at which statements a handler holds an id, and that the
row it names is there, although the rows of `Accounts` and `Marketplace` are deleted too.

Three kinds of hypothesis recur. A property that holds whatever overlaps is proved from
what each handler holds. A property that allows one more per overlap or crash
counts: the invariant bounds rows plus handlers that have read and not yet
written by one plus `used.overlaps` (`used.faults`), and a step moves a handler from one side
to the other. A property of requests that do not overlap (`Serial`) or die (`Clean`) uses
`AloneInv`, that at most one slot is running, and then speaks of that one.

**Sums.** A balance against its ledger, a drawer against its sales, units against
allocations are sums over rows. Induction is out of the prover's reach, since the theorems
of the library take an operator as parameter. `Sums` therefore has no induction: `SumOf`, the
recursive function that the community modules' folds are, is characterised at the empty set and at one element more, and
what holds of all sums is proved by a smallest counterexample, a set of least
cardinality among those for which it fails.

### Reservations

* `TypesHold` and `NeverBelowZero`. `Inv` adds `Sound` for every request: what is in its
  hands and in its transaction's rows is never negative (`WritesNoDebt`), at the statements
  that move units there is a batch and at least one unit (`HasBatch`, `MovesUnits`), at
  the statements that look for units some are needed (`HasNeed`), and the allocations it
  is still to restore are rows of the table. `StepKeepsInv` carries the frame,
  `AfterConsumeSound`, `AfterRestoreSound` and `DoneWithOrderSound` the control flow.
* `AllocationsBelong`. `OwnInv` adds, for every request: during a consumption the line is
  one of its order's cart and candidates and batch in hand are of that line's product
  (`AtItem`, `TakesProduct`); allocations of an open transaction are of the order it works
  for (`OwnRows`); only `create` works for an order that is not there, always inside its
  transaction (`CreateIsPrivate`, `Backed`). It is the transaction that makes it
  inductive: the mutant that gives `consumeStock` no manager breaks it.
* `OrdersAreWhole` is an action property. Its invariant says that the rows of an open
  transaction plus the units still needed are the cart up to the current line: every line
  before it in full, none after it. The commit is reached at the end of the cart only.
* `StatusHolds` and `OldestHolds` are of requests that do not overlap, as their properties are
  (`MaxInFlight = 1`; everything else is arbitrary, crashes included). `SellInv` says that
  only one slot is running and, of its transaction's rows as of the tables', that a batch
  is on sale exactly while it has units; that the entity it saves is the row it read
  but for the columns the save found to differ, so that quantity and status are written
  together (`FreshSave`); and that the candidates not yet tried are as they were read
  and younger than the one in hand, while whatever else the product has is empty or expired
  (`FirstOnes`). `UsedUp` is why the loop goes on: more is needed only after a batch
  gave all it had. A SELECT
  taken before another request's UPDATE would let one column be written without the other.
* `CrashesHold` is proved for requests that do not overlap (`MaxInFlight = 1`) and products
  whose movements add up to what their batches were received with (`Moved[p]` = `Supplied(p)`:
  with more, a LEGACY batch is made of units no batch ever had). `AccountInv`
  keeps two accounts: units in batches plus units of unrestored allocations against
  supply (`DriftOf`), and the units of movements plus those allocations against supply, what
  the running request has in hand set apart. While nothing died both are exact, for
  each set of batches; after that each is within one cost per death. `Small` bounds every
  allocation by the cost, which is why giving one back twice adds no more than that, and
  `TakesSmall` every take. In a transaction a death rolls back and costs nothing.

### Stockroom

* `TypesHold` needs `RoomInv`: `MaxBatches` bounds what purchases and entries create, and each
  slot can be about to insert one LEGACY batch of a product, so there are never more than
  one per slot and product.
* `LegacyHolds`: `LegacyInv` says that a slot about to insert has found none; alone, nobody
  else inserts in between.
* `SummaryHolds`: `LotsInv`, of every batch and every entity in hand. Only
  LEGACY batches go below zero, they are never of a perishable product, and units
  are only in ACTIVE batches. It holds with overlaps too: a stale save writes the quantity and
  the status that belong together.
* `PaidHolds`: `PaidInv` bounds the stored amount and the amount every loaded entity is
  going to save by the payments received, those on their way (saved with the
  purchase and not yet a row), and one per crash. A stale save can only write less.
* `BooksHold`: `BooksInv` says of the one running request that its entity is the row plus what
  it is about to change, and counts the payment on its way as received.
* `CancelledHolds` and `MovementsHold` need `FreshInv`: what a request that runs alone has read
  is still what the row says, so the SELECT and the UPDATE of its save agree.
* `CancelledHolds`: `SettledInv` says of every lot that its units are those in it, those held by
  allocations that were not restored (`HeldOf`), and those in the hands of the one running
  request (`InHand`). So a lot that is full is held by nobody, and the cancellation that
  empties it, which checks all lots before it blocks the first, leaves nothing behind.
* `MovementsHold`: `ExplainedInv` follows, batch by batch, the difference (`Off`) between the
  quantity and what the batch was created with and its movements add up to: it is what the
  running request has written on one side only (`Pend`), and each crash leaves at most
  one `LargestMove` of it for good.
* `ShortHolds`: `OriginInv` says what every lot came from (a lot is created with what raised the
  product's stock, a LEGACY batch with at least the movements no batch had, and only bought lots
  are ever blocked). `ShortInv` adds that `WorthOf`, a product's units plus what cancellations
  emptied, is never negative, and `Affords`: the running request still finds what it was
  checked against, in the batches or, while the product has no LEGACY batch, in the movements
  that batch will be made from. A cancellation takes no more than its lots were created
  with by `SettledInv`, so being short is always its doing.

### Till

* `BookingHolds`, `OrphansHold`: for a sale in progress the invariant says which of entry and
  record exist by its `pc`, and `DebtInv` that the customer it loaded is within range: after the
  ledger entry there is no statement that can throw.
* `DebtHolds`: every save writes a balance computed from a balance and a limit that
  were read and checked, whoever wrote since.
* `SessionsHold`, `LedgerHolds`, `DrawerHolds`: serially, with `LedgerInv` and `DrawerInv` for
  the amount that is in the balance (the session) and not in the ledger (the movements) yet.
* `TaxHolds` follows from lemmas about `LineTax` for every price in whole pesos, every
  quantity and every rate, with no bound on them: `RoundDivNear` says how far a rounded
  division is from the exact one, `RoundDivBelow` and `RoundDivAbove` what rounds to no more
  or no less than a given integer, `ExcludedTax` and `IncludedTax` apply them to the two modes and
  `DiscountedTax` to the scaling by a discount. `LineIsTaxed` puts them together; the bounds of the
  property only name instances of it.

### Accounts

* `RotationHolds`, `CodesHold`, `InvitationsHold` count as above: successors of a token and slots that
  found it unrevoked; answers judged and slots that read `attempts`; pending invitations
  of an address and slots that found none. An invitation makes one seller because the
  address is unique: the second registration throws.
* `ErasedHolds`, `LinksHold` speak of the one request that runs: which of its saves can
  bring back a row that was deleted, and between which statements an account has no link.

### Marketplace

* `TypesHold` includes the references between tables. The foreign keys make it inductive:
  a delete fails while rows refer to what it deletes, so the invariant is over the
  counters `rows[p]` and the slots that will insert.
* `StreamsHold`: `StreamInv` ties each entry of the map to an open connection in order of
  opening.
* `RemovalHolds`: `RemovalInv` says that what was sold is there (`SoldAreHere`: the last DELETE runs
  into the rows that sold it), that movements never outlive batches and allocations come
  of orders and sales (`Explained`), and bounds two sets of products. `Contested` are those that
  were sold and lost their batches, or may yet: a removal is at their rows and they are sold,
  or a request that has seen their stock is about to. One comes in only when a request begins
  beside another, so there are at most `used.overlaps`. `Torn` adds those whose movements are gone
  with no removal about to delete their batches: a foreign key stops a removal between the
  two only when the product was sold meanwhile, which makes it contested, and otherwise only a
  death does, so there are at most `used.faults` more.
* `SalesHold` needs the types only: no other statement lowers the number of a product's sales, the last
  DELETE of a product runs into them, and the store of a product that is there is there.
* `OneOfEachHolds`: `OnceInv` counts what is there together with what a handler is about to
  write, `Claims`: a handler that found a row claims that row, one that found none claims a
  new one. Running handlers are at most one more than the overlaps, since a call that begins
  beside another is counted as one; when nothing is there, all claims are theirs, and from
  then on a claim is only turned into its row. For photos the same count has to hold
  from the point of view of every call (`Few`): a call that will clear the photos
  does not count itself, one that will save the list it loaded counts that list, which may
  bring back what was cleared since.
* `CouponsHold`: `TermsInv` counts the orders with a code together with the requests that
  will place one (`Held`), against what the rows of the code have spent (`Spent`): uses counted
  and uses that requests on their way will count, at most the limit. To validate
  a coupon spends a use, or the row was already spent by a request that runs, which is an
  overlap; an order takes the place of its request; a request that gives up gives back both,
  one that dies after its order leaves the order and is counted as a death. No row
  spends more than its limit (`SpentIsGranted`), a removed one counts as spent. The
  second half is `UsesOnce` of `OnceInv`.
* `PaidTimeHolds` is of requests that do not overlap or die and of flags nobody sets by hand
  (`Kept`), as its property is. `MarketplaceProofs!PaidInv` says, store by store, what the flags follow
  from: the store's date is no earlier than the end of any payment that stands (`PaidSubs`) and is that
  of a payment, cancelled or not (`EndsPaid`), advertising
  ends when the last campaign does (`PaidAds`), the flag of a sponsored store comes from a
  campaign that runs or a premium plan (`PaidFlags`). Each holds of all stores but the one whose handler is between the two saves
  that belong together, and `PaidSlot` says what that handler still knows then.
  The cron job that expires campaigns goes through them one by one: an expired campaign is followed,
  at its own place or later, by one of its store that is over (`ExpiredAds`).

### Only model-checked

* Liveness (`ReservationReleased`, `UnpaidCancelled`, `SaleEnds`): fairness and `ENABLED` are out
  of the prover's reach.
* The refinement `KeepsPromise` of `Reservations`, which holds of requests that do not overlap
  or die. It is within reach of the same method and not proved yet.
* The five runs that find a violation need no proof.

## 5. Plan

1. `KeepsPromise`, whose mapping needs `Held` as a sum and can use `Sums` and `SellInv`.
2. The customer that an order finds or inserts (`resolveCustomer`), which ties `Accounts` to
   `Reservations`.

## 6. Not modelled

* Two hazards of the order row have no property (`PROJECT.json` says why): a transition, or a
  payment, that overlaps another handler of the same order may be lost. The model contains
  both; no text of the code promises otherwise, and without overlap `KeepsPromise` holds.
* Read-only components: dashboard, feeds, previews, sitemap, the queries and administrators'
  panels of every service, the histories of sales, account statements of suppliers.
* Rows that nothing reads back into the logic: `app-config`, subscription plans, the audit log
  but for sales.
* Calls to outside services (e-mail, Cloudinary, CallMeBot, Turnstile): their outcome is a
  nondeterministic choice where a handler looks at it, and nothing else.
* The HTTP shell: routing, validation pipes, guards, permissions by role and store. They refuse
  calls before a handler begins.
