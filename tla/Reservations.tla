---------------------------- MODULE Reservations ----------------------------
(***************************************************************************)
(* Stock reservations of customer orders: the write paths of               *)
(* OrdersService, the allocation paths of InventoryService it calls and    *)
(* the two cron jobs of OrdersScheduler, over the tables orders,           *)
(* inventory_batches, inventory_batch_allocations and inventory_movements. *)
(*                                                                         *)
(* A request (an HTTP handler or a cron job) is a sequence of database     *)
(* statements with awaits between them, so the statements of different     *)
(* requests interleave.  With a transaction manager its writes stay        *)
(* private, each updated row locked, until the commit; without one every   *)
(* statement commits by itself.  TypeORM's save(entity) is two statements: *)
(* a SELECT that finds which columns of the entity differ from the row and *)
(* an UPDATE of those columns.  Every entity may be stale by then.         *)
(***************************************************************************)
EXTENDS Integers, Sequences, FiniteSets, FiniteSetsExt

CONSTANTS
    Products, Orders,
    Requests,      \* slots in which a handler or a cron job may be running
    Batches,       \* numbered in the order consumeStock tries them
    LegacyBatches, \* the LEGACY-<product> rows, created on demand
    ProductOf,     \* the product of each batch
    Received,      \* the quantity each batch is received with
    Moved,         \* what the movements of each product add up to at first
    Perishable,    \* the products with isPerishable
    Cart,          \* the items of each order's CreateOrderDto
    Targets,       \* the statuses PATCH /orders/:id/status is called with
    MaxAge,        \* 1: orders get older than RESERVATION_MINUTES, 2: than five days
    MaxInFlight,   \* how many requests may run at a time (1: serially)
    MaxAllocs,     \* bound: no new consumer past this many rows
    MaxCalls,      \* bound: HTTP calls in a behaviour
    MaxOverlaps,   \* bound: cron jobs that start while another request is running
    MaxFaults      \* bound: requests that die midway

OrderStatus == {"PENDING", "PAID", "PREPARING", "SHIPPED", "DELIVERED", "CANCELLED"}
PaymentStatus == {"NONE", "SUBMITTED", "CONFIRMED"}
Items == [product : Products, qty : Nat \ {0}]

\* What the configuration has to provide for the model to be meaningful.
ASSUME ConstantsAssumption ==
    /\ Batches \subseteq Nat \ {0} /\ LegacyBatches \subseteq Batches
    /\ IsFiniteSet(Batches) /\ IsFiniteSet(Orders) /\ IsFiniteSet(Requests)
    /\ ProductOf \in [Batches -> Products]
    /\ Received \in [Batches -> Nat] /\ Moved \in [Products -> Int]
    /\ \A b \in LegacyBatches : Received[b] = 0
    /\ Perishable \subseteq Products
    /\ Cart \in [Orders -> Seq(Items)] /\ \A o \in Orders : Len(Cart[o]) > 0
    /\ Targets \subseteq OrderStatus /\ MaxAge \in 0..2
    /\ MaxInFlight \in Nat /\ MaxAllocs \in Nat /\ MaxCalls \in Nat
    /\ MaxOverlaps \in Nat /\ MaxFaults \in Nat

VARIABLES
    batch,     \* inventory_batches: available_quantity and status
    ledger,    \* inventory_movements: the sum of quantity_delta of each product
    allocs,    \* inventory_batch_allocations, in order of insertion
    order,     \* orders: status, payment_status and payment_confirmed_at
    age,       \* 0: within RESERVATION_MINUTES, 1: after it, 2: after 5 days
    expired,   \* batches whose expires_at has passed
    req,       \* the local variables of the request in each slot
    used       \* how much of the three bounds above is used up

db == <<batch, ledger, allocs, order>>
vars == <<batch, ledger, allocs, order, age, expired, req, used>>

-----------------------------------------------------------------------------
(* Rows and the local state of a request *)

BatchRow == [avail : Int, status : {"ABSENT", "ACTIVE", "DEPLETED"}]
OrderRow == [status : OrderStatus \cup {"ABSENT"}, pay : PaymentStatus, confirmed : BOOLEAN]
AllocationRow ==
    [order : Orders, line : Nat, batch : Batches, qty : Nat \ {0}, restored : BOOLEAN]

NoRow == [status |-> "ABSENT", pay |-> "NONE", confirmed |-> FALSE]
NoBatchRow == [avail |-> 0, status |-> "ABSENT"]
NewOrder == [status |-> "PENDING", pay |-> "NONE", confirmed |-> FALSE]
NoEntity == [batch |-> 0, avail |-> 0, status |-> "ACTIVE", qty |-> 0, alloc |-> 0]

Ops == {"none", "create", "submit", "confirm", "update", "autoCancel", "release"}
Columns == {"avail", "status", "pay", "confirmed"}
Pcs == {"idle", "has", "read", "take", "find", "batch", "select", "update",
        "alloc", "mark", "commit", "selectOrder", "updateOrder"}

\* A partial function is a total one: a row that is "ABSENT" was not loaded or
\* written, a batch with 0 units is no candidate.
Request ==
    [op : Ops, pc : Pcs,
     tx : BOOLEAN,                  \* inside dataSource.transaction
     order : Orders \cup {"none"},  \* the order being worked on
     rows : [Orders -> OrderRow],   \* the order entities loaded
     line : Nat, need : Nat,        \* item of the order, quantity it still needs
     plan : [Batches -> Nat],       \* candidate batches as read and not yet tried
     ent : [batch : Batches \cup {0}, avail : Int, status : {"ACTIVE", "DEPLETED"},
            qty : Nat, alloc : Nat],  \* the batch entity in hand, the units it moves
     cols : SUBSET Columns,         \* columns the next UPDATE will set
     todo : SUBSET Nat,             \* allocations found, not yet restored
     wb : [Batches -> BatchRow],    \* batch rows written by the open transaction
     wa : Seq(AllocationRow),       \* allocations inserted by it
     wl : [Products -> Int]]        \* movements inserted by it

NoCandidates == [b \in Batches |-> 0]
Idle ==
    [op |-> "none", pc |-> "idle", tx |-> FALSE, order |-> "none",
     rows |-> [o \in Orders |-> NoRow], line |-> 0, need |-> 0, plan |-> NoCandidates,
     ent |-> NoEntity, cols |-> {}, todo |-> {},
     wb |-> [b \in Batches |-> NoBatchRow], wa |-> <<>>, wl |-> [p \in Products |-> 0]]

LoadedOrders(q) == {o \in Orders : q.rows[o].status # "ABSENT"}
Candidates(q) == {b \in Batches : q.plan[b] > 0}
Writes(q, b) == q.wb[b].status # "ABSENT"

\* What request r reads: committed rows and the writes of its own transaction.
Sees(r) == [b \in Batches |-> IF Writes(req[r], b) THEN req[r].wb[b] ELSE batch[b]]
SeesLedger(r, p) == ledger[p] + req[r].wl[p]

SumOver(f, S) == MapThenSumSet(LAMBDA b : f[b].avail, S)
BatchesOf(p) == {b \in Batches : ProductOf[b] = p}

\* getCurrentStock: all batches of the product, or its movements if they hold nothing.
CurrentStock(p) ==
    LET inBatches == SumOver(batch, BatchesOf(p))
    IN  IF inBatches > 0 THEN inBatches ELSE ledger[p]

\* Mutant of ActiveAllocs: the query forgets restoredAt: IsNull().
ActiveAllocsAnyRestored(o) == {k \in DOMAIN allocs : allocs[k].order = o}
ActiveAllocs(o) == {k \in DOMAIN allocs : allocs[k].order = o /\ ~allocs[k].restored}

\* Mutant of Merged: the UPDATE adds or subtracts in the database, unguarded.
MergedByDelta(ent, row, cols) ==
    [avail  |-> IF ent.alloc = 0 THEN row.avail - ent.qty ELSE row.avail + ent.qty,
     status |-> IF "status" \in cols THEN ent.status ELSE row.status]
\* The row an UPDATE of the columns cols leaves, from the entity and the row it finds.
Merged(ent, row, cols) ==
    [avail  |-> IF "avail" \in cols THEN ent.avail ELSE row.avail,
     status |-> IF "status" \in cols THEN ent.status ELSE row.status]

\* The columns save() finds to differ from the row.
Differs(ent, row) ==
    {c \in {"avail", "status"} :
        \/ c = "avail" /\ ent.avail # row.avail
        \/ c = "status" /\ ent.status # row.status}

-----------------------------------------------------------------------------
(* Control flow inside a handler: the state of the request after a statement *)

\* Mutant of DoneWithOrder: a cron job ends after its first order.
StopsAfterFirstOrder(q) == Idle
\* The handler of one order is over; a cron job goes on with its other orders.
DoneWithOrder(q) ==
    IF LoadedOrders(q) = {q.order} THEN Idle
    ELSE [Idle EXCEPT !.op = q.op, !.pc = "find",
                      !.rows = [q.rows EXCEPT ![q.order] = NoRow]]

\* Mutant of AfterRestore: the daily job, too, only gives the stock back.
NeverCancels(q) ==
    IF q.todo # {} THEN [q EXCEPT !.pc = "batch"]
    ELSE IF q.op \in {"release", "autoCancel"} THEN DoneWithOrder(q)
    ELSE [q EXCEPT !.pc = "selectOrder"]
AfterRestore(q) ==
    IF q.todo # {} THEN [q EXCEPT !.pc = "batch"]
    ELSE IF q.op = "release" THEN DoneWithOrder(q)
    ELSE [q EXCEPT !.pc = "selectOrder"]

\* Mutant of AfterConsume: the loop over the items ends one item early.
SkipsLastItem(q) ==
    IF q.need > 0 THEN [q EXCEPT !.pc = "take"]
    ELSE IF q.line < Len(Cart[q.order]) - 1
         THEN [q EXCEPT !.pc = "read", !.line = @ + 1,
                        !.need = Cart[q.order][q.line + 1].qty,
                        !.plan = NoCandidates]
    ELSE [q EXCEPT !.pc = IF q.op = "create" THEN "commit" ELSE "selectOrder",
                   !.plan = NoCandidates]
AfterConsume(q) ==
    IF q.need > 0 THEN [q EXCEPT !.pc = "take"]
    ELSE IF q.line < Len(Cart[q.order])
         THEN [q EXCEPT !.pc = "read", !.line = @ + 1,
                        !.need = Cart[q.order][q.line + 1].qty,
                        !.plan = NoCandidates]
    ELSE [q EXCEPT !.pc = IF q.op = "create" THEN "commit" ELSE "selectOrder",
                   !.plan = NoCandidates]

FirstItem(q) == [q EXCEPT !.pc = "read", !.line = 1, !.need = Cart[q.order][1].qty]

-----------------------------------------------------------------------------
(* A request begins *)

Init ==
    /\ batch = [b \in Batches |->
                  [avail  |-> Received[b],
                   status |-> IF b \in LegacyBatches THEN "ABSENT"
                              ELSE IF Received[b] > 0 THEN "ACTIVE" ELSE "DEPLETED"]]
    /\ ledger = Moved
    /\ allocs = <<>>
    /\ order = [o \in Orders |-> NoRow]
    /\ age = [o \in Orders |-> 0]
    /\ expired = {}
    /\ req = [r \in Requests |-> Idle]
    /\ used = [calls |-> 0, overlaps |-> 0, faults |-> 0]

Others(r) == {s \in Requests \ {r} : req[s] # Idle}

Start(r, q) ==
    /\ req[r] = Idle /\ Cardinality(Others(r)) < MaxInFlight
    /\ req' = [req EXCEPT ![r] = q]
    /\ UNCHANGED <<batch, ledger, allocs, order, age, expired>>

Call(r, q) ==
    /\ used.calls < MaxCalls /\ used' = [used EXCEPT !.calls = @ + 1]
    /\ Start(r, q)

\* A cron job that finds no order ends at once.
Tick(r, q) ==
    /\ IF Others(r) = {} \/ LoadedOrders(q) = {} THEN UNCHANGED used
       ELSE used.overlaps < MaxOverlaps /\ used' = [used EXCEPT !.overlaps = @ + 1]
    /\ Start(r, IF LoadedOrders(q) = {} THEN Idle ELSE q)

\* Bound: handlers that insert allocations begin while there are fewer than MaxAllocs.
Room == Len(allocs) < MaxAllocs

Exists(o) == order[o].status # "ABSENT"
Loaded(o, row) == [x \in Orders |-> IF x = o THEN row ELSE NoRow]
Unpaid(o) == order[o].status = "PENDING" /\ order[o].pay = "NONE"

\* Mutant of BeginCreate: consumeStock is not given the transaction's manager.
CreateWithoutManager(r, o) ==
    /\ ~Exists(o) /\ Room
    /\ \A s \in Requests : req[s].op = "create" => req[s].order # o
    /\ \A i \in DOMAIN Cart[o] : CurrentStock(Cart[o][i].product) >= Cart[o][i].qty
    /\ Call(r, FirstItem([Idle EXCEPT !.op = "create", !.order = o,
                                      !.rows = Loaded(o, NewOrder)]))
\* POST /orders: the checks against getCurrentStock, then the transaction.
BeginCreate(r, o) ==
    /\ ~Exists(o) /\ Room
    /\ \A s \in Requests : req[s].op = "create" => req[s].order # o
    /\ \A i \in DOMAIN Cart[o] : CurrentStock(Cart[o][i].product) >= Cart[o][i].qty
    /\ Call(r, FirstItem([Idle EXCEPT !.op = "create", !.tx = TRUE, !.order = o,
                                       !.rows = Loaded(o, NewOrder)]))

BeginSubmit(r, o) ==
    /\ Exists(o)
    /\ Call(r, [Idle EXCEPT !.op = "submit", !.pc = "selectOrder", !.order = o,
                   !.rows = Loaded(o, [order[o] EXCEPT
                              !.pay = IF @ = "NONE" THEN "SUBMITTED" ELSE @])])

BeginConfirm(r, o) ==
    /\ Exists(o) /\ ~order[o].confirmed /\ Room
    /\ Call(r, [Idle EXCEPT !.op = "confirm", !.pc = "has", !.tx = TRUE, !.order = o,
                   !.rows = Loaded(o,
                     [status    |-> IF order[o].status = "PENDING" THEN "PAID"
                                    ELSE order[o].status,
                      pay       |-> "CONFIRMED",
                      confirmed |-> TRUE])])

\* Mutant of AllowedFrom: a shipped order can still be cancelled.
AllowedFromShippedToo(s) ==
    CASE s = "PENDING"   -> {"PAID", "PREPARING", "CANCELLED"}
      [] s = "PAID"      -> {"PREPARING", "CANCELLED"}
      [] s = "PREPARING" -> {"SHIPPED", "CANCELLED"}
      [] s = "SHIPPED"   -> {"DELIVERED", "CANCELLED"}
      [] OTHER           -> {}
\* validateTransition; a request for the status the order already has is let through.
AllowedFrom(s) ==
    CASE s = "PENDING"   -> {"PAID", "PREPARING", "CANCELLED"}
      [] s = "PAID"      -> {"PREPARING", "CANCELLED"}
      [] s = "PREPARING" -> {"SHIPPED", "CANCELLED"}
      [] s = "SHIPPED"   -> {"DELIVERED"}
      [] OTHER           -> {}

BeginUpdate(r, o, to) ==
    LET from == order[o].status
        first == IF to = "CANCELLED" /\ from # "CANCELLED" THEN "find"
                 ELSE IF from = "PENDING" /\ to # "PENDING" THEN "has"
                 ELSE "selectOrder"
    IN  /\ Exists(o)
        /\ to = from \/ to \in AllowedFrom(from)
        /\ first = "has" => Room
        /\ Call(r, [Idle EXCEPT !.op = "update", !.pc = first, !.order = o,
                                 !.rows = Loaded(o, [order[o] EXCEPT !.status = to])])

\* The daily cron: unpaid orders of more than five days.
BeginAutoCancel(r) ==
    Tick(r, [Idle EXCEPT !.op = "autoCancel", !.pc = "find",
               !.rows = [o \in Orders |->
                 IF Unpaid(o) /\ age[o] = 2 THEN [order[o] EXCEPT !.status = "CANCELLED"]
                 ELSE NoRow]])

\* The five-minute cron: unpaid orders whose reservation window is over.
BeginRelease(r) ==
    Tick(r, [Idle EXCEPT !.op = "release", !.pc = "find",
               !.rows = [o \in Orders |->
                           IF Unpaid(o) /\ age[o] >= 1 THEN order[o] ELSE NoRow]])

-----------------------------------------------------------------------------
(* Statements of a running request *)

Goto(r, q) == req' = [req EXCEPT ![r] = q]
\* An exception: the handler ends, an open transaction is rolled back.
Throw(r) == Goto(r, Idle) /\ UNCHANGED db

\* consumeOrderStock: nothing to do if the order holds an unrestored allocation.
CheckAllocations(r) ==
    /\ req[r].pc = "has"
    /\ Goto(r, IF ActiveAllocs(req[r].order) # {} THEN [req[r] EXCEPT !.pc = "selectOrder"]
               ELSE FirstItem(req[r]))
    /\ UNCHANGED <<batch, ledger, allocs, order, age, expired, used>>

Product(q) == Cart[q.order][q.line].product
ActiveBatches(r) == {b \in BatchesOf(Product(req[r])) : Sees(r)[b].status = "ACTIVE"}
Usable(r) ==
    {b \in ActiveBatches(r) :
        /\ Sees(r)[b].avail > 0
        /\ Product(req[r]) \in Perishable => b \notin expired /\ b \notin LegacyBatches}

NeedsLegacy(r) ==
    /\ ActiveBatches(r) = {}
    /\ \A b \in BatchesOf(Product(req[r])) \cap LegacyBatches : Sees(r)[b].status = "ABSENT"
    /\ SeesLedger(r, Product(req[r])) > 0

WriteBatch(r, b, row) ==
    IF req[r].tx
    THEN UNCHANGED batch
    ELSE batch' = [batch EXCEPT ![b] = row]
OverlayBatch(q, b, row) ==
    IF q.tx
    THEN [q EXCEPT !.wb[b] = row]
    ELSE q

\* createLegacyBatchForProduct: a batch with what the movements add up to.  One
\* more attempt to find candidates follows.  A perishable product throws for
\* want of an expiry date.
CreateLegacy(r) ==
    /\ req[r].pc = "read" /\ NeedsLegacy(r)
    /\ \/ Product(req[r]) \in Perishable /\ Throw(r)
       \/ /\ Product(req[r]) \notin Perishable
          /\ \E b \in BatchesOf(Product(req[r])) \cap LegacyBatches :
                LET row == [avail |-> SeesLedger(r, Product(req[r])), status |-> "ACTIVE"]
                IN  /\ \A s \in Requests : ~Writes(req[s], b)
                    /\ WriteBatch(r, b, row)
                    /\ Goto(r, OverlayBatch(req[r], b, row))
          /\ UNCHANGED <<ledger, allocs, order>>
    /\ UNCHANGED <<age, expired, used>>

\* consumeStock reads its candidates once and works on those entities.
ReadCandidates(r) ==
    /\ req[r].pc = "read" /\ ~NeedsLegacy(r)
    /\ IF SumOver(Sees(r), Usable(r)) < req[r].need
       THEN Throw(r)
       ELSE /\ Goto(r, [req[r] EXCEPT !.pc = "take",
                          !.plan = [b \in Batches |->
                                     IF b \in Usable(r) THEN Sees(r)[b].avail ELSE 0]])
            /\ UNCHANGED db
    /\ UNCHANGED <<age, expired, used>>

\* Mutant of IsOldest: the candidates are tried newest first.
IsNewest(b, q) == \A c \in Candidates(q) : b >= c
IsOldest(b, q) == \A c \in Candidates(q) : b <= c

\* Mutant of Consumed: the whole batch is taken.
ConsumedAll(had, need) == had
Consumed(had, need) == IF had <= need THEN had ELSE need

\* Mutant of StatusFor: an empty batch stays on sale.
StatusForBelowZero(left) == IF left < 0 THEN "DEPLETED" ELSE "ACTIVE"
StatusFor(left) == IF left <= 0 THEN "DEPLETED" ELSE "ACTIVE"

\* The next candidate gives what it has or what is missing; the SELECT of its save.
TakeOldest(r) ==
    /\ req[r].pc = "take"
    /\ \E b \in Candidates(req[r]) :
         LET q == req[r]
             consumed == Consumed(q.plan[b], q.need)
             ent == [batch |-> b, avail |-> q.plan[b] - consumed, qty |-> consumed,
                     alloc |-> 0, status |-> StatusFor(q.plan[b] - consumed)]
         IN  /\ IsOldest(b, q)
             /\ Goto(r, [q EXCEPT !.pc = "update", !.ent = ent, !.need = @ - consumed,
                                  !.plan[b] = 0, !.cols = Differs(ent, Sees(r)[b])])
    /\ UNCHANGED <<batch, ledger, allocs, order, age, expired, used>>

\* restoreStockFromAllocations: the unrestored allocations of the next order.
FindAllocations(r) ==
    /\ req[r].pc = "find"
    /\ \E o \in LoadedOrders(req[r]) :
         Goto(r, AfterRestore([req[r] EXCEPT !.order = o, !.todo = ActiveAllocs(o)]))
    /\ UNCHANGED <<batch, ledger, allocs, order, age, expired, used>>

\* The batch of the next allocation is read and gets its units back in memory.
ReadBatch(r) ==
    /\ req[r].pc = "batch"
    /\ \E k \in req[r].todo :
         Goto(r, [req[r] EXCEPT
                    !.pc = "select", !.todo = @ \ {k},
                    !.ent = [batch |-> allocs[k].batch, status |-> "ACTIVE",
                             avail |-> Sees(r)[allocs[k].batch].avail + allocs[k].qty,
                             qty |-> allocs[k].qty, alloc |-> k]])
    /\ UNCHANGED <<batch, ledger, allocs, order, age, expired, used>>

SelectBatch(r) ==
    /\ req[r].pc = "select"
    /\ Goto(r, [req[r] EXCEPT !.pc = "update",
                  !.cols = Differs(req[r].ent, Sees(r)[req[r].ent.batch])])
    /\ UNCHANGED <<batch, ledger, allocs, order, age, expired, used>>

\* The open transactions holding the row that request r is about to update.
WaitsFor(r) ==
    IF req[r].pc = "update" /\ req[r].cols # {}
    THEN {s \in Requests \ {r} : Writes(req[s], req[r].ent.batch)}
    ELSE {}

UpdateBatch(r) ==
    LET q == req[r]
        row == Merged(q.ent, Sees(r)[q.ent.batch], q.cols)
        next == [q EXCEPT !.pc = IF q.ent.alloc = 0 THEN "alloc" ELSE "mark", !.cols = {}]
    IN  /\ q.pc = "update" /\ WaitsFor(r) = {}
        /\ WriteBatch(r, q.ent.batch, row)
        /\ Goto(r, IF q.cols = {} THEN next ELSE OverlayBatch(next, q.ent.batch, row))
        /\ UNCHANGED <<ledger, allocs, order, age, expired, used>>

\* createSystemMovement, the last statement for the batch in hand, follows a save of
\* the allocation at once; the request may still die between the two.
Post(r, done) ==
    LET q == req[r]
        p == ProductOf[q.ent.batch]
        delta == IF q.ent.alloc = 0 THEN -q.ent.qty ELSE q.ent.qty
    IN  \/ /\ ledger' = [ledger EXCEPT ![p] = IF q.tx THEN @ ELSE @ + delta]
           /\ Goto(r, [done EXCEPT !.ent = NoEntity, !.wl[p] = IF q.tx THEN @ + delta ELSE @])
           /\ UNCHANGED used
        \/ /\ used.faults < MaxFaults /\ used' = [used EXCEPT !.faults = @ + 1]
           /\ Goto(r, Idle)
           /\ UNCHANGED ledger

InsertAllocation(r) ==
    LET q == req[r]
        row == [order |-> q.order, line |-> q.line, batch |-> q.ent.batch,
                qty |-> q.ent.qty, restored |-> FALSE]
    IN  /\ q.pc = "alloc"
        /\ allocs' = IF q.tx THEN allocs ELSE Append(allocs, row)
        /\ Post(r, AfterConsume([q EXCEPT !.wa = IF q.tx THEN Append(@, row) ELSE @]))
        /\ UNCHANGED <<batch, order, age, expired>>

MarkRestored(r) ==
    /\ req[r].pc = "mark"
    /\ allocs' = [allocs EXCEPT ![req[r].ent.alloc] = [@ EXCEPT !.restored = TRUE]]
    /\ Post(r, AfterRestore(req[r]))
    /\ UNCHANGED <<batch, order, age, expired>>

Flush(r) ==
    /\ batch' = Sees(r)
    /\ ledger' = [p \in Products |-> SeesLedger(r, p)]
    /\ allocs' = allocs \o req[r].wa

\* The transaction of create commits: order, items, batches, allocations at once.
CommitCreate(r) ==
    /\ req[r].pc = "commit"
    /\ Flush(r)
    /\ order' = [order EXCEPT ![req[r].order] = req[r].rows[req[r].order]]
    /\ Goto(r, Idle)
    /\ UNCHANGED <<age, expired, used>>

SelectOrder(r) ==
    LET q == req[r]
        mine == q.rows[q.order]
        row == order[q.order]
    IN  /\ q.pc = "selectOrder"
        /\ Goto(r, [q EXCEPT !.pc = "updateOrder",
                      !.cols = {c \in {"status", "pay", "confirmed"} :
                                  \/ c = "status" /\ mine.status # row.status
                                  \/ c = "pay" /\ mine.pay # row.pay
                                  \/ c = "confirmed" /\ mine.confirmed # row.confirmed}])
        /\ UNCHANGED <<batch, ledger, allocs, order, age, expired, used>>

\* The UPDATE of the order's save; for confirmPayment, its transaction commits.
UpdateOrder(r) ==
    LET q == req[r]
        mine == q.rows[q.order]
    IN  /\ q.pc = "updateOrder"
        /\ Flush(r)
        /\ order' = [order EXCEPT ![q.order] =
                       [status    |-> IF "status" \in q.cols THEN mine.status ELSE @.status,
                        pay       |-> IF "pay" \in q.cols THEN mine.pay ELSE @.pay,
                        confirmed |-> IF "confirmed" \in q.cols THEN mine.confirmed
                                      ELSE @.confirmed]]
        /\ Goto(r, DoneWithOrder(q))
        /\ UNCHANGED <<age, expired, used>>

-----------------------------------------------------------------------------
(* What happens around the requests *)

\* The connection or the process fails: the request is gone, its transaction too.
Die(r) ==
    /\ req[r] # Idle /\ used.faults < MaxFaults
    /\ used' = [used EXCEPT !.faults = @ + 1]
    /\ Throw(r)
    /\ UNCHANGED <<age, expired>>

\* PostgreSQL aborts a transaction that waits in a cycle of row locks.
DeadlockVictim(r) ==
    /\ \E S \in SUBSET Requests :
         /\ r \in S
         /\ \A s \in S : \E t \in S : t \in WaitsFor(s)
         /\ \A s \in S : \E t \in S : s \in WaitsFor(t)
    /\ Throw(r)
    /\ UNCHANGED <<age, expired, used>>

\* Only a query that begins a cron job reads the age, so time passes while one can.
GrowOld(o) ==
    /\ Exists(o) /\ age[o] < MaxAge
    /\ Cardinality({r \in Requests : req[r] # Idle}) < MaxInFlight
    /\ age' = [age EXCEPT ![o] = @ + 1]
    /\ UNCHANGED <<batch, ledger, allocs, order, expired, req, used>>

\* Batches of a perishable product are tried, and expire, in the order of expires_at.
Expire(b) ==
    /\ ProductOf[b] \in Perishable /\ b \notin expired \cup LegacyBatches
    /\ \A c \in BatchesOf(ProductOf[b]) \ LegacyBatches : c < b => c \in expired
    /\ expired' = expired \cup {b}
    /\ UNCHANGED <<batch, ledger, allocs, order, age, req, used>>

Begin(r) ==
    \/ \E o \in Orders :
         \/ BeginCreate(r, o) \/ BeginSubmit(r, o) \/ BeginConfirm(r, o)
         \/ \E to \in Targets : BeginUpdate(r, o, to)
    \/ BeginAutoCancel(r)
    \/ BeginRelease(r)

Run(r) ==
    \/ CheckAllocations(r) \/ CreateLegacy(r) \/ ReadCandidates(r) \/ TakeOldest(r)
    \/ FindAllocations(r) \/ ReadBatch(r) \/ SelectBatch(r) \/ UpdateBatch(r)
    \/ InsertAllocation(r) \/ MarkRestored(r)
    \/ CommitCreate(r) \/ SelectOrder(r) \/ UpdateOrder(r) \/ DeadlockVictim(r)

Next ==
    \/ \E r \in Requests : Begin(r) \/ Run(r) \/ Die(r)
    \/ \E o \in Orders : GrowOld(o)
    \/ \E b \in Batches : Expire(b)

Spec == Init /\ [][Next]_vars

\* A request that can go on does; Node's timers keep starting the two cron jobs,
\* however often something else is running at that moment.
FairSpec ==
    /\ Spec
    /\ \A r \in Requests : WF_vars(Run(r))
    /\ SF_vars(\E r \in Requests : BeginRelease(r))
    /\ SF_vars(\E r \in Requests : BeginAutoCancel(r))

-----------------------------------------------------------------------------
(* Properties of every interleaving *)

\* The types of the tables and of the handlers' variables; an allocation is never
\* empty and the quantity still needed never negative.
TypeOK ==
    /\ batch \in [Batches -> BatchRow]
    /\ ledger \in [Products -> Int]
    /\ allocs \in Seq(AllocationRow)
    /\ order \in [Orders -> OrderRow]
    /\ age \in [Orders -> 0..2]
    /\ expired \subseteq Batches
    /\ req \in [Requests -> Request]
    /\ used \in [calls : 0..MaxCalls, overlaps : 0..MaxOverlaps, faults : 0..MaxFaults]

\* No batch is ever committed with fewer than zero units, whatever overlaps.
NonNegative == \A b \in Batches : batch[b].avail >= 0

\* An allocation belongs to an order that exists and to a batch of what it ordered:
\* create's transaction must carry the allocations, nothing else guards the
\* reference (reference_id has no foreign key).
NoOrphanAllocation ==
    \A k \in DOMAIN allocs :
      LET a == allocs[k]
      IN  /\ Exists(a.order)
          /\ a.line \in DOMAIN Cart[a.order]
          /\ ProductOf[a.batch] = Cart[a.order][a.line].product

Held(o, i) ==
    MapThenSumSet(LAMBDA k : allocs[k].qty, {k \in ActiveAllocs(o) : allocs[k].line = i})
HoldsWhole(o) == \A i \in DOMAIN Cart[o] : Held(o, i) = Cart[o][i].qty

\* A transaction that takes stock for an order takes it for all of its lines, in
\* full: an order never appears, and is never confirmed, with part of its stock
\* taken by that same call.
NewAllocs == {k \in DOMAIN allocs' : k > Len(allocs)}
WholeOrderOrNothing ==
    [][\A o \in Orders :
         order[o] # order'[o] /\ NewAllocs # {} =>
           \A i \in DOMAIN Cart[o] :
             Cart[o][i].qty = MapThenSumSet(LAMBDA k : allocs'[k].qty,
                                {k \in NewAllocs : /\ allocs'[k].order = o
                                                   /\ allocs'[k].line = i})]_vars

-----------------------------------------------------------------------------
(* Properties of requests that do not overlap: MaxInFlight = 1 *)

\* A batch is on sale exactly while it has units.
StatusMatchesQuantity ==
    \A b \in Batches :
      batch[b].status # "ABSENT" => (batch[b].status = "ACTIVE" <=> batch[b].avail > 0)

\* Units are taken from a batch only when the older ones of the product, expired
\* ones aside, are used up.
OldestFirst ==
    \A r \in Requests :
      req[r].pc = "alloc" =>
        \A b \in BatchesOf(Product(req[r])) :
          b < req[r].ent.batch => Sees(r)[b].avail = 0 \/ b \in expired

\* Units on sale and units held add up to what was received, give or take what the
\* requests that died were moving: a crash costs at most the largest line of an order,
\* and the first one no more than a batch.
Supplied(p) == MapThenSumSet(LAMBDA b : Received[b], BatchesOf(p))
Quiet == \A r \in Requests : req[r] = Idle
Drift(p) ==
    SumOver(batch, BatchesOf(p)) - Supplied(p)
    + MapThenSumSet(LAMBDA k : allocs[k].qty,
        {k \in DOMAIN allocs : ~allocs[k].restored /\ ProductOf[allocs[k].batch] = p})
Largest(S) == Max({0} \cup S)
LargestBatch(p) == Largest({Received[b] : b \in BatchesOf(p)})
LargestLine(p) ==
    Largest(UNION {{Cart[o][i].qty : i \in {j \in DOMAIN Cart[o] : Cart[o][j].product = p}}
                   : o \in Orders})
CrashCost(p) ==
    IF used.faults <= 1 THEN Min({LargestBatch(p), LargestLine(p)}) ELSE LargestLine(p)
CrashCostsOneLine ==
    Quiet => \A p \in Products :
               /\ Drift(p) <= used.faults * CrashCost(p)
               /\ -Drift(p) <= used.faults * CrashCost(p)

\* The five-minute job eventually takes the stock back from every order that is
\* still unpaid after its reservation window, even if runs of it die.
ReservationReleased ==
    \A o \in Orders :
      Unpaid(o) /\ age[o] >= 1 ~> ~Unpaid(o) \/ ActiveAllocs(o) = {}

\* The daily job eventually cancels every order unpaid for more than five days.
UnpaidCancelled == \A o \in Orders : Unpaid(o) /\ age[o] = 2 ~> ~Unpaid(o)

\* The promise this implements: units between the save of a batch and the save of
\* its allocation, without a transaction, count as where they come from.
InHand(r, p) ==
    IF req[r].tx \/ req[r].pc \notin {"alloc", "mark"} \/ ProductOf[req[r].ent.batch] # p
    THEN 0
    ELSE IF req[r].pc = "alloc" THEN req[r].ent.qty ELSE -req[r].ent.qty
Promise == INSTANCE StockPromise WITH
    Supply <- [p \in Products |-> Supplied(p)],
    free   <- [p \in Products |-> SumOver(batch, BatchesOf(p))
                + MapThenSumSet(LAMBDA r : InHand(r, p), Requests)],
    held   <- [o \in Orders |-> [i \in DOMAIN Cart[o] |-> Held(o, i)]],
    stage  <- [o \in Orders |-> order[o].status]
KeepsPromise == Promise!Spec

-----------------------------------------------------------------------------
(* What the comments of the code say and the code does not do *)

\* inventory-batch-allocation.entity.ts: an allocation is never restored twice.
NeverRestoredTwice ==
    [][\A r \in Requests, k \in DOMAIN allocs :
         /\ req[r].pc = "update" /\ req'[r].pc = "mark" /\ req[r].ent.alloc = k
         => ~allocs[k].restored]_vars

\* orders.service.ts: stock is taken all the same when an order leaves PENDING.
LeavesPendingHoldingStock ==
    [][\A o \in Orders :
         order[o].status = "PENDING" /\ order'[o].status \in {"PAID", "PREPARING"}
         => HoldsWhole(o)']_vars

\* orders.service.ts: the stock of an order is taken only once (idempotent by
\* hasAllocations), whether by a confirmation or by a manual change of status.
ConsumedOnce == \A o \in Orders : \A i \in DOMAIN Cart[o] : Held(o, i) <= Cart[o][i].qty

\* orders.service.ts: reserving at once is what keeps orders from overselling.
NotOversold ==
    \A p \in Products :
      MapThenSumSet(LAMBDA k : allocs[k].qty,
        {k \in DOMAIN allocs : ~allocs[k].restored /\ ProductOf[allocs[k].batch] = p})
      <= Supplied(p)
=============================================================================
