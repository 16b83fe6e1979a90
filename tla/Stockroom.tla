------------------------------ MODULE Stockroom ------------------------------
(***************************************************************************)
(* How stock enters and is corrected: PurchasesService and the write paths *)
(* of InventoryService that no order is behind (entries, adjustments,      *)
(* migration of legacy stock), over purchases, purchase_payments,          *)
(* inventory_batches and inventory_movements.  One order at a time takes   *)
(* and gives back stock meanwhile, on the path without a transaction.      *)
(*                                                                         *)
(* As in Reservations a request is a sequence of statements and save() of  *)
(* a purchase a SELECT and an UPDATE of what differs.  A loaded Purchase   *)
(* carries its payments (eager): when save() finds a payment row it has    *)
(* not loaded, it sets that row's purchase_id to NULL, which the column    *)
(* refuses, so the save fails.                                             *)
(***************************************************************************)
EXTENDS Integers, Sequences, FiniteSets, FiniteSetsExt

CONSTANTS
    Requests,      \* slots in which a handler may be running
    Products,
    Perishable,    \* the products with isPerishable
    Moved,         \* what the movements of each product add up to at first
    Purchases,
    Lines,         \* the items of each CreatePurchaseDto
    PaidUpFront,   \* its paidAmount
    Amounts,       \* the payments registered
    Entries,       \* the quantities of manual entries and of orders
    Deltas,        \* the adjustments
    MaxBatches,    \* bound: no entry or purchase past this many batches
    MaxCalls,      \* bound: HTTP calls in a behaviour
    MaxOverlaps,   \* bound: calls that begin while another one is running
    MaxFaults      \* bound: requests that die midway

Line == [product : Products, qty : Nat \ {0}, cost : Nat, dated : BOOLEAN]

ASSUME StockroomAssumption ==
    /\ IsFiniteSet(Requests) /\ IsFiniteSet(Products)
    /\ Perishable \subseteq Products /\ Moved \in [Products -> Nat]
    /\ Lines \in [Purchases -> Seq(Line)]
    /\ Amounts \subseteq Nat \ {0} /\ Entries \subseteq Nat \ {0} /\ Deltas \subseteq Int \ {0}
    /\ IsFiniteSet(Amounts) /\ IsFiniteSet(Entries) /\ IsFiniteSet(Deltas)
    /\ MaxBatches \in Nat /\ MaxCalls \in Nat /\ MaxOverlaps \in Nat /\ MaxFaults \in Nat
    /\ PaidUpFront \in [Purchases -> Nat] /\ "none" \notin Products /\ "none" \notin Purchases

VARIABLES
    purchase,  \* purchases: status, paid_amount and balance
    payments,  \* purchase_payments of each purchase, in order of insertion
    batch,     \* inventory_batches, in order of received_at
    moved,     \* the inventory_movements of each batch, added up
    allocs,    \* inventory_batch_allocations of the orders
    req,       \* the local variables of the request in each slot
    used       \* how much of the bounds is used up

vars == <<purchase, payments, batch, moved, allocs, req, used>>

-----------------------------------------------------------------------------
(* Rows and the local state of a request *)

PurchaseStatus == {"OPEN", "PARTIALLY_PAID", "PAID", "CANCELLED"}
PurchaseRow == [status : PurchaseStatus \cup {"ABSENT"}, paid : Int, balance : Int]
BatchStatus == {"ACTIVE", "DEPLETED", "BLOCKED"}
\* expires_at: none, a day to come, or a day that is over
Expiry == {"never", "ahead", "past"}
BatchRow ==
    [product : Products, purchase : Purchases \cup {"none"}, legacy : BOOLEAN,
     expires : Expiry, initial : Int, avail : Int, status : BatchStatus]
\* sum: of all movements of the batch; raised: of those that raised initial_quantity
MovementSums == [sum : Int, raised : Nat]
AllocationRow == [batch : Nat, qty : Nat, restored : BOOLEAN]

NoPurchase == [status |-> "ABSENT", paid |-> 0, balance |-> 0]
Columns == {"status", "paid", "balance"}

Op == {"none", "update", "pay", "cancel", "entry", "adjust", "backfill", "consume", "restore"}
Pc ==
    {"idle", "select", "write", "receipt", "load", "block", "find", "insert", "adjust", "move",
     "plan", "take", "alloc", "give", "mark"}
BatchIds == 1..MaxBatches + Cardinality(Products) * Cardinality(Requests)

Request ==
    [op : Op, pc : Pc,
     purchase : Purchases \cup {"none"},
     row : PurchaseRow, seen : Nat,      \* the purchase loaded, with this many payments
     cols : SUBSET Columns,              \* columns the next UPDATE will set
     product : Products \cup {"none"},
     todo : SUBSET Products,             \* products backfill has still to visit
     next : Int,                         \* applyAdjustment's nextStock
     ent : Nat, avail : Int, initial : Int,  \* the batch entity in hand
     qty : Int,                          \* the units in hand or still needed
     moving : Int,                       \* the units of the movement to insert
     plan : [BatchIds -> Nat],           \* the units of each batch when it was read
     alloc : Nat]

NoPlan == [b \in BatchIds |-> 0]
Idle ==
    [op |-> "none", pc |-> "idle", purchase |-> "none", row |-> NoPurchase, seen |-> 0,
     cols |-> {}, product |-> "none", todo |-> {}, next |-> 0, ent |-> 0, avail |-> 0,
     initial |-> 0, qty |-> 0, moving |-> 0, plan |-> NoPlan, alloc |-> 0]

Total(u) == MapThenSumSet(LAMBDA i : Lines[u][i].qty * Lines[u][i].cost, DOMAIN Lines[u])
BatchesOf(p) == {b \in DOMAIN batch : batch[b].product = p}
BoughtWith(u) == {b \in DOMAIN batch : batch[b].purchase = u}
LegacyOf(p) == {b \in BatchesOf(p) : batch[b].legacy}
OnSale(p) == {b \in BatchesOf(p) : batch[b].status = "ACTIVE"}
Units(S) == MapThenSumSet(LAMBDA b : batch[b].avail, S)
Ledger(p) == Moved[p] + MapThenSumSet(LAMBDA b : moved[b].sum, BatchesOf(p))

\* getCurrentStock: all batches, or the movements if the batches hold nothing.
CurrentStock(p) == IF Units(BatchesOf(p)) > 0 THEN Units(BatchesOf(p)) ELSE Ledger(p)

\* getInventorySummary: the stock of a product as the panel shows it.
SummaryStock(p) == Units({b \in BatchesOf(p) : batch[b].avail > 0})

\* Mutant of ResolveStatus: a purchase paid to the last peso stays partially paid.
ResolveStrict(total, paid) ==
    IF paid <= 0 THEN "OPEN" ELSE IF paid > total THEN "PAID" ELSE "PARTIALLY_PAID"
ResolveStatus(total, paid) ==
    IF paid <= 0 THEN "OPEN" ELSE IF paid >= total THEN "PAID" ELSE "PARTIALLY_PAID"

\* serializePurchase: the status as it is shown.
ShownStatus(row) ==
    IF row.status # "CANCELLED" /\ row.balance <= 0 THEN "PAID" ELSE row.status

NewBatch(p, u, legacy, dated, n) ==
    [product |-> p, purchase |-> u, legacy |-> legacy, initial |-> n,
     expires |-> IF dated THEN "ahead" ELSE "never",
     avail |-> n, status |-> IF n > 0 THEN "ACTIVE" ELSE "DEPLETED"]

\* ensurePerishableRules throws.
NeedsDate(p, dated) == p \in Perishable /\ ~dated

-----------------------------------------------------------------------------
(* A request begins *)

Init ==
    /\ purchase = [u \in Purchases |-> NoPurchase]
    /\ payments = [u \in Purchases |-> <<>>]
    /\ batch = <<>> /\ moved = <<>> /\ allocs = <<>>
    /\ req = [r \in Requests |-> Idle]
    /\ used = [calls |-> 0, overlaps |-> 0, faults |-> 0]

Running(r) == req[r] # Idle
Overlaps(r) == \E s \in Requests \ {r} : Running(s)

\* A slot in which another call may begin.
Free(r) ==
    /\ ~Running(r) /\ used.calls < MaxCalls
    /\ Overlaps(r) => used.overlaps < MaxOverlaps

Call(r, q) ==
    /\ used' = [used EXCEPT !.calls = @ + 1,
                            !.overlaps = IF Overlaps(r) THEN @ + 1 ELSE @]
    /\ req' = [req EXCEPT ![r] = q]

\* create: one transaction that inserts the purchase, its items, their batches and
\* movements; the tables it reads are constant here.
CreatePurchase(r, u) ==
    /\ purchase[u].status = "ABSENT" /\ Len(batch) + Len(Lines[u]) <= MaxBatches
    /\ \A i \in DOMAIN Lines[u] : ~NeedsDate(Lines[u][i].product, Lines[u][i].dated)
    /\ PaidUpFront[u] <= Total(u)
    /\ purchase' = [purchase EXCEPT ![u] =
          [status |-> ResolveStatus(Total(u), PaidUpFront[u]),
           paid |-> PaidUpFront[u], balance |-> Total(u) - PaidUpFront[u]]]
    /\ batch' = batch \o [i \in DOMAIN Lines[u] |->
                   NewBatch(Lines[u][i].product, u, FALSE, Lines[u][i].dated, Lines[u][i].qty)]
    /\ moved' = moved \o [i \in DOMAIN Lines[u] |->
                             [sum |-> Lines[u][i].qty, raised |-> Lines[u][i].qty]]
    /\ Call(r, Idle)
    /\ UNCHANGED <<payments, allocs>>

Loaded(op, u, pc, row) ==
    [Idle EXCEPT !.op = op, !.pc = pc, !.purchase = u, !.row = row, !.seen = Len(payments[u])]
Editable(u) == purchase[u].status \notin {"ABSENT", "CANCELLED"}

\* update: the date and the note, saved with the purchase as it was read.
BeginUpdate(r, u) ==
    /\ Editable(u)
    /\ Call(r, Loaded("update", u, "select", purchase[u]))
    /\ UNCHANGED <<purchase, payments, batch, moved, allocs>>

\* registerPayment throws if the payment exceeds the balance.
MayPay(row, total, amount) == amount <= row.balance

\* Mutant of Paid: any payment settles the purchase.
PaidInFull(row, total, amount) == [status |-> "PAID", paid |-> total, balance |-> 0]
\* A payment on the purchase as it was read.
Paid(row, total, amount) ==
    [status |-> ResolveStatus(total, row.paid + amount), paid |-> row.paid + amount,
     balance |-> Max({0, total - (row.paid + amount)})]

\* registerPayment reads the purchase; the receipt is uploaded before the save.
BeginPay(r, u, amount) ==
    /\ Editable(u) /\ MayPay(purchase[u], Total(u), amount)
    /\ Call(r, [Loaded("pay", u, "select", Paid(purchase[u], Total(u), amount))
                  EXCEPT !.qty = amount])
    /\ UNCHANGED <<purchase, payments, batch, moved, allocs>>

\* Mutant of CanCancel: the lots that were drawn on are not looked at.
CanCancelAny(u) == TRUE
\* getCancelability: no batch of the purchase holds less than it was received with.
CanCancel(u) == \A b \in BoughtWith(u) : batch[b].avail >= batch[b].initial

BeginCancel(r, u) ==
    /\ Editable(u) /\ CanCancel(u)
    /\ Call(r, Loaded("cancel", u, "load",
                      [purchase[u] EXCEPT !.status = "CANCELLED", !.balance = 0]))
    /\ UNCHANGED <<purchase, payments, batch, moved, allocs>>

\* registerEntry, and registerMovement of type IN, which never has an expiry date:
\* the batch is inserted first.
BeginEntry(r, p, n, dated) ==
    /\ Len(batch) < MaxBatches /\ ~NeedsDate(p, dated)
    /\ batch' = Append(batch, NewBatch(p, "none", FALSE, dated, n))
    /\ moved' = Append(moved, [sum |-> 0, raised |-> 0])
    /\ Call(r, [Idle EXCEPT !.op = "entry", !.pc = "move", !.ent = Len(batch) + 1,
                            !.moving = n])
    /\ UNCHANGED <<purchase, payments, allocs>>

\* Mutant of Affordable: an adjustment is not checked against the stock.
AffordableAlways(p, delta) == TRUE
Affordable(p, delta) == CurrentStock(p) + delta >= 0

BeginAdjust(r, p, delta) ==
    /\ Affordable(p, delta)
    /\ Call(r, [Idle EXCEPT !.op = "adjust", !.pc = "find", !.product = p, !.qty = delta,
                            !.next = CurrentStock(p) + delta])
    /\ UNCHANGED <<purchase, payments, batch, moved, allocs>>

\* backfillLegacyBatches: every product, one after the other.
BeginBackfill(r) ==
    /\ \E p \in Products :
         Call(r, [Idle EXCEPT !.op = "backfill", !.pc = "find", !.product = p,
                              !.todo = Products \ {p}])
    /\ UNCHANGED <<purchase, payments, batch, moved, allocs>>

\* consumeStock, after the caller's look at getCurrentStock.
BeginConsume(r, p, n) ==
    /\ CurrentStock(p) >= n
    /\ Call(r, [Idle EXCEPT !.op = "consume", !.product = p, !.qty = n,
                            !.pc = IF OnSale(p) = {} THEN "find" ELSE "plan"])
    /\ UNCHANGED <<purchase, payments, batch, moved, allocs>>

\* restoreStockFromAllocations: an unrestored allocation and its batch are read.
BeginRestore(r, k) ==
    /\ ~allocs[k].restored
    /\ Call(r, [Idle EXCEPT !.op = "restore", !.pc = "give", !.alloc = k,
                            !.ent = allocs[k].batch, !.moving = allocs[k].qty,
                            !.avail = batch[allocs[k].batch].avail + allocs[k].qty])
    /\ UNCHANGED <<purchase, payments, batch, moved, allocs>>

-----------------------------------------------------------------------------
(* Statements of a running request *)

Goto(r, q) == req' = [req EXCEPT ![r] = q]
Throw(r) == Goto(r, Idle) /\ UNCHANGED <<purchase, payments, batch, moved, allocs>>

\* The entity was loaded before a payment of the purchase was inserted.
MissesPayment(q) == Len(payments[q.purchase]) > q.seen

\* The SELECT of the purchase's save.
SelectPurchase(r) ==
    LET q == req[r]
        row == purchase[q.purchase]
    IN  /\ q.pc = "select"
        /\ IF MissesPayment(q) THEN Throw(r)
           ELSE /\ Goto(r, [q EXCEPT !.pc = "write",
                       !.cols = {c \in Columns : \/ c = "status" /\ q.row.status # row.status
                                                 \/ c = "paid" /\ q.row.paid # row.paid
                                                 \/ c = "balance" /\ q.row.balance # row.balance}])
                /\ UNCHANGED <<purchase, payments, batch, moved, allocs>>
        /\ UNCHANGED used

WritePurchase(r) ==
    LET q == req[r]
    IN  /\ q.pc = "write"
        /\ purchase' = [purchase EXCEPT ![q.purchase] =
              [status  |-> IF "status" \in q.cols THEN q.row.status ELSE @.status,
               paid    |-> IF "paid" \in q.cols THEN q.row.paid ELSE @.paid,
               balance |-> IF "balance" \in q.cols THEN q.row.balance ELSE @.balance]]
        /\ Goto(r, IF q.op = "pay" THEN [q EXCEPT !.pc = "receipt", !.cols = {}] ELSE Idle)
        /\ UNCHANGED <<payments, batch, moved, allocs, used>>

InsertPayment(r) ==
    /\ req[r].pc = "receipt"
    /\ payments' = [payments EXCEPT ![req[r].purchase] = Append(@, req[r].qty)]
    /\ Goto(r, Idle)
    /\ UNCHANGED <<purchase, batch, moved, allocs, used>>

\* cancel's transaction begins with the batches of the purchase.
LoadBatches(r) ==
    /\ req[r].pc = "load"
    /\ Goto(r, [req[r] EXCEPT !.pc = "block",
                  !.plan = [b \in BatchIds |->
                     IF b \in BoughtWith(req[r].purchase) /\ batch[b].avail > 0
                     THEN batch[b].avail ELSE 0]])
    /\ UNCHANGED <<purchase, payments, batch, moved, allocs, used>>

\* Mutant of Blocked: a cancelled lot keeps its units.
BlockedFull(row) == [row EXCEPT !.status = "BLOCKED"]
Blocked(row) == [row EXCEPT !.avail = 0, !.status = "BLOCKED"]

\* It empties them, saves the purchase as read and commits.
CommitCancel(r) ==
    LET q == req[r]
    IN  /\ q.pc = "block"
        /\ IF MissesPayment(q) THEN Throw(r)
           ELSE /\ batch' = [b \in DOMAIN batch |->
                               IF b \in BoughtWith(q.purchase) THEN Blocked(batch[b]) ELSE batch[b]]
                /\ moved' = [b \in DOMAIN moved |-> [moved[b] EXCEPT !.sum = @ - q.plan[b]]]
                /\ purchase' = [purchase EXCEPT ![q.purchase] = q.row]
                /\ Goto(r, Idle)
                /\ UNCHANGED <<payments, allocs>>
        /\ UNCHANGED used

\* Where a request goes when its product has a LEGACY batch, or needs none.
AfterLegacy(q, b) ==
    CASE q.op = "adjust"   -> [q EXCEPT !.pc = "adjust", !.ent = b]
      [] q.op = "consume"  -> [q EXCEPT !.pc = "plan"]
      [] q.op = "backfill" -> IF q.todo = {} THEN Idle ELSE q
NextProduct(q) ==
    IF q.op = "backfill" /\ q.todo # {}
    THEN {[q EXCEPT !.pc = "find", !.product = p, !.todo = @ \ {p}] : p \in q.todo}
    ELSE {q}

\* Mutant of FoundLegacy: the existing LEGACY batch is not found.
FoundNone(p) == {}
FoundLegacy(p) == LegacyOf(p)

\* createLegacyBatchForProduct: the batch is looked up, else the movements are added
\* up; an adjustment wants a batch even of nothing, a perishable product throws.
FindLegacy(r) ==
    LET q == req[r]
        stock == Ledger(q.product)
    IN  /\ q.pc = "find"
        /\ \/ \E b \in FoundLegacy(q.product) :
                \E n \in NextProduct(AfterLegacy([q EXCEPT !.avail = batch[b].avail,
                                                     !.initial = batch[b].initial], b)) :
                  Goto(r, n) /\ UNCHANGED <<purchase, payments, batch, moved, allocs>>
           \/ /\ FoundLegacy(q.product) = {} /\ stock <= 0 /\ q.op # "adjust"
              /\ \E n \in NextProduct(AfterLegacy(q, 0)) : Goto(r, n)
              /\ UNCHANGED <<purchase, payments, batch, moved, allocs>>
           \/ /\ FoundLegacy(q.product) = {} /\ (stock > 0 \/ q.op = "adjust")
              /\ IF NeedsDate(q.product, FALSE) THEN Throw(r)
                 ELSE /\ Goto(r, [q EXCEPT !.pc = "insert", !.moving = Max({0, stock})])
                      /\ UNCHANGED <<purchase, payments, batch, moved, allocs>>
        /\ UNCHANGED used

InsertLegacy(r) ==
    LET q == req[r]
        n == q.moving
    IN  /\ q.pc = "insert"
        /\ batch' = Append(batch, NewBatch(q.product, "none", TRUE, FALSE, n))
        /\ moved' = Append(moved, [sum |-> 0, raised |-> 0])
        /\ \E next \in NextProduct(AfterLegacy([q EXCEPT !.avail = n, !.initial = n, !.moving = 0],
                                               Len(batch) + 1)) : Goto(r, next)
        /\ UNCHANGED <<purchase, payments, allocs, used>>

\* Mutant of Raised: initial_quantity follows corrections downwards too.
RaisedByAny(delta) == delta
\* applyAdjustment: only a positive correction adds to initial_quantity.
Raised(delta) == IF delta > 0 THEN delta ELSE 0

StatusFor(left) == IF left <= 0 THEN "DEPLETED" ELSE "ACTIVE"

\* applyAdjustment saves the batch entity it found.
AdjustBatch(r) ==
    LET q == req[r]
    IN  /\ q.pc = "adjust"
        /\ batch' = [batch EXCEPT ![q.ent] = [@ EXCEPT !.avail = q.avail + q.qty,
                        !.initial = q.initial + Raised(q.qty),
                        !.status = StatusFor(q.avail + q.qty)]]
        /\ Goto(r, [q EXCEPT !.pc = "move", !.moving = q.qty])
        /\ UNCHANGED <<purchase, payments, moved, allocs, used>>

\* createSystemMovement, the last statement of an entry and of an adjustment.
InsertMovement(r) ==
    LET q == req[r]
    IN  /\ q.pc = "move"
        /\ moved' = [moved EXCEPT ![q.ent] = [sum |-> @.sum + q.moving,
                                              raised |-> @.raised + Raised(q.moving)]]
        /\ Goto(r, Idle)
        /\ UNCHANGED <<purchase, payments, batch, allocs, used>>

Usable(p) ==
    {b \in OnSale(p) : batch[b].avail > 0 /\ (p \in Perishable => batch[b].expires = "ahead")}

\* consumeStock reads its candidates and throws if they hold too little.
ReadCandidates(r) ==
    LET q == req[r]
    IN  /\ q.pc = "plan"
        /\ IF Units(Usable(q.product)) < q.qty THEN Throw(r)
           ELSE /\ Goto(r, [q EXCEPT !.pc = "take",
                       !.plan = [b \in BatchIds |->
                                   IF b \in Usable(q.product) THEN batch[b].avail ELSE 0]])
                /\ UNCHANGED <<purchase, payments, batch, moved, allocs>>
        /\ UNCHANGED used

\* The oldest candidate gives what it has or what is missing.
TakeBatch(r) ==
    LET q == req[r]
        b == Min({c \in BatchIds : q.plan[c] > 0})
        n == Min({q.plan[b], q.qty})
    IN  /\ q.pc = "take"
        /\ batch' = [batch EXCEPT ![b] = [@ EXCEPT !.avail = q.plan[b] - n,
                                                   !.status = StatusFor(q.plan[b] - n)]]
        /\ Goto(r, [q EXCEPT !.pc = "alloc", !.ent = b, !.moving = n, !.qty = @ - n,
                             !.plan[b] = 0])
        /\ UNCHANGED <<purchase, payments, moved, allocs, used>>

InsertAllocation(r) ==
    LET q == req[r]
    IN  /\ q.pc = "alloc"
        /\ allocs' = Append(allocs, [batch |-> q.ent, qty |-> q.moving, restored |-> FALSE])
        /\ moved' = [moved EXCEPT ![q.ent].sum = @ - q.moving]
        /\ Goto(r, IF q.qty = 0 THEN Idle ELSE [q EXCEPT !.pc = "take"])
        /\ UNCHANGED <<purchase, payments, batch, used>>

\* Mutant of GivenBack: the batch is not put on sale again.
GivenBackUnseen(row, units) == [row EXCEPT !.avail = units]
GivenBack(row, units) == [row EXCEPT !.avail = units, !.status = "ACTIVE"]

GiveBack(r) ==
    LET q == req[r]
    IN  /\ q.pc = "give"
        /\ batch' = [batch EXCEPT ![q.ent] = GivenBack(@, q.avail)]
        /\ Goto(r, [q EXCEPT !.pc = "mark"])
        /\ UNCHANGED <<purchase, payments, moved, allocs, used>>

MarkRestored(r) ==
    LET q == req[r]
    IN  /\ q.pc = "mark"
        /\ allocs' = [allocs EXCEPT ![q.alloc].restored = TRUE]
        /\ moved' = [moved EXCEPT ![q.ent].sum = @ + q.moving]
        /\ Goto(r, Idle)
        /\ UNCHANGED <<purchase, payments, batch, used>>

\* The process or the connection fails.
Die(r) ==
    /\ Running(r) /\ used.faults < MaxFaults
    /\ used' = [used EXCEPT !.faults = @ + 1]
    /\ Throw(r)

\* The expiry date of a batch goes by.
Expire(b) ==
    /\ batch[b].expires = "ahead"
    /\ batch' = [batch EXCEPT ![b].expires = "past"]
    /\ UNCHANGED <<purchase, payments, moved, allocs, req, used>>

\* The routes of the controllers that change state, whoever may call them.
PurchasesController(r) ==
    \E u \in Purchases :
      \/ CreatePurchase(r, u) \/ BeginUpdate(r, u) \/ BeginCancel(r, u)
      \/ \E amount \in Amounts : BeginPay(r, u, amount)

InventoryController(r) ==
    \/ \E p \in Products :
         \/ \E n \in Entries, dated \in BOOLEAN : BeginEntry(r, p, n, dated)
         \/ \E delta \in Deltas : BeginAdjust(r, p, delta)
    \/ BeginBackfill(r)

\* What orders ask of the inventory.
Orders(r) ==
    \/ \E p \in Products, n \in Entries : BeginConsume(r, p, n)
    \/ \E k \in DOMAIN allocs : BeginRestore(r, k)

Begin(r) == Free(r) /\ (PurchasesController(r) \/ InventoryController(r) \/ Orders(r))

Run(r) ==
    \/ SelectPurchase(r) \/ WritePurchase(r) \/ InsertPayment(r)
    \/ LoadBatches(r) \/ CommitCancel(r)
    \/ FindLegacy(r) \/ InsertLegacy(r) \/ AdjustBatch(r) \/ InsertMovement(r)
    \/ ReadCandidates(r) \/ TakeBatch(r) \/ InsertAllocation(r)
    \/ GiveBack(r) \/ MarkRestored(r)

Next ==
    \/ \E b \in DOMAIN batch : Expire(b)
    \/ \E r \in Requests : Begin(r) \/ (Running(r) /\ Run(r)) \/ Die(r)
Spec == Init /\ [][Next]_vars

-----------------------------------------------------------------------------
(* Properties of every interleaving *)

\* The types of the tables and of the handlers' variables.
TypeOK ==
    /\ purchase \in [Purchases -> PurchaseRow]
    /\ payments \in [Purchases -> Seq(Nat \ {0})]
    /\ batch \in Seq(BatchRow) /\ moved \in Seq(MovementSums) /\ Len(moved) = Len(batch)
    /\ Len(batch) <= Cardinality(BatchIds)
    /\ allocs \in Seq(AllocationRow)
    /\ req \in [Requests -> Request]
    /\ used \in [calls : 0..MaxCalls, overlaps : 0..MaxOverlaps, faults : 0..MaxFaults]

Received(u) == FoldFunction(+, 0, payments[u])

\* Payments on their way: the purchase is saved, the payment row not yet inserted.
OnTheWay(u) == {r \in Requests : req[r].pc = "receipt" /\ req[r].purchase = u}

\* However payments overlap, a purchase never counts as paid what nobody paid:
\* paid_amount may lose a payment to a save from a stale entity but never exceeds
\* the rows of purchase_payments, those still to be inserted included; each request
\* that died between its two saves accounts for one payment at most.
PaidNeverInvented ==
    \A u \in Purchases :
      purchase[u].paid <= PaidUpFront[u] + Received(u)
        + MapThenSumSet(LAMBDA r : req[r].qty, OnTheWay(u)) + used.faults * Max({0} \cup Amounts)

-----------------------------------------------------------------------------
(* Properties of requests that do not overlap *)

Quiet == \A r \in Requests : ~Running(r)
Serial == used.overlaps = 0
Clean == Serial /\ used.faults = 0

\* Between requests the three columns of a purchase and its payments agree; the
\* status shown differs from the stored one only for a purchase that cost nothing.
BooksBalance ==
    Clean /\ Quiet =>
      \A u \in Purchases :
        LET row == purchase[u]
        IN  row.status # "ABSENT" =>
              /\ row.paid = PaidUpFront[u] + Received(u)
              /\ row.balance = IF row.status = "CANCELLED" THEN 0 ELSE Total(u) - row.paid
              /\ ShownStatus(row) = row.status \/ Total(u) = 0

\* A cancelled purchase leaves nothing behind: its lots are blocked, empty, and no
\* order holds units of them.  cancel relies on getCancelability for the last.
CancelledHoldsNothing ==
    Clean =>
      \A u \in Purchases : purchase[u].status = "CANCELLED" =>
        \A b \in BoughtWith(u) :
          /\ batch[b].status = "BLOCKED" /\ batch[b].avail = 0
          /\ \A k \in DOMAIN allocs : allocs[k].batch = b => allocs[k].restored

\* The movements of a batch explain its quantity: what it was created with, without
\* a movement, and every change since.  A request that dies midway leaves at most
\* one movement's difference.
Unexplained(b) == batch[b].avail - (batch[b].initial - moved[b].raised + moved[b].sum)
LargestMove == Max({0} \cup Entries \cup Deltas \cup {-d : d \in Deltas})
MovementsExplainBatches ==
    Serial /\ Quiet =>
      \A b \in DOMAIN batch :
        /\ Unexplained(b) <= used.faults * LargestMove
        /\ -Unexplained(b) <= used.faults * LargestMove

\* An adjustment checks the stock of all batches but subtracts from the LEGACY batch
\* alone, which may go below zero on the strength of lots that a cancellation then
\* empties: by that much, and no more, the stock of a product may be short.
Cancelled(p) ==
    MapThenSumSet(LAMBDA b : batch[b].initial,
                  {b \in BatchesOf(p) : batch[b].status = "BLOCKED"})
ShortOnlyByCancellation ==
    Clean => \A p \in Products : Units(BatchesOf(p)) >= -Cancelled(p)

\* A product gets one LEGACY batch at most: the code looks before it inserts, the
\* database has no constraint.
OneLegacyBatch == Serial => \A p \in Products : Cardinality(LegacyOf(p)) <= 1

\* What the inventory panel counts as stock can be sold, but for the lots of perishable
\* products that expired, which it counts and consumeStock passes over.
Expired(p) == {b \in BatchesOf(p) : p \in Perishable /\ batch[b].expires = "past"}
SummaryIsSellable ==
    Clean /\ Quiet =>
      \A p \in Products : SummaryStock(p) = Units(Usable(p)) + Units(Expired(p))

-----------------------------------------------------------------------------
(* What the code says of itself and does not do *)

\* applyAdjustment: the stock after an adjustment is nextStock, the stock before it
\* plus the delta; that is what it checks to be no less than zero.
AdjustmentAddsUp ==
    [][\A r \in Requests, p \in Products :
         /\ req[r].op = "adjust" /\ req[r].pc = "move" /\ req[r].product = p
         /\ ~Running(r)' /\ Clean'
         => CurrentStock(p)' = req[r].next]_vars
=============================================================================
