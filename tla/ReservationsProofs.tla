------------------------- MODULE ReservationsProofs -------------------------
(***************************************************************************)
(* Proofs about Reservations for every number of products, orders, batches *)
(* and overlapping requests, and every value of the bounds.                *)
(***************************************************************************)
EXTENDS Reservations, TLAPS

(* What the state of a request means at each of its statements, and what the *)
(* batch rows in its hands hold.  TypeOK and NonNegative are not inductive   *)
(* without it: the next statement writes what this one left in memory.       *)
InSave(q) == q.pc \in {"select", "update", "alloc", "mark"}
HasOrder(q) == q.pc \notin {"idle", "find"} => q.order \in Orders
HasNeed(q) == q.pc \in {"read", "take"} => q.need > 0
HasBatch(q) == InSave(q) => q.ent.batch \in Batches
MovesUnits(q) == InSave(q) => q.ent.qty > 0
WritesNoDebt(q) == q.ent.avail >= 0 /\ \A b \in Batches : q.wb[b].avail >= 0

Sound(q) ==
    /\ q \in Request
    /\ HasOrder(q) /\ HasNeed(q) /\ HasBatch(q) /\ MovesUnits(q) /\ WritesNoDebt(q)

Inv ==
    /\ TypeOK
    /\ NonNegative
    /\ \A r \in Requests : Sound(req[r]) /\ req[r].todo \subseteq DOMAIN allocs

-----------------------------------------------------------------------------
(* The operators that compute the next state of a request *)

\* A request at rest is sound.
LEMMA IdleSound == Sound(Idle) /\ Idle.todo = {}
  BY ConstantsAssumption
  DEF Sound, HasOrder, HasNeed, HasBatch, MovesUnits, InSave, WritesNoDebt, Idle, Request,
      NoCandidates, NoEntity, NoBatchRow, BatchRow, NoRow, OrderRow, OrderStatus,
      PaymentStatus, Ops, Pcs, Columns, AllocationRow

\* A request at rest is a well-typed one, at no statement and with no order.
LEMMA IdleType == Idle \in Request /\ Idle.pc = "idle" /\ Idle.order = "none"
  BY IdleSound DEF Sound, Idle

\* The next statement of a cron job, or the end of the handler, is sound.
LEMMA DoneWithOrderSound ==
    ASSUME NEW q, Sound(q)
    PROVE  Sound(DoneWithOrder(q)) /\ DoneWithOrder(q).todo = {} /\ ~InSave(DoneWithOrder(q))
<1> DEFINE rest == [q.rows EXCEPT ![q.order] = NoRow]
           next == [Idle EXCEPT !.op = q.op, !.pc = "find", !.rows = rest]
<1>1. rest \in [Orders -> OrderRow]
  BY DEF Sound, Request, NoRow, OrderRow, OrderStatus, PaymentStatus
<1>2. q.op \in Ops
  BY DEF Sound, Request
<1> HIDE DEF rest
<1>3. next \in Request
  BY <1>1, <1>2, IdleSound DEF Sound, Request, Pcs
<1>4. next.pc = "find" /\ next.todo = {} /\ next.ent = Idle.ent /\ next.wb = Idle.wb
  BY IdleSound DEF Sound, Request
<1> HIDE DEF next
<1>5. Sound(next) /\ next.todo = {}
  BY <1>3, <1>4, IdleSound
  DEF Sound, HasOrder, HasNeed, HasBatch, MovesUnits, InSave, WritesNoDebt
<1> QED
  BY <1>4, <1>5, IdleSound, IdleType DEF DoneWithOrder, InSave, next, rest

\* Going on after an allocation was restored is sound.
LEMMA AfterRestoreSound ==
    ASSUME NEW q, Sound(q), q.order \in Orders
    PROVE  /\ Sound(AfterRestore(q)) /\ AfterRestore(q).todo \subseteq q.todo
           /\ ~InSave(AfterRestore(q))
  BY DoneWithOrderSound
  DEF Sound, HasOrder, HasNeed, HasBatch, MovesUnits, InSave, WritesNoDebt, Request,
      AfterRestore, Pcs

\* Every item of an order names a product and at least one unit of it.
LEMMA ItemOfCart ==
    ASSUME NEW o \in Orders, NEW i \in DOMAIN Cart[o]
    PROVE  /\ i \in Nat \ {0}
           /\ Cart[o][i].product \in Products
           /\ Cart[o][i].qty \in Nat \ {0}
<1>1. Cart[o] \in Seq(Items)
  BY ConstantsAssumption
<1>2. Cart[o][i] \in Items /\ i \in Nat \ {0}
  BY <1>1
<1> QED
  BY <1>2 DEF Items

\* Going on after a batch was consumed is sound: the next batch, the next item or the
\* end.
LEMMA AfterConsumeSound ==
    ASSUME NEW q, Sound(q), q.order \in Orders
    PROVE  Sound(AfterConsume(q)) /\ AfterConsume(q).todo = q.todo /\ ~InSave(AfterConsume(q))
<1>1. CASE q.need > 0 \/ ~(q.line < Len(Cart[q.order]))
  BY <1>1
  DEF Sound, HasOrder, HasNeed, HasBatch, MovesUnits, InSave, WritesNoDebt, Request,
      AfterConsume, Pcs, NoCandidates
<1>2. CASE ~(q.need > 0) /\ q.line < Len(Cart[q.order])
  <2>1. q.line \in Nat /\ Cart[q.order] \in Seq(Items)
    BY ConstantsAssumption DEF Sound, Request
  <2>2. q.line + 1 \in DOMAIN Cart[q.order]
    BY <1>2, <2>1
  <2>3. Cart[q.order][q.line + 1].qty \in Nat \ {0}
    BY <2>2, ItemOfCart
  <2> DEFINE n == Cart[q.order][q.line + 1].qty
             next == [q EXCEPT !.pc = "read", !.line = @ + 1, !.need = n,
                               !.plan = NoCandidates]
  <2> HIDE DEF n
  <2>4. n \in Nat /\ n > 0
    BY <2>3 DEF n
  <2>5. next \in Request
    <3>1. q.line + 1 \in Nat /\ NoCandidates \in [Batches -> Nat]
      BY <2>1 DEF NoCandidates
    <3>2. [q EXCEPT !.pc = "read", !.line = @ + 1] \in Request
      BY <3>1 DEF Sound, Request, Pcs
    <3>3. [q EXCEPT !.pc = "read", !.line = @ + 1, !.need = n] \in Request
      BY <3>2, <2>4 DEF Sound, Request, Pcs
    <3> QED
      BY <3>1, <3>3 DEF Sound, Request
  <2>6. next.pc = "read" /\ next.need = n /\ next.order = q.order /\ next.todo = q.todo
        /\ next.ent = q.ent /\ next.wb = q.wb
    BY <2>4 DEF Sound, Request
  <2> HIDE DEF next
  <2>7. Sound(next) /\ next.todo = q.todo /\ ~InSave(next)
    BY <2>4, <2>5, <2>6
    DEF Sound, HasOrder, HasNeed, HasBatch, MovesUnits, InSave, WritesNoDebt
  <2> QED
    BY <1>2, <2>7 DEF AfterConsume, next, n
<1> QED
  BY <1>1, <1>2

\* Starting on the first item of an order's cart is sound.
LEMMA FirstItemSound ==
    ASSUME NEW q, Sound(q), q.order \in Orders
    PROVE  Sound(FirstItem(q)) /\ FirstItem(q).todo = q.todo
<1>1. Cart[q.order] \in Seq(Items) /\ Len(Cart[q.order]) > 0
  BY ConstantsAssumption
<1>2. 1 \in DOMAIN Cart[q.order]
  BY <1>1
<1>3. Cart[q.order][1].qty \in Nat \ {0}
  BY <1>2, ItemOfCart
<1> DEFINE n == Cart[q.order][1].qty
           next == [q EXCEPT !.pc = "read", !.line = 1, !.need = n]
<1> HIDE DEF n
<1>4. n \in Nat /\ n > 0
  BY <1>3 DEF n
<1>5. next \in Request
  BY <1>4 DEF Sound, Request, Pcs
<1>6. next.pc = "read" /\ next.need = n /\ next.order = q.order /\ next.todo = q.todo
      /\ next.ent = q.ent /\ next.wb = q.wb
  BY <1>4 DEF Sound, Request
<1> HIDE DEF next
<1>7. Sound(next) /\ next.todo = q.todo
  BY <1>4, <1>5, <1>6
  DEF Sound, HasOrder, HasNeed, HasBatch, MovesUnits, InSave, WritesNoDebt
<1> QED
  BY <1>7 DEF FirstItem, next, n

-----------------------------------------------------------------------------
(* Steps of the system *)

Used == [calls : 0..MaxCalls, overlaps : 0..MaxOverlaps, faults : 0..MaxFaults]

\* What every step of a request has to show: the tables keep their types, rows of
\* allocations are never removed, and the request itself goes on soundly.
LEMMA StepKeepsInv ==
    ASSUME Inv, NEW r \in Requests, NEW q, Sound(q), q.todo \subseteq DOMAIN allocs,
           req' = [req EXCEPT ![r] = q],
           batch' \in [Batches -> BatchRow], \A b \in Batches : batch'[b].avail >= 0,
           ledger' \in [Products -> Int],
           allocs' \in Seq(AllocationRow), Len(allocs) <= Len(allocs'),
           order' \in [Orders -> OrderRow],
           UNCHANGED <<age, expired>>, used' \in Used
    PROVE  Inv'
<1>1. allocs \in Seq(AllocationRow)
  BY DEF Inv, TypeOK
<1>2. DOMAIN allocs \subseteq DOMAIN allocs'
  BY <1>1
<1>3. q \in Request
  BY DEF Sound
<1>4. TypeOK'
  BY <1>3 DEF Inv, TypeOK, Used
<1>5. NonNegative'
  BY DEF NonNegative
<1>6. ASSUME NEW s \in Requests
      PROVE  Sound(req'[s]) /\ req'[s].todo \subseteq DOMAIN allocs'
  BY <1>2 DEF Inv, TypeOK
<1> QED
  BY <1>4, <1>5, <1>6 DEF Inv

\* The same for the steps that write no table.
LEMMA LocalStepKeepsInv ==
    ASSUME Inv, NEW r \in Requests, NEW q, Sound(q), q.todo \subseteq DOMAIN allocs,
           req' = [req EXCEPT ![r] = q], UNCHANGED db,
           UNCHANGED <<age, expired>>, used' \in Used
    PROVE  Inv'
<1>1. /\ batch \in [Batches -> BatchRow] /\ \A b \in Batches : batch[b].avail >= 0
      /\ ledger \in [Products -> Int] /\ order \in [Orders -> OrderRow]
      /\ allocs \in Seq(AllocationRow)
  BY DEF Inv, TypeOK, NonNegative
<1>2. /\ batch' = batch /\ ledger' = ledger /\ order' = order /\ allocs' = allocs
      /\ Len(allocs) <= Len(allocs')
  BY <1>1 DEF db
<1>3. /\ batch' \in [Batches -> BatchRow] /\ \A b \in Batches : batch'[b].avail >= 0
      /\ ledger' \in [Products -> Int] /\ order' \in [Orders -> OrderRow]
      /\ allocs' \in Seq(AllocationRow)
  BY <1>1, <1>2
<1> QED
  BY <1>2, <1>3, StepKeepsInv

\* An exception writes nothing.
LEMMA ThrowKeepsInv ==
    ASSUME Inv, NEW r \in Requests, Throw(r), UNCHANGED <<age, expired>>, used' \in Used
    PROVE  Inv'
<1>1. Sound(Idle) /\ Idle.todo \subseteq DOMAIN allocs
  BY IdleSound
<1> QED
  BY <1>1, LocalStepKeepsInv DEF Throw, Goto

\* The bounds used up so far are within their bounds.
LEMMA UsedType == ASSUME Inv PROVE used \in Used
  BY DEF Inv, TypeOK, Used

\* The batches as a request sees them have rows, and no debt.
LEMMA SeesSound ==
    ASSUME Inv, NEW r \in Requests
    PROVE  /\ Sees(r) \in [Batches -> BatchRow]
           /\ \A b \in Batches : Sees(r)[b].avail >= 0
  BY DEF Inv, TypeOK, NonNegative, Sees, Sound, WritesNoDebt, Request

-----------------------------------------------------------------------------
(* Requests begin *)

\* An HTTP call that begins in a sound state, with nothing to restore, keeps the
\* invariant.
LEMMA CallKeepsInv ==
    ASSUME Inv, NEW r \in Requests, NEW q, Sound(q), q.todo = {}, Call(r, q)
    PROVE  Inv'
<1>1. used' \in Used
  <2>1. MaxCalls \in Nat /\ used.calls < MaxCalls
    BY ConstantsAssumption DEF Call
  <2>2. used \in Used /\ used' = [used EXCEPT !.calls = @ + 1]
    BY UsedType DEF Call
  <2> QED
    BY <2>1, <2>2 DEF Used
<1>2. q.todo \subseteq DOMAIN allocs
  OBVIOUS
<1> QED
  BY <1>1, <1>2, LocalStepKeepsInv DEF Call, Start, db

\* A request that has only loaded entities of orders is sound.
Fresh(q, pc, o) ==
    q.pc = pc /\ q.order = o /\ q.ent = Idle.ent /\ q.wb = Idle.wb /\ q.todo = Idle.todo

\* A request that has only loaded an order is sound.
LEMMA FreshSound ==
    ASSUME NEW pc \in {"idle", "has", "find", "selectOrder"}, NEW o,
           o \in Orders \/ pc \in {"idle", "find"},
           NEW q \in Request, Fresh(q, pc, o)
    PROVE  Sound(q) /\ q.todo = {}
  BY IdleSound DEF Fresh, Sound, HasOrder, HasNeed, HasBatch, MovesUnits, InSave, WritesNoDebt

\* Loading one order gives a well-typed table of entities.
LEMMA LoadedType ==
    ASSUME NEW o \in Orders, NEW row \in OrderRow
    PROVE  Loaded(o, row) \in [Orders -> OrderRow]
  BY DEF Loaded, NoRow, OrderRow, OrderStatus, PaymentStatus

\* create begins with an item that needs at least one unit.
LEMMA BeginCreateKeepsInv ==
    ASSUME Inv, NEW r \in Requests, NEW o \in Orders, BeginCreate(r, o)
    PROVE  Inv'
<1> DEFINE q == [Idle EXCEPT !.op = "create", !.tx = TRUE, !.order = o,
                             !.rows = Loaded(o, NewOrder)]
<1>1. Loaded(o, NewOrder) \in [Orders -> OrderRow]
  BY LoadedType DEF NewOrder, OrderRow, OrderStatus, PaymentStatus
<1>2. q \in Request /\ Fresh(q, "idle", o)
  BY <1>1, IdleType DEF Request, Ops, Fresh
<1> HIDE DEF q
<1>3. Sound(q) /\ q.todo = {} /\ q.order \in Orders
  BY <1>2, FreshSound DEF Fresh
<1> USE DEF q
<1>4. Call(r, FirstItem(q))
  BY DEF BeginCreate
<1> HIDE DEF q
<1>5. Sound(FirstItem(q)) /\ FirstItem(q).todo = {}
  BY <1>3, FirstItemSound
<1> QED
  BY <1>4, <1>5, CallKeepsInv

\* submitPayment begins with the entity it will save.
LEMMA BeginSubmitKeepsInv ==
    ASSUME Inv, NEW r \in Requests, NEW o \in Orders, BeginSubmit(r, o)
    PROVE  Inv'
<1> DEFINE row == [order[o] EXCEPT !.pay = IF @ = "NONE" THEN "SUBMITTED" ELSE @]
           q == [Idle EXCEPT !.op = "submit", !.pc = "selectOrder", !.order = o,
                             !.rows = Loaded(o, row)]
<1>1. row \in OrderRow
  BY DEF Inv, TypeOK, OrderRow, PaymentStatus
<1>2. Loaded(o, row) \in [Orders -> OrderRow]
  BY <1>1, LoadedType
<1> HIDE DEF row
<1>3. q \in Request /\ Fresh(q, "selectOrder", o)
  BY <1>2, IdleType DEF Request, Ops, Pcs, Fresh
<1> HIDE DEF q
<1>4. Sound(q) /\ q.todo = {}
  BY <1>3, FreshSound
<1> USE DEF q, row
<1>5. Call(r, q)
  BY DEF BeginSubmit
<1> QED
  BY <1>4, <1>5, CallKeepsInv

\* confirmPayment begins by asking for allocations, inside its transaction.
LEMMA BeginConfirmKeepsInv ==
    ASSUME Inv, NEW r \in Requests, NEW o \in Orders, BeginConfirm(r, o)
    PROVE  Inv'
<1> DEFINE row == [status    |-> IF order[o].status = "PENDING" THEN "PAID"
                                 ELSE order[o].status,
                   pay       |-> "CONFIRMED",
                   confirmed |-> TRUE]
           q == [Idle EXCEPT !.op = "confirm", !.pc = "has", !.tx = TRUE, !.order = o,
                             !.rows = Loaded(o, row)]
<1>1. row \in OrderRow
  BY DEF Inv, TypeOK, OrderRow, PaymentStatus, OrderStatus
<1>2. Loaded(o, row) \in [Orders -> OrderRow]
  BY <1>1, LoadedType
<1> HIDE DEF row
<1>3. Sound(q) /\ q.todo = {}
  <2>1. q \in Request /\ Fresh(q, "has", o)
    BY <1>2, IdleType DEF Request, Ops, Pcs, Fresh
  <2> HIDE DEF q
  <2> QED
    BY <2>1, FreshSound
<1> USE DEF row
<1>4. Call(r, q)
  BY DEF BeginConfirm
<1> QED
  BY <1>3, <1>4, CallKeepsInv

\* updateStatus begins at one of three statements, each with its order loaded.
LEMMA BeginUpdateKeepsInv ==
    ASSUME Inv, NEW r \in Requests, NEW o \in Orders, NEW to \in Targets,
           BeginUpdate(r, o, to)
    PROVE  Inv'
<1> DEFINE row == [order[o] EXCEPT !.status = to]
           loads(pc) == [Idle EXCEPT !.op = "update", !.pc = pc, !.order = o,
                                     !.rows = Loaded(o, row)]
<1>1. row \in OrderRow
  <2>1. to \in OrderStatus
    BY ConstantsAssumption
  <2> QED
    BY <2>1 DEF Inv, TypeOK, OrderRow
<1>2. Loaded(o, row) \in [Orders -> OrderRow]
  BY <1>1, LoadedType
<1>3. ASSUME NEW pc \in {"find", "has", "selectOrder"}
      PROVE  Sound(loads(pc)) /\ loads(pc).todo = {}
  <2> HIDE DEF row
  <2>1. loads(pc) \in Request /\ Fresh(loads(pc), pc, o)
    BY <1>2, IdleType DEF Request, Ops, Pcs, Fresh
  <2> HIDE DEF loads
  <2> QED
    BY <2>1, FreshSound
<1>4. \E pc \in {"find", "has", "selectOrder"} : Call(r, loads(pc))
  BY DEF BeginUpdate
<1> HIDE DEF loads
<1> QED
  BY <1>3, <1>4, CallKeepsInv

\* A cron job begins with the orders of its query, or ends at once.
LEMMA TickKeepsInv ==
    ASSUME Inv, NEW r \in Requests, NEW op \in Ops, NEW rows \in [Orders -> OrderRow],
           Tick(r, [Idle EXCEPT !.op = op, !.pc = "find", !.rows = rows])
    PROVE  Inv'
<1> DEFINE q == [Idle EXCEPT !.op = op, !.pc = "find", !.rows = rows]
<1>1. q \in Request /\ Fresh(q, "find", Idle.order)
  BY IdleType DEF Request, Pcs, Fresh
<1> HIDE DEF q
<1>2. Sound(q) /\ q.todo = {}
  BY <1>1, FreshSound
<1>3. used' \in Used
  <2>1. MaxOverlaps \in Nat /\ used \in Used
    BY ConstantsAssumption, UsedType
  <2>2. used' = used
        \/ (used.overlaps < MaxOverlaps /\ used' = [used EXCEPT !.overlaps = @ + 1])
    BY DEF Tick
  <2> QED
    BY <2>1, <2>2 DEF Used
<1>4. Start(r, IF LoadedOrders(q) = {} THEN Idle ELSE q)
  BY DEF Tick, q
<1>5. Start(r, Idle) \/ Start(r, q)
  BY <1>4
<1>6. ASSUME NEW x, Sound(x), x.todo = {}, Start(r, x)
      PROVE  Inv'
  <2>1. x.todo \subseteq DOMAIN allocs
    BY <1>6
  <2> QED
    BY <1>3, <1>6, <2>1, LocalStepKeepsInv DEF Start, db
<1> QED
  BY <1>2, <1>5, <1>6, IdleSound

\* Whatever begins, handler or cron job, keeps the invariant.
LEMMA BeginKeepsInv ==
    ASSUME Inv, NEW r \in Requests, Begin(r)
    PROVE  Inv'
<1>1. CASE BeginAutoCancel(r)
  <2> DEFINE rows == [o \in Orders |->
                        IF Unpaid(o) /\ age[o] = 2 THEN [order[o] EXCEPT !.status = "CANCELLED"]
                        ELSE NoRow]
  <2>1. rows \in [Orders -> OrderRow]
    BY DEF Inv, TypeOK, OrderRow, NoRow, OrderStatus, PaymentStatus
  <2> QED
    BY <1>1, <2>1, TickKeepsInv DEF BeginAutoCancel, Ops
<1>2. CASE BeginRelease(r)
  <2> DEFINE rows == [o \in Orders |->
                        IF Unpaid(o) /\ age[o] >= 1 THEN order[o] ELSE NoRow]
  <2>1. rows \in [Orders -> OrderRow]
    BY DEF Inv, TypeOK, OrderRow, NoRow, OrderStatus, PaymentStatus
  <2> QED
    BY <1>2, <2>1, TickKeepsInv DEF BeginRelease, Ops
<1> QED
  BY <1>1, <1>2, BeginCreateKeepsInv, BeginSubmitKeepsInv, BeginConfirmKeepsInv,
     BeginUpdateKeepsInv
  DEF Begin

-----------------------------------------------------------------------------
(* Statements of a running request *)

\* What the invariant says of one request.
LEMMA ReqSound ==
    ASSUME Inv, NEW r \in Requests
    PROVE  Sound(req[r]) /\ req[r].todo \subseteq DOMAIN allocs
  BY DEF Inv

\* A step that changes nothing but the request, to a sound state.
LEMMA MoveKeepsInv ==
    ASSUME Inv, NEW r \in Requests, NEW q, Sound(q), q.todo \subseteq DOMAIN allocs,
           Goto(r, q), UNCHANGED <<batch, ledger, allocs, order, age, expired, used>>
    PROVE  Inv'
  BY UsedType, LocalStepKeepsInv DEF Goto, db

\* consumeOrderStock goes on to the first item or skips the consumption.
LEMMA CheckAllocationsKeepsInv ==
    ASSUME Inv, NEW r \in Requests, CheckAllocations(r)
    PROVE  Inv'
<1> DEFINE q == [req[r] EXCEPT !.pc = "selectOrder"]
<1>1. Sound(req[r]) /\ req[r].todo \subseteq DOMAIN allocs /\ req[r].order \in Orders
  BY ReqSound DEF CheckAllocations, Sound, HasOrder
<1>2. Sound(q) /\ q.todo = req[r].todo
  BY <1>1 DEF Sound, HasOrder, HasNeed, HasBatch, MovesUnits, InSave, WritesNoDebt, Request, Pcs
<1>3. Sound(FirstItem(req[r])) /\ FirstItem(req[r]).todo = req[r].todo
  BY <1>1, FirstItemSound
<1>4. Goto(r, q) \/ Goto(r, FirstItem(req[r]))
  BY DEF CheckAllocations
<1>5. UNCHANGED <<batch, ledger, allocs, order, age, expired, used>>
  BY DEF CheckAllocations
<1> HIDE DEF q
<1> QED
  BY <1>1, <1>2, <1>3, <1>4, <1>5, MoveKeepsInv

\* Writing a sound row, in the table or in the transaction.
LEMMA OverlaySound ==
    ASSUME NEW q, Sound(q), NEW b \in Batches, NEW row \in BatchRow, row.avail >= 0
    PROVE  /\ Sound(OverlayBatch(q, b, row)) /\ OverlayBatch(q, b, row).todo = q.todo
<1> DEFINE w == [q.wb EXCEPT ![b] = row]
           x == [q EXCEPT !.wb = w]
<1>1. w \in [Batches -> BatchRow] /\ \A c \in Batches : w[c].avail >= 0
  BY DEF Sound, WritesNoDebt, Request
<1>2. OverlayBatch(q, b, row) = IF q.tx THEN x ELSE q
  BY DEF OverlayBatch
<1> HIDE DEF w
<1>3. x \in Request
  BY <1>1 DEF Sound, Request
<1>4. x.pc = q.pc /\ x.order = q.order /\ x.need = q.need /\ x.ent = q.ent /\ x.wb = w
      /\ x.todo = q.todo
  BY DEF Sound, Request
<1> HIDE DEF x
<1>5. Sound(x)
  BY <1>1, <1>3, <1>4
  DEF Sound, HasOrder, HasNeed, HasBatch, MovesUnits, InSave, WritesNoDebt
<1> QED
  BY <1>2, <1>4, <1>5

\* A batch row without debt keeps the invariant, committed or in a transaction.
LEMMA WriteKeepsInv ==
    ASSUME Inv, NEW r \in Requests, NEW b \in Batches,
           NEW row \in BatchRow, row.avail >= 0, WriteBatch(r, b, row),
           NEW q, Sound(q), q.todo \subseteq DOMAIN allocs,
           Goto(r, OverlayBatch(q, b, row)) \/ Goto(r, q),
           UNCHANGED <<ledger, allocs, order, age, expired, used>>
    PROVE  Inv'
<1>1. batch \in [Batches -> BatchRow] /\ \A c \in Batches : batch[c].avail >= 0
  BY DEF Inv, TypeOK, NonNegative
<1>2. batch' \in [Batches -> BatchRow] /\ \A c \in Batches : batch'[c].avail >= 0
  BY <1>1 DEF WriteBatch
<1>3. /\ ledger' \in [Products -> Int] /\ order' \in [Orders -> OrderRow]
      /\ allocs' \in Seq(AllocationRow) /\ Len(allocs) <= Len(allocs')
      /\ used' \in Used
  BY UsedType DEF Inv, TypeOK
<1>4. Sound(OverlayBatch(q, b, row)) /\ OverlayBatch(q, b, row).todo = q.todo
  BY OverlaySound
<1> QED
  BY <1>2, <1>3, <1>4, StepKeepsInv DEF Goto

\* The LEGACY batch is created with what the movements add up to, more than zero.
LEMMA CreateLegacyKeepsInv ==
    ASSUME Inv, NEW r \in Requests, CreateLegacy(r)
    PROVE  Inv'
<1>1. CASE Throw(r)
  BY <1>1, ThrowKeepsInv, UsedType DEF CreateLegacy
<1>2. CASE ~Throw(r)
  <2> DEFINE p == Product(req[r])
  <2>1. PICK b \in BatchesOf(p) :
          LET row == [avail |-> SeesLedger(r, p), status |-> "ACTIVE"]
          IN  WriteBatch(r, b, row) /\ Goto(r, OverlayBatch(req[r], b, row))
    BY <1>2 DEF CreateLegacy
  <2> DEFINE row == [avail |-> SeesLedger(r, p), status |-> "ACTIVE"]
  <2>2. b \in Batches /\ p \in Products
    BY <2>1, ConstantsAssumption DEF BatchesOf
  <2>3. SeesLedger(r, p) \in Int /\ SeesLedger(r, p) > 0
    <3>1. SeesLedger(r, p) > 0
      BY DEF CreateLegacy, NeedsLegacy
    <3> QED
      BY <2>2, <3>1, ReqSound DEF SeesLedger, Inv, TypeOK, Sound, Request
  <2>4. row \in BatchRow /\ row.avail >= 0
    BY <2>3 DEF BatchRow
  <2>5. WriteBatch(r, b, row) /\ Goto(r, OverlayBatch(req[r], b, row))
    BY <2>1
  <2> HIDE DEF row
  <2>6. /\ UNCHANGED <<ledger, allocs, order, age, expired, used>>
    BY <1>2 DEF CreateLegacy
  <2> QED
    BY <2>2, <2>4, <2>5, <2>6, ReqSound, WriteKeepsInv
<1> QED
  BY <1>1, <1>2

\* consumeStock keeps what it read of each candidate, or throws.
LEMMA ReadCandidatesKeepsInv ==
    ASSUME Inv, NEW r \in Requests, ReadCandidates(r)
    PROVE  Inv'
<1>1. CASE Throw(r)
  BY <1>1, ThrowKeepsInv, UsedType DEF ReadCandidates
<1>2. CASE ~Throw(r)
  <2> DEFINE plan == [b \in Batches |-> IF b \in Usable(r) THEN Sees(r)[b].avail ELSE 0]
             q == [req[r] EXCEPT !.pc = "take", !.plan = plan]
  <2>1. plan \in [Batches -> Nat]
    BY SeesSound DEF BatchRow
  <2>2. Goto(r, q) /\ UNCHANGED <<batch, ledger, allocs, order, age, expired, used>>
        /\ req[r].pc = "read"
    BY <1>2 DEF ReadCandidates, db
  <2> HIDE DEF plan
  <2>3. q \in Request
    <3>1. req[r] \in Request
      BY ReqSound DEF Sound
    <3> QED
      BY <2>1, <3>1 DEF Request, Pcs
  <2>4. q.pc = "take" /\ q.order = req[r].order /\ q.need = req[r].need
        /\ q.ent = req[r].ent /\ q.wb = req[r].wb /\ q.todo = req[r].todo
    BY ReqSound DEF Sound, Request
  <2> HIDE DEF q
  <2>5. Sound(q)
    BY <2>2, <2>3, <2>4, ReqSound
    DEF Sound, HasOrder, HasNeed, HasBatch, MovesUnits, InSave, WritesNoDebt
  <2> QED
    BY <2>2, <2>4, <2>5, ReqSound, MoveKeepsInv
<1> QED
  BY <1>1, <1>2

\* A candidate never gives more units than were read, nor more than are needed.
LEMMA TakeOldestKeepsInv ==
    ASSUME Inv, NEW r \in Requests, TakeOldest(r)
    PROVE  Inv'
<1> DEFINE old == req[r]
           consumed(b) == Consumed(old.plan[b], old.need)
           ent(b) == [batch |-> b, avail |-> old.plan[b] - consumed(b), qty |-> consumed(b),
                      alloc |-> 0, status |-> StatusFor(old.plan[b] - consumed(b))]
           next(b) == [old EXCEPT !.pc = "update", !.ent = ent(b),
                                  !.need = @ - consumed(b), !.plan[b] = 0,
                                  !.cols = Differs(ent(b), Sees(r)[b])]
<1>1. PICK b \in Candidates(old) : Goto(r, next(b))
  BY DEF TakeOldest
<1> DEFINE c == consumed(b)
           e == ent(b)
           q == next(b)
<1>2. /\ b \in Batches /\ old.plan[b] \in Nat /\ old.plan[b] > 0
      /\ old.need \in Nat /\ old.need > 0
  BY <1>1, ReqSound DEF TakeOldest, Candidates, Sound, HasNeed, Request
<1>3. c \in Nat /\ c > 0 /\ c <= old.need /\ c <= old.plan[b]
  BY <1>2 DEF Consumed
<1> HIDE DEF consumed
<1>4. /\ e \in [batch : Batches \cup {0}, avail : Int, status : {"ACTIVE", "DEPLETED"},
                qty : Nat, alloc : Nat]
      /\ e.batch \in Batches /\ e.qty > 0 /\ e.avail >= 0
  BY <1>2, <1>3 DEF StatusFor
<1>5. Differs(e, Sees(r)[b]) \subseteq Columns /\ old.need - c \in Nat
      /\ [old.plan EXCEPT ![b] = 0] \in [Batches -> Nat]
  BY <1>2, <1>3, ReqSound DEF Differs, Columns, Sound, Request
<1> DEFINE n == old.need - c
           p == [old.plan EXCEPT ![b] = 0]
           d == Differs(e, Sees(r)[b])
<1>6. q = [old EXCEPT !.pc = "update", !.ent = e, !.need = n, !.plan = p, !.cols = d]
  BY ReqSound DEF Sound, Request
<1> HIDE DEF e, n, p, d, q
<1>7. q \in Request
  <2>1. old \in Request
    BY ReqSound DEF Sound
  <2>2. n \in Nat /\ p \in [Batches -> Nat] /\ d \in SUBSET Columns
    BY <1>5 DEF n, p, d
  <2> HIDE DEF old
  <2>3. [old EXCEPT !.pc = "update", !.ent = e] \in Request
    BY <1>4, <2>1 DEF Request, Pcs
  <2>4. [old EXCEPT !.pc = "update", !.ent = e, !.need = n, !.plan = p] \in Request
    BY <2>2, <2>3 DEF Request
  <2> QED
    BY <1>6, <2>2, <2>4 DEF Request
<1>8. q.pc = "update" /\ q.order = old.order /\ q.ent = e /\ q.wb = old.wb
      /\ q.todo = old.todo
  BY <1>6, ReqSound DEF Sound, Request
<1>9. Sound(q)
  <2>1. old.order \in Orders
    BY ReqSound DEF TakeOldest, Sound, HasOrder
  <2> QED
    BY <1>4, <1>7, <1>8, <2>1, ReqSound
    DEF Sound, HasOrder, HasNeed, HasBatch, MovesUnits, InSave, WritesNoDebt
<1>10. Goto(r, q) /\ UNCHANGED <<batch, ledger, allocs, order, age, expired, used>>
  BY <1>1 DEF TakeOldest, q
<1> QED
  BY <1>8, <1>9, <1>10, ReqSound, MoveKeepsInv

\* A request that takes up an order and its allocations keeps its type.
LEMMA TakesUpOrder ==
    ASSUME NEW old \in Request, NEW o \in Orders, NEW t \in SUBSET Nat
    PROVE  [old EXCEPT !.order = o, !.todo = t] \in Request
  BY DEF Request

\* The allocations found are rows of the table.
LEMMA FindAllocationsKeepsInv ==
    ASSUME Inv, NEW r \in Requests, FindAllocations(r)
    PROVE  Inv'
<1>1. PICK o \in LoadedOrders(req[r]) :
        Goto(r, AfterRestore([req[r] EXCEPT !.order = o, !.todo = ActiveAllocs(o)]))
  BY DEF FindAllocations
<1> DEFINE q == [req[r] EXCEPT !.order = o, !.todo = ActiveAllocs(o)]
<1>2. o \in Orders
  BY <1>1 DEF LoadedOrders
<1>3. ActiveAllocs(o) \in SUBSET Nat /\ ActiveAllocs(o) \subseteq DOMAIN allocs
  BY DEF ActiveAllocs, Inv, TypeOK
<1>4. q \in Request
  <2>1. req[r] \in Request
    BY ReqSound DEF Sound
  <2> QED
    BY <2>1, <1>2, <1>3, TakesUpOrder
<1>5. q.pc = "find" /\ q.order = o /\ q.ent = req[r].ent /\ q.wb = req[r].wb
      /\ q.todo = ActiveAllocs(o)
  BY ReqSound DEF FindAllocations, Sound, Request
<1>6. Goto(r, AfterRestore(q))
      /\ UNCHANGED <<batch, ledger, allocs, order, age, expired, used>>
  BY <1>1 DEF FindAllocations
<1> HIDE DEF q
<1>7. Sound(q)
  BY <1>4, <1>5, ReqSound
  DEF Sound, HasOrder, HasNeed, HasBatch, MovesUnits, InSave, WritesNoDebt
<1>8. Sound(AfterRestore(q)) /\ AfterRestore(q).todo \subseteq DOMAIN allocs
  BY <1>2, <1>3, <1>5, <1>7, AfterRestoreSound
<1> QED
  BY <1>6, <1>8, MoveKeepsInv

\* The batch read gets units back, so it stays without debt.
LEMMA ReadBatchKeepsInv ==
    ASSUME Inv, NEW r \in Requests, ReadBatch(r)
    PROVE  Inv'
<1> DEFINE old == req[r]
           ent(k) == [batch |-> allocs[k].batch, status |-> "ACTIVE",
                      avail |-> Sees(r)[allocs[k].batch].avail + allocs[k].qty,
                      qty |-> allocs[k].qty, alloc |-> k]
           next(k) == [old EXCEPT !.pc = "select", !.todo = @ \ {k}, !.ent = ent(k)]
<1>1. PICK k \in old.todo : Goto(r, next(k))
  BY DEF ReadBatch
<1> DEFINE e == ent(k)
           t == old.todo \ {k}
           q == [old EXCEPT !.pc = "select", !.todo = t, !.ent = e]
<1>2. old \in Request /\ old.order \in Orders /\ old.todo \subseteq DOMAIN allocs
      /\ \A b \in Batches : old.wb[b].avail >= 0
  BY ReqSound DEF ReadBatch, Sound, HasOrder, WritesNoDebt
<1>3. k \in Nat /\ allocs[k] \in AllocationRow
  BY <1>1, <1>2 DEF Inv, TypeOK
<1>4. allocs[k].batch \in Batches /\ allocs[k].qty \in Nat /\ allocs[k].qty > 0
  BY <1>3 DEF AllocationRow
<1>5. Sees(r)[allocs[k].batch].avail \in Int /\ Sees(r)[allocs[k].batch].avail >= 0
  BY <1>4, SeesSound DEF BatchRow
<1>6. /\ e \in [batch : Batches \cup {0}, avail : Int, status : {"ACTIVE", "DEPLETED"},
                qty : Nat, alloc : Nat]
      /\ e.batch \in Batches /\ e.avail >= 0 /\ e.qty > 0
  BY <1>3, <1>4, <1>5
<1>7. t \in SUBSET Nat /\ t \subseteq DOMAIN allocs
  BY <1>2 DEF Request
<1>8. Goto(r, q) /\ UNCHANGED <<batch, ledger, allocs, order, age, expired, used>>
  BY <1>1, <1>2 DEF ReadBatch, Request
<1> HIDE DEF old, e, t
<1>9. q \in Request
  BY <1>2, <1>6, <1>7 DEF Request, Pcs
<1>10. q.pc = "select" /\ q.order = old.order /\ q.ent = e /\ q.wb = old.wb /\ q.todo = t
  BY <1>2 DEF Request
<1> HIDE DEF q
<1>11. Sound(q)
  BY <1>2, <1>6, <1>9, <1>10
  DEF Sound, HasOrder, HasNeed, HasBatch, MovesUnits, InSave, WritesNoDebt
<1> QED
  BY <1>7, <1>8, <1>10, <1>11, MoveKeepsInv

\* The SELECT of a save changes nothing but the columns to write.
LEMMA SelectBatchKeepsInv ==
    ASSUME Inv, NEW r \in Requests, SelectBatch(r)
    PROVE  Inv'
<1> DEFINE d == Differs(req[r].ent, Sees(r)[req[r].ent.batch])
           q == [req[r] EXCEPT !.pc = "update", !.cols = d]
<1>1. req[r] \in Request /\ req[r].pc = "select"
  BY ReqSound DEF SelectBatch, Sound
<1>2. d \subseteq Columns
  BY DEF Differs, Columns
<1>3. Goto(r, q) /\ UNCHANGED <<batch, ledger, allocs, order, age, expired, used>>
  BY DEF SelectBatch
<1> HIDE DEF d
<1>4. q \in Request
  BY <1>1, <1>2 DEF Request, Pcs
<1>5. q.pc = "update" /\ q.order = req[r].order /\ q.ent = req[r].ent
      /\ q.wb = req[r].wb /\ q.todo = req[r].todo
  BY <1>1 DEF Request
<1> HIDE DEF q
<1>6. Sound(q)
  BY <1>1, <1>4, <1>5, ReqSound
  DEF Sound, HasOrder, HasNeed, HasBatch, MovesUnits, InSave, WritesNoDebt
<1> QED
  BY <1>3, <1>5, <1>6, ReqSound, MoveKeepsInv

\* The row an UPDATE leaves takes each column from a row or an entity without debt.
LEMMA UpdateBatchKeepsInv ==
    ASSUME Inv, NEW r \in Requests, UpdateBatch(r)
    PROVE  Inv'
<1> DEFINE old == req[r]
           b == old.ent.batch
           row == Merged(old.ent, Sees(r)[b], old.cols)
           next == [old EXCEPT !.pc = IF old.ent.alloc = 0 THEN "alloc" ELSE "mark",
                               !.cols = {}]
<1>1. Sound(old) /\ old \in Request /\ old.pc = "update" /\ b \in Batches
  BY ReqSound DEF UpdateBatch, Sound, HasBatch, InSave
<1>2. row \in BatchRow /\ row.avail >= 0
  <2>1. Sees(r)[b] \in BatchRow /\ Sees(r)[b].avail >= 0
    BY <1>1, SeesSound
  <2>2. old.ent.avail \in Int /\ old.ent.avail >= 0
        /\ old.ent.status \in {"ACTIVE", "DEPLETED"}
    BY <1>1 DEF Sound, WritesNoDebt, Request
  <2> QED
    BY <2>1, <2>2 DEF Merged, BatchRow
<1>3. WriteBatch(r, b, row) /\ (Goto(r, next) \/ Goto(r, OverlayBatch(next, b, row)))
      /\ UNCHANGED <<ledger, allocs, order, age, expired, used>>
  BY DEF UpdateBatch
<1> HIDE DEF row
<1>4. next \in Request
  BY <1>1 DEF Request, Pcs
<1>5. /\ next.pc = IF old.ent.alloc = 0 THEN "alloc" ELSE "mark"
      /\ next.order = old.order /\ next.ent = old.ent /\ next.wb = old.wb
      /\ next.todo = old.todo
  BY <1>1 DEF Request
<1> HIDE DEF next
<1>6. Sound(next)
  BY <1>1, <1>4, <1>5
  DEF Sound, HasOrder, HasNeed, HasBatch, MovesUnits, InSave, WritesNoDebt
<1> QED
  BY <1>1, <1>2, <1>3, <1>5, <1>6, ReqSound, WriteKeepsInv

\* Both ways an allocation's save can go on: the movement, or the request's end.
LEMMA PostKeepsInv ==
    ASSUME Inv, NEW r \in Requests, NEW done, Sound(done), done.todo \subseteq DOMAIN allocs,
           ~InSave(done), req[r].pc \in {"alloc", "mark"}, Post(r, done),
           allocs' \in Seq(AllocationRow), Len(allocs) <= Len(allocs'),
           UNCHANGED <<batch, order, age, expired>>
    PROVE  Inv'
<1> DEFINE q == req[r]
           p == ProductOf[q.ent.batch]
           delta == IF q.ent.alloc = 0 THEN -q.ent.qty ELSE q.ent.qty
           next == [done EXCEPT !.ent = NoEntity,
                                !.wl[p] = IF q.tx THEN @ + delta ELSE @]
<1>1. q \in Request /\ q.ent.batch \in Batches
  BY ReqSound DEF Sound, HasBatch, InSave
<1>2. p \in Products /\ delta \in Int
  BY <1>1, ConstantsAssumption DEF Request
<1>3. /\ batch' \in [Batches -> BatchRow] /\ \A b \in Batches : batch'[b].avail >= 0
      /\ order' \in [Orders -> OrderRow]
  BY DEF Inv, TypeOK, NonNegative
<1>4. CASE /\ ledger' = [ledger EXCEPT ![p] = IF q.tx THEN @ ELSE @ + delta]
           /\ Goto(r, next) /\ UNCHANGED used
  <2> DEFINE x == IF q.tx THEN done.wl[p] + delta ELSE done.wl[p]
             w == [done.wl EXCEPT ![p] = x]
             y == [done EXCEPT !.ent = NoEntity, !.wl = w]
  <2>1. done \in Request
    BY DEF Sound
  <2>2. w \in [Products -> Int]
    BY <1>2, <2>1 DEF Request
  <2>3. next = y
    BY <2>1 DEF Request
  <2>4. ledger' \in [Products -> Int]
    <3> DEFINE sum == IF q.tx THEN ledger[p] ELSE ledger[p] + delta
    <3>1. ledger \in [Products -> Int]
      BY DEF Inv, TypeOK
    <3>2. ledger' = [ledger EXCEPT ![p] = sum]
      BY <1>4
    <3> HIDE DEF p, delta
    <3>3. sum \in Int
      BY <1>2, <3>1
    <3> HIDE DEF sum
    <3> QED
      BY <3>1, <3>2, <3>3
  <2>5. Goto(r, y) /\ used' \in Used
    BY <1>4, <2>3, UsedType
  <2> HIDE DEF w, next
  <2>6. y \in Request
    <3>1. NoEntity \in [batch : Batches \cup {0}, avail : Int,
                        status : {"ACTIVE", "DEPLETED"}, qty : Nat, alloc : Nat]
      BY DEF NoEntity
    <3>2. [done EXCEPT !.ent = NoEntity] \in Request
      BY <2>1, <3>1 DEF Request
    <3> QED
      BY <2>2, <3>2 DEF Request
  <2>7. y.pc = done.pc /\ y.order = done.order /\ y.need = done.need /\ y.wb = done.wb
        /\ y.todo = done.todo /\ y.ent = NoEntity
    BY <2>1 DEF Request
  <2> HIDE DEF y
  <2>8. Sound(y)
    BY <2>6, <2>7
    DEF Sound, HasOrder, HasNeed, HasBatch, MovesUnits, InSave, WritesNoDebt, NoEntity
  <2> QED
    BY <1>3, <2>4, <2>5, <2>7, <2>8, StepKeepsInv DEF Goto
<1>5. CASE /\ used.faults < MaxFaults /\ used' = [used EXCEPT !.faults = @ + 1]
           /\ Goto(r, Idle) /\ UNCHANGED ledger
  <2>1. MaxFaults \in Nat /\ used \in Used
    BY ConstantsAssumption, UsedType
  <2>2. used' \in Used
    BY <1>5, <2>1 DEF Used
  <2>3. ledger' \in [Products -> Int]
    BY <1>5 DEF Inv, TypeOK
  <2>4. Sound(Idle) /\ Idle.todo \subseteq DOMAIN allocs
    BY IdleSound
  <2> QED
    BY <1>3, <1>5, <2>2, <2>3, <2>4, StepKeepsInv DEF Goto
<1> QED
  BY <1>4, <1>5 DEF Post

\* The allocation inserted has the type of its table, committed or not.
LEMMA InsertAllocationKeepsInv ==
    ASSUME Inv, NEW r \in Requests, InsertAllocation(r)
    PROVE  Inv'
<1> DEFINE q == req[r]
           row == [order |-> q.order, line |-> q.line, batch |-> q.ent.batch,
                   qty |-> q.ent.qty, restored |-> FALSE]
           w == IF q.tx THEN Append(q.wa, row) ELSE q.wa
           x == [q EXCEPT !.wa = w]
<1>1. Sound(q) /\ q \in Request /\ q.pc = "alloc" /\ q.order \in Orders
      /\ q.todo \subseteq DOMAIN allocs
  BY ReqSound DEF InsertAllocation, Sound, HasOrder
<1>2. q.ent.batch \in Batches /\ q.ent.qty \in Nat /\ q.ent.qty > 0 /\ q.line \in Nat
  BY <1>1 DEF Sound, HasBatch, MovesUnits, InSave, Request
<1>3. row \in AllocationRow
  BY <1>1, <1>2 DEF AllocationRow
<1>4. allocs \in Seq(AllocationRow) /\ q.wa \in Seq(AllocationRow)
  BY <1>1 DEF Inv, TypeOK, Request
<1>5. /\ allocs' = IF q.tx THEN allocs ELSE Append(allocs, row)
      /\ Post(r, AfterConsume([q EXCEPT !.wa = IF q.tx THEN Append(@, row) ELSE @]))
      /\ UNCHANGED <<batch, order, age, expired>>
  BY DEF InsertAllocation
<1> HIDE DEF row
<1>6. allocs' \in Seq(AllocationRow) /\ Len(allocs) <= Len(allocs')
  BY <1>3, <1>4, <1>5
<1>7. w \in Seq(AllocationRow)
  BY <1>3, <1>4
<1>8. Post(r, AfterConsume(x))
  BY <1>1, <1>5 DEF Request
<1> HIDE DEF w
<1>9. x \in Request
  BY <1>1, <1>7 DEF Request
<1>10. x.pc = q.pc /\ x.order = q.order /\ x.need = q.need /\ x.ent = q.ent
       /\ x.wb = q.wb /\ x.todo = q.todo
  BY <1>1 DEF Request
<1> HIDE DEF x
<1>11. Sound(x)
  BY <1>1, <1>9, <1>10
  DEF Sound, HasOrder, HasNeed, HasBatch, MovesUnits, InSave, WritesNoDebt
<1>12. /\ Sound(AfterConsume(x)) /\ AfterConsume(x).todo \subseteq DOMAIN allocs
       /\ ~InSave(AfterConsume(x))
  BY <1>1, <1>10, <1>11, AfterConsumeSound
<1> QED
  BY <1>1, <1>5, <1>6, <1>8, <1>12, PostKeepsInv

\* Marking an allocation keeps its type and every index into the table.
LEMMA MarkRestoredKeepsInv ==
    ASSUME Inv, NEW r \in Requests, MarkRestored(r)
    PROVE  Inv'
<1> DEFINE k == req[r].ent.alloc
<1>1. Sound(req[r]) /\ req[r].todo \subseteq DOMAIN allocs /\ req[r].order \in Orders
  BY ReqSound DEF MarkRestored, Sound, HasOrder
<1>2. /\ Sound(AfterRestore(req[r])) /\ AfterRestore(req[r]).todo \subseteq DOMAIN allocs
      /\ ~InSave(AfterRestore(req[r]))
  BY <1>1, AfterRestoreSound
<1>3. allocs \in Seq(AllocationRow)
  BY DEF Inv, TypeOK
<1>4. allocs' = [allocs EXCEPT ![k] = [@ EXCEPT !.restored = TRUE]]
  BY DEF MarkRestored
<1>5. allocs' \in Seq(AllocationRow) /\ Len(allocs) <= Len(allocs')
  <2>1. \A i \in DOMAIN allocs : [allocs[i] EXCEPT !.restored = TRUE] \in AllocationRow
    <3>1. \A i \in DOMAIN allocs : allocs[i] \in AllocationRow
      BY <1>3
    <3> QED
      BY <3>1 DEF AllocationRow
  <2>2. Len(allocs) \in Nat /\ DOMAIN allocs = 1..Len(allocs)
    BY <1>3
  <2> HIDE DEF k
  <2>3. \A i \in DOMAIN allocs : allocs[i] \in AllocationRow
    BY <1>3
  <2>4. \A i \in DOMAIN allocs' : allocs'[i] \in AllocationRow
    BY <1>4, <2>1, <2>3
  <2>5. allocs' = [i \in 1..Len(allocs) |-> allocs'[i]]
    BY <1>4, <2>2
  <2>6. allocs' \in [1..Len(allocs) -> AllocationRow]
    BY <2>2, <2>4, <2>5
  <2> QED
    BY <2>2, <2>6
<1> QED
  BY <1>1, <1>2, <1>5, PostKeepsInv DEF MarkRestored

\* What a transaction leaves in the tables when it commits.
LEMMA FlushTypes ==
    ASSUME Inv, NEW r \in Requests, Flush(r)
    PROVE  /\ batch' \in [Batches -> BatchRow] /\ \A b \in Batches : batch'[b].avail >= 0
           /\ ledger' \in [Products -> Int]
           /\ allocs' \in Seq(AllocationRow) /\ Len(allocs) <= Len(allocs')
<1>1. req[r] \in Request
  BY ReqSound DEF Sound
<1>2. batch' \in [Batches -> BatchRow] /\ \A b \in Batches : batch'[b].avail >= 0
  BY SeesSound DEF Flush
<1>3. ledger' \in [Products -> Int]
  BY <1>1 DEF Flush, SeesLedger, Inv, TypeOK, Request
<1>4. allocs \in Seq(AllocationRow) /\ req[r].wa \in Seq(AllocationRow)
  BY <1>1 DEF Inv, TypeOK, Request
<1>5. allocs' \in Seq(AllocationRow) /\ Len(allocs) <= Len(allocs')
  BY <1>4 DEF Flush
<1> QED
  BY <1>2, <1>3, <1>5

\* What create commits is without debt.
LEMMA CommitCreateKeepsInv ==
    ASSUME Inv, NEW r \in Requests, CommitCreate(r)
    PROVE  Inv'
<1>1. req[r] \in Request /\ req[r].order \in Orders
  BY ReqSound DEF CommitCreate, Sound, HasOrder
<1>2. req[r].rows[req[r].order] \in OrderRow
  BY <1>1 DEF Request
<1>3. order' \in [Orders -> OrderRow]
  BY <1>2 DEF CommitCreate, Inv, TypeOK
<1>4. Sound(Idle) /\ Idle.todo \subseteq DOMAIN allocs
  BY IdleSound
<1>5. Flush(r) /\ Goto(r, Idle) /\ UNCHANGED <<age, expired, used>>
  BY DEF CommitCreate
<1> QED
  BY <1>3, <1>4, <1>5, FlushTypes, UsedType, StepKeepsInv DEF Goto

\* The SELECT of the order's save changes nothing but the columns to write.
LEMMA SelectOrderKeepsInv ==
    ASSUME Inv, NEW r \in Requests, SelectOrder(r)
    PROVE  Inv'
<1> DEFINE old == req[r]
<1>1. Sound(old) /\ old \in Request /\ old.pc = "selectOrder"
  BY ReqSound DEF SelectOrder, Sound
<1>2. PICK d \in SUBSET Columns : Goto(r, [old EXCEPT !.pc = "updateOrder", !.cols = d])
  BY DEF SelectOrder, Columns
<1> DEFINE q == [old EXCEPT !.pc = "updateOrder", !.cols = d]
<1>3. q \in Request
  BY <1>1 DEF Request, Pcs
<1>4. q.pc = "updateOrder" /\ q.order = old.order /\ q.ent = old.ent /\ q.wb = old.wb
      /\ q.todo = old.todo
  BY <1>1 DEF Request
<1>5. Goto(r, q) /\ UNCHANGED <<batch, ledger, allocs, order, age, expired, used>>
  BY <1>2 DEF SelectOrder
<1> HIDE DEF q
<1>6. Sound(q)
  BY <1>1, <1>3, <1>4
  DEF Sound, HasOrder, HasNeed, HasBatch, MovesUnits, InSave, WritesNoDebt
<1> QED
  BY <1>4, <1>5, <1>6, ReqSound, MoveKeepsInv

\* The order row takes each column from a row or an entity of its type.
LEMMA UpdateOrderKeepsInv ==
    ASSUME Inv, NEW r \in Requests, UpdateOrder(r)
    PROVE  Inv'
<1> DEFINE q == req[r]
           mine == q.rows[q.order]
           was == order[q.order]
           row == [status    |-> IF "status" \in q.cols THEN mine.status ELSE was.status,
                   pay       |-> IF "pay" \in q.cols THEN mine.pay ELSE was.pay,
                   confirmed |-> IF "confirmed" \in q.cols THEN mine.confirmed
                                 ELSE was.confirmed]
<1>1. Sound(q) /\ q \in Request /\ q.order \in Orders
  BY ReqSound DEF UpdateOrder, Sound, HasOrder
<1>2. mine \in OrderRow /\ was \in OrderRow
  BY <1>1 DEF Request, Inv, TypeOK
<1>3. row \in OrderRow
  BY <1>2 DEF OrderRow
<1>4. order' = [order EXCEPT ![q.order] = row]
  BY <1>1 DEF UpdateOrder, Inv, TypeOK
<1> HIDE DEF row
<1>5. order' \in [Orders -> OrderRow]
  BY <1>3, <1>4 DEF Inv, TypeOK
<1>6. Sound(DoneWithOrder(q)) /\ DoneWithOrder(q).todo \subseteq DOMAIN allocs
  BY <1>1, DoneWithOrderSound
<1>7. Flush(r) /\ Goto(r, DoneWithOrder(q)) /\ UNCHANGED <<age, expired, used>>
  BY DEF UpdateOrder
<1> QED
  BY <1>5, <1>6, <1>7, FlushTypes, UsedType, StepKeepsInv DEF Goto

\* Every statement of a running request keeps the invariant.
LEMMA RunKeepsInv ==
    ASSUME Inv, NEW r \in Requests, Run(r)
    PROVE  Inv'
<1>1. CASE DeadlockVictim(r)
  BY <1>1, ThrowKeepsInv, UsedType DEF DeadlockVictim
<1> QED
  BY <1>1, CheckAllocationsKeepsInv, CreateLegacyKeepsInv, ReadCandidatesKeepsInv,
     TakeOldestKeepsInv, FindAllocationsKeepsInv, ReadBatchKeepsInv, SelectBatchKeepsInv,
     UpdateBatchKeepsInv, InsertAllocationKeepsInv, MarkRestoredKeepsInv,
     CommitCreateKeepsInv, SelectOrderKeepsInv, UpdateOrderKeepsInv
  DEF Run

-----------------------------------------------------------------------------
(* The inductive invariant *)

\* The invariant holds at first.
LEMMA InitInv == Init => Inv
<1> SUFFICES ASSUME Init PROVE Inv
  OBVIOUS
<1>1. batch \in [Batches -> BatchRow] /\ NonNegative
  BY ConstantsAssumption DEF Init, BatchRow, NonNegative
<1>2. ledger \in [Products -> Int] /\ used \in Used
  BY ConstantsAssumption DEF Init, Used
<1>3. /\ allocs \in Seq(AllocationRow) /\ order \in [Orders -> OrderRow]
      /\ age \in [Orders -> 0..2] /\ expired \subseteq Batches
  BY DEF Init, NoRow, OrderRow, OrderStatus, PaymentStatus
<1>4. Idle \in Request /\ Sound(Idle) /\ Idle.todo \subseteq DOMAIN allocs
  BY IdleType, IdleSound
<1>5. req \in [Requests -> Request] /\ \A r \in Requests : req[r] = Idle
  BY <1>4 DEF Init
<1> QED
  BY <1>1, <1>2, <1>3, <1>4, <1>5 DEF Inv, TypeOK, Used

\* Every step keeps the invariant.
LEMMA NextKeepsInv == Inv /\ [Next]_vars => Inv'
<1> SUFFICES ASSUME Inv, [Next]_vars PROVE Inv'
  OBVIOUS
<1>1. ASSUME NEW r \in Requests, Die(r)
      PROVE  Inv'
  <2>1. MaxFaults \in Nat /\ used \in Used
    BY ConstantsAssumption, UsedType
  <2>2. used' \in Used
    BY <1>1, <2>1 DEF Die, Used
  <2> QED
    BY <1>1, <2>2, ThrowKeepsInv DEF Die
<1>2. ASSUME NEW o \in Orders, GrowOld(o)
      PROVE  Inv'
  <2>1. age' \in [Orders -> 0..2]
    <3>1. age \in [Orders -> 0..2] /\ age[o] < MaxAge /\ MaxAge \in 0..2
      BY <1>2, ConstantsAssumption DEF GrowOld, Inv, TypeOK
    <3>2. age[o] + 1 \in 0..2
      BY <3>1
    <3> QED
      BY <1>2, <3>1, <3>2 DEF GrowOld
  <2> QED
    BY <1>2, <2>1 DEF GrowOld, Inv, TypeOK, NonNegative
<1>3. ASSUME NEW b \in Batches, Expire(b)
      PROVE  Inv'
  BY <1>3 DEF Expire, Inv, TypeOK, NonNegative
<1>4. CASE UNCHANGED vars
  BY <1>4 DEF vars, Inv, TypeOK, NonNegative
<1> QED
  BY <1>1, <1>2, <1>3, <1>4, BeginKeepsInv, RunKeepsInv DEF Next

\* The rows of every table and the variables of every handler keep their types,
\* whatever requests overlap, die or are chosen as the victim of a deadlock.
THEOREM TypesHold == Spec => []TypeOK
<1>1. Inv => TypeOK
  BY DEF Inv
<1> QED
  BY <1>1, InitInv, NextKeepsInv, PTL DEF Spec

\* No overlap of consumeStock and restoreStockFromAllocations, with or without a
\* transaction, ever commits a batch with less than zero units: save() writes the
\* quantity computed from the units read, so overlaps oversell instead.
THEOREM NeverBelowZero == Spec => []NonNegative
<1>1. Inv => NonNegative
  BY DEF Inv
<1> QED
  BY <1>1, InitInv, NextKeepsInv, PTL DEF Spec

-----------------------------------------------------------------------------
(* Every allocation belongs to an order that exists and to a batch of what it ordered,  *)
(* however requests overlap.  The invariant says which order, item and product each     *)
(* request is moving units for, and that only the transaction of create works for an    *)
(* order that does not exist yet.                                                       *)

\* The statements of consumeStock for an item; those of every other path.
InItem(q) == q.pc \in {"read", "take", "alloc"} \/ (q.pc = "update" /\ q.ent.alloc = 0)
NotOfCreate(q) ==
    \/ q.pc \in {"has", "find", "batch", "select", "mark", "selectOrder", "updateOrder"}
    \/ q.pc = "update" /\ q.ent.alloc # 0

\* An allocation row names an item of the order o and a batch of its product.
ForItem(a, o) ==
    /\ a.order = o
    /\ a.line \in DOMAIN Cart[o]
    /\ ProductOf[a.batch] = Cart[o][a.line].product

LoadsOrder(q) == q.pc \notin {"idle", "find"} => q.rows[q.order].status # "ABSENT"
AtItem(q) == InItem(q) => q.line \in DOMAIN Cart[q.order]
TakesProduct(q) ==
    InItem(q) /\ q.pc # "read" =>
      /\ \A b \in Candidates(q) : ProductOf[b] = Product(q)
      /\ q.pc # "take" => ProductOf[q.ent.batch] = Product(q)
Restores(q) == q.pc \in {"select", "mark"} => q.ent.alloc # 0
CreateIsPrivate(q) == (NotOfCreate(q) => q.op # "create") /\ (q.op = "create" => q.tx)
OwnRows(q) ==
    /\ \A k \in DOMAIN q.wa : ForItem(q.wa[k], q.order)
    /\ q.pc = "find" => q.wa = <<>>

Owner(q) ==
    /\ LoadsOrder(q) /\ AtItem(q) /\ TakesProduct(q) /\ Restores(q)
    /\ CreateIsPrivate(q) /\ OwnRows(q)

\* Every handler but create's works on orders that exist.
Backed(q) == q.op # "create" => \A o \in LoadedOrders(q) : Exists(o)

OwnInv ==
    /\ Inv
    /\ NoOrphanAllocation
    /\ \A r \in Requests : Owner(req[r]) /\ Backed(req[r])

-----------------------------------------------------------------------------
(* The operators that compute the next state of a request *)

\* A request at rest owns nothing and has loaded nothing.
LEMMA IdleOwner ==
    Owner(Idle) /\ Idle.op # "create" /\ LoadedOrders(Idle) = {} /\ Idle.wa = <<>>
  BY DEF Owner, LoadsOrder, AtItem, TakesProduct, Restores, CreateIsPrivate, OwnRows,
         InItem, NotOfCreate, LoadedOrders, Idle, NoRow

\* A cron job that goes on with its other orders has loaded no new one.
LEMMA DoneWithOrderOwner ==
    ASSUME NEW q \in Request, q.op # "create"
    PROVE  /\ Owner(DoneWithOrder(q)) /\ DoneWithOrder(q).op # "create"
           /\ LoadedOrders(DoneWithOrder(q)) \subseteq LoadedOrders(q)
<1> DEFINE rest == [q.rows EXCEPT ![q.order] = NoRow]
           next == [Idle EXCEPT !.op = q.op, !.pc = "find", !.rows = rest]
<1>1. next.op = q.op /\ next.pc = "find" /\ next.rows = rest /\ next.wa = Idle.wa
  BY IdleType DEF Request
<1>2. LoadedOrders(next) \subseteq LoadedOrders(q)
  BY <1>1 DEF LoadedOrders, NoRow, Request
<1> HIDE DEF next
<1>3. Owner(next) /\ next.op # "create"
  BY <1>1, IdleOwner
  DEF Owner, LoadsOrder, AtItem, TakesProduct, Restores, CreateIsPrivate, OwnRows,
      InItem, NotOfCreate
<1> QED
  BY <1>2, <1>3, IdleOwner DEF DoneWithOrder, next

\* Going on after an allocation was restored keeps the request with its order.
LEMMA AfterRestoreOwner ==
    ASSUME NEW q \in Request, q.op # "create", q.rows[q.order].status # "ABSENT", OwnRows(q)
    PROVE  /\ Owner(AfterRestore(q)) /\ AfterRestore(q).op # "create"
           /\ LoadedOrders(AfterRestore(q)) \subseteq LoadedOrders(q)
<1>1. ASSUME NEW pc \in {"batch", "selectOrder"}
      PROVE  LET x == [q EXCEPT !.pc = pc]
             IN  Owner(x) /\ x.op # "create" /\ LoadedOrders(x) = LoadedOrders(q)
  <2> DEFINE x == [q EXCEPT !.pc = pc]
  <2>1. x.op = q.op /\ x.pc = pc /\ x.rows = q.rows /\ x.wa = q.wa /\ x.order = q.order
    BY DEF Request
  <2> HIDE DEF x
  <2>2. Owner(x) /\ x.op # "create" /\ LoadedOrders(x) = LoadedOrders(q)
    BY <2>1
    DEF Owner, LoadsOrder, AtItem, TakesProduct, Restores, CreateIsPrivate, OwnRows,
        InItem, NotOfCreate, LoadedOrders
  <2> QED
    BY <2>2 DEF x
<1> QED
  BY <1>1, DoneWithOrderOwner DEF AfterRestore

\* The loop over the items starts, and goes on, at an item of the order.
LEMMA NextItemOwner ==
    ASSUME NEW q, q.rows[q.order].status # "ABSENT", OwnRows(q), q.op = "create" => q.tx,
           NEW x, x.pc = "read", x.op = q.op, x.tx = q.tx, x.order = q.order,
           x.rows = q.rows, x.wa = q.wa, x.line \in DOMAIN Cart[q.order]
    PROVE  Owner(x) /\ LoadedOrders(x) = LoadedOrders(q)
  BY DEF Owner, LoadsOrder, AtItem, TakesProduct, Restores, CreateIsPrivate, OwnRows,
         InItem, NotOfCreate, LoadedOrders

\* Starting on an order's cart is working for its first item.
LEMMA FirstItemOwner ==
    ASSUME NEW q \in Request, q.order \in Orders, q.rows[q.order].status # "ABSENT",
           OwnRows(q), q.op = "create" => q.tx
    PROVE  /\ Owner(FirstItem(q)) /\ FirstItem(q).op = q.op
           /\ LoadedOrders(FirstItem(q)) = LoadedOrders(q)
<1> DEFINE n == Cart[q.order][1].qty
           x == [q EXCEPT !.pc = "read", !.line = 1, !.need = n]
<1>1. Cart[q.order] \in Seq(Items) /\ Len(Cart[q.order]) > 0
  BY ConstantsAssumption
<1>2. 1 \in DOMAIN Cart[q.order]
  BY <1>1
<1>3. FirstItem(q) = x
  BY DEF FirstItem
<1> HIDE DEF n
<1>4. x.pc = "read" /\ x.op = q.op /\ x.tx = q.tx /\ x.order = q.order
      /\ x.rows = q.rows /\ x.wa = q.wa /\ x.line = 1
  BY DEF Request
<1> HIDE DEF x
<1> QED
  BY <1>2, <1>3, <1>4, NextItemOwner

\* After a batch has given its units: the same item, the next one, or the end.
LEMMA AfterConsumeOwner ==
    ASSUME NEW q, Sound(q), q.pc = "alloc", Owner(q)
    PROVE  /\ Owner(AfterConsume(q)) /\ AfterConsume(q).op = q.op
           /\ LoadedOrders(AfterConsume(q)) = LoadedOrders(q)
<1>1. q \in Request /\ q.order \in Orders /\ q.line \in Nat
  BY DEF Sound, HasOrder, Request
<1>2. /\ q.rows[q.order].status # "ABSENT" /\ OwnRows(q) /\ (q.op = "create" => q.tx)
      /\ q.line \in DOMAIN Cart[q.order]
      /\ \A b \in Candidates(q) : ProductOf[b] = Product(q)
  BY DEF Owner, LoadsOrder, CreateIsPrivate, AtItem, TakesProduct, InItem
<1>3. NoCandidates \in [Batches -> Nat]
  BY DEF NoCandidates
<1>4. CASE q.need > 0
  <2> DEFINE x == [q EXCEPT !.pc = "take"]
  <2>1. x.op = q.op /\ x.pc = "take" /\ x.rows = q.rows /\ x.wa = q.wa
        /\ x.order = q.order /\ x.line = q.line /\ x.tx = q.tx /\ x.plan = q.plan
    BY <1>1 DEF Request
  <2>2. AfterConsume(q) = x
    BY <1>4 DEF AfterConsume
  <2> HIDE DEF x
  <2>3. Owner(x) /\ LoadedOrders(x) = LoadedOrders(q)
    BY <1>2, <2>1
    DEF Owner, LoadsOrder, AtItem, TakesProduct, Restores, CreateIsPrivate, OwnRows,
        InItem, NotOfCreate, LoadedOrders, Candidates, Product
  <2> QED
    BY <2>1, <2>2, <2>3
<1>5. CASE ~(q.need > 0) /\ q.line < Len(Cart[q.order])
  <2> DEFINE n == Cart[q.order][q.line + 1].qty
             i == q.line + 1
             x == [q EXCEPT !.pc = "read", !.line = i, !.need = n, !.plan = NoCandidates]
  <2>1. Cart[q.order] \in Seq(Items)
    BY <1>1, ConstantsAssumption
  <2>2. i \in DOMAIN Cart[q.order]
    BY <1>1, <1>5, <2>1
  <2>3. AfterConsume(q) = x
    BY <1>1, <1>5 DEF AfterConsume, Request
  <2> HIDE DEF n, i
  <2>4. x.pc = "read" /\ x.op = q.op /\ x.tx = q.tx /\ x.order = q.order
        /\ x.rows = q.rows /\ x.wa = q.wa /\ x.line = i
    BY <1>1 DEF Request
  <2> HIDE DEF x
  <2> QED
    BY <1>2, <2>2, <2>3, <2>4, NextItemOwner
<1>6. CASE ~(q.need > 0) /\ ~(q.line < Len(Cart[q.order]))
  <2> DEFINE pc == IF q.op = "create" THEN "commit" ELSE "selectOrder"
             x == [q EXCEPT !.pc = pc, !.plan = NoCandidates]
  <2>1. x.op = q.op /\ x.pc = pc /\ x.rows = q.rows /\ x.wa = q.wa
        /\ x.order = q.order /\ x.tx = q.tx
    BY <1>1 DEF Request
  <2>2. AfterConsume(q) = x
    BY <1>6 DEF AfterConsume
  <2> HIDE DEF x
  <2>3. Owner(x) /\ LoadedOrders(x) = LoadedOrders(q)
    BY <1>2, <2>1
    DEF Owner, LoadsOrder, AtItem, TakesProduct, Restores, CreateIsPrivate, OwnRows,
        InItem, NotOfCreate, LoadedOrders
  <2> QED
    BY <2>1, <2>2, <2>3
<1> QED
  BY <1>1, <1>4, <1>5, <1>6

-----------------------------------------------------------------------------
(* Steps of the system *)

\* What every step of a request has to show; Inv' is known from above.
LEMMA StepKeepsOwn ==
    ASSUME OwnInv, Inv', NEW r \in Requests, NEW q, Owner(q),
           req' = [req EXCEPT ![r] = q],
           q.op # "create" => \A o \in LoadedOrders(q) : Exists(o)',
           \A o \in Orders : Exists(o) => Exists(o)',
           NoOrphanAllocation'
    PROVE  OwnInv'
<1>1. ASSUME NEW s \in Requests
      PROVE  Owner(req'[s]) /\ Backed(req[s])'
  <2>1. req' \in [Requests -> Request] /\ req \in [Requests -> Request]
    BY DEF Inv, TypeOK, OwnInv
  <2>2. CASE s = r
    <3>1. req'[s] = q
      BY <2>1, <2>2
    <3> QED
      BY <3>1 DEF Backed
  <2>3. CASE s # r
    <3>1. req'[s] = req[s]
      BY <2>1, <2>3
    <3>2. Owner(req[s]) /\ Backed(req[s])
      BY DEF OwnInv
    <3> QED
      BY <3>1, <3>2 DEF Backed, LoadedOrders
  <2> QED
    BY <2>2, <2>3
<1> QED
  BY <1>1 DEF OwnInv

\* The same for the steps that leave orders and allocations alone.
LEMMA LocalStepKeepsOwn ==
    ASSUME OwnInv, Inv', NEW r \in Requests, NEW q, Owner(q), Backed(q),
           req' = [req EXCEPT ![r] = q], UNCHANGED <<allocs, order>>
    PROVE  OwnInv'
<1>1. \A o \in Orders : Exists(o) <=> Exists(o)'
  BY DEF Exists
<1>2. NoOrphanAllocation
  BY DEF OwnInv
<1>3. NoOrphanAllocation'
  BY <1>2 DEF NoOrphanAllocation, Exists
<1>4. q.op # "create" => \A o \in LoadedOrders(q) : Exists(o)'
  BY <1>1 DEF Backed, LoadedOrders
<1> QED
  BY <1>1, <1>3, <1>4, StepKeepsOwn

\* A request that ends by an exception commits nothing.
LEMMA ThrowKeepsOwn ==
    ASSUME OwnInv, Inv', NEW r \in Requests, Throw(r)
    PROVE  OwnInv'
<1>1. Owner(Idle) /\ Backed(Idle)
  BY IdleOwner DEF Backed
<1>2. UNCHANGED <<allocs, order>> /\ req' = [req EXCEPT ![r] = Idle]
  BY DEF Throw, Goto, db
<1> QED
  BY <1>1, <1>2, LocalStepKeepsOwn

\* What is known of the request that takes a step.
LEMMA ReqOwner ==
    ASSUME OwnInv, NEW r \in Requests
    PROVE  /\ req[r] \in Request /\ Sound(req[r]) /\ Owner(req[r]) /\ Backed(req[r])
           /\ req[r].todo \subseteq DOMAIN allocs
  BY ReqSound DEF OwnInv, Sound

-----------------------------------------------------------------------------
(* Requests begin *)

\* A request that has loaded the entity of one order, before its first statement.
LEMMA LoadedOwner ==
    ASSUME NEW pc \in {"idle", "has", "find", "selectOrder"}, NEW o \in Orders,
           NEW row \in OrderRow, row.status # "ABSENT",
           NEW q, q.pc = pc, q.order = o, q.rows = Loaded(o, row), q.wa = <<>>,
           q.op # "create"
    PROVE  Owner(q) /\ LoadedOrders(q) = {o}
  BY DEF Owner, LoadsOrder, AtItem, TakesProduct, Restores, CreateIsPrivate, OwnRows,
         InItem, NotOfCreate, LoadedOrders, Loaded, NoRow

\* An HTTP call that begins with a request of its own order keeps the invariant.
LEMMA CallKeepsOwn ==
    ASSUME OwnInv, Inv', NEW r \in Requests, NEW q, Owner(q), Backed(q), Call(r, q)
    PROVE  OwnInv'
<1>1. req' = [req EXCEPT ![r] = q] /\ UNCHANGED <<allocs, order>>
  BY DEF Call, Start
<1> QED
  BY <1>1, LocalStepKeepsOwn

\* create works for its own order, inside its transaction.
LEMMA BeginCreateKeepsOwn ==
    ASSUME OwnInv, Inv', NEW r \in Requests, NEW o \in Orders, BeginCreate(r, o)
    PROVE  OwnInv'
<1> DEFINE q == [Idle EXCEPT !.op = "create", !.tx = TRUE, !.order = o,
                             !.rows = Loaded(o, NewOrder)]
<1>1. Loaded(o, NewOrder) \in [Orders -> OrderRow]
  BY LoadedType DEF NewOrder, OrderRow, OrderStatus, PaymentStatus
<1>2. q \in Request
  BY <1>1, IdleType DEF Request, Ops
<1>3. q.op = "create" /\ q.tx = TRUE /\ q.order = o /\ q.wa = Idle.wa
      /\ q.rows = Loaded(o, NewOrder)
  BY IdleType DEF Request
<1>4. Call(r, FirstItem(q))
  BY DEF BeginCreate
<1> HIDE DEF q
<1>5. q.rows[q.order].status # "ABSENT"
  BY <1>3 DEF Loaded, NewOrder
<1>6. OwnRows(q)
  BY <1>3, IdleOwner DEF OwnRows
<1>7. Owner(FirstItem(q)) /\ Backed(FirstItem(q))
  BY <1>2, <1>3, <1>5, <1>6, FirstItemOwner DEF Backed
<1> QED
  BY <1>4, <1>7, CallKeepsOwn

\* The three handlers of an existing order.
LEMMA HandlerKeepsOwn ==
    ASSUME OwnInv, Inv', NEW r \in Requests, NEW o \in Orders, Exists(o),
           NEW op \in Ops \ {"create"}, NEW pc \in {"has", "find", "selectOrder"},
           NEW tx \in BOOLEAN, NEW row \in OrderRow, row.status # "ABSENT",
           NEW q, Call(r, q), q.op = op, q.pc = pc, q.order = o,
           q.rows = Loaded(o, row), q.wa = <<>>
    PROVE  OwnInv'
<1>1. Owner(q) /\ LoadedOrders(q) = {o}
  BY LoadedOwner
<1>2. Backed(q)
  BY <1>1 DEF Backed
<1> QED
  BY <1>1, <1>2, CallKeepsOwn

\* submitPayment works for an order that exists.
LEMMA BeginSubmitKeepsOwn ==
    ASSUME OwnInv, Inv', NEW r \in Requests, NEW o \in Orders, BeginSubmit(r, o)
    PROVE  OwnInv'
<1> DEFINE row == [order[o] EXCEPT !.pay = IF @ = "NONE" THEN "SUBMITTED" ELSE @]
           q == [Idle EXCEPT !.op = "submit", !.pc = "selectOrder", !.order = o,
                             !.rows = Loaded(o, row)]
<1>1. row \in OrderRow /\ row.status # "ABSENT"
  BY DEF BeginSubmit, Exists, OwnInv, Inv, TypeOK, OrderRow, PaymentStatus
<1>2. Call(r, q) /\ Exists(o)
  BY DEF BeginSubmit
<1> HIDE DEF row
<1>3. q.op = "submit" /\ q.pc = "selectOrder" /\ q.order = o /\ q.rows = Loaded(o, row)
      /\ q.wa = <<>>
  BY IdleType, IdleOwner DEF Request
<1> HIDE DEF q
<1> QED
  BY <1>1, <1>2, <1>3, HandlerKeepsOwn DEF Ops

\* confirmPayment works for an order that exists.
LEMMA BeginConfirmKeepsOwn ==
    ASSUME OwnInv, Inv', NEW r \in Requests, NEW o \in Orders, BeginConfirm(r, o)
    PROVE  OwnInv'
<1> DEFINE row == [status    |-> IF order[o].status = "PENDING" THEN "PAID"
                                 ELSE order[o].status,
                   pay       |-> "CONFIRMED",
                   confirmed |-> TRUE]
           q == [Idle EXCEPT !.op = "confirm", !.pc = "has", !.tx = TRUE, !.order = o,
                             !.rows = Loaded(o, row)]
<1>1. row \in OrderRow /\ row.status # "ABSENT"
  BY DEF BeginConfirm, Exists, OwnInv, Inv, TypeOK, OrderRow, PaymentStatus, OrderStatus
<1>2. Call(r, q) /\ Exists(o)
  BY DEF BeginConfirm
<1> HIDE DEF row
<1>3. q.op = "confirm" /\ q.pc = "has" /\ q.order = o /\ q.rows = Loaded(o, row)
      /\ q.wa = <<>>
  BY IdleType, IdleOwner DEF Request
<1> HIDE DEF q
<1> QED
  BY <1>1, <1>2, <1>3, HandlerKeepsOwn DEF Ops

\* updateStatus works for an order that exists, whatever its first statement.
LEMMA BeginUpdateKeepsOwn ==
    ASSUME OwnInv, Inv', NEW r \in Requests, NEW o \in Orders, NEW to \in Targets,
           BeginUpdate(r, o, to)
    PROVE  OwnInv'
<1> DEFINE row == [order[o] EXCEPT !.status = to]
           loads(pc) == [Idle EXCEPT !.op = "update", !.pc = pc, !.order = o,
                                     !.rows = Loaded(o, row)]
<1>1. row \in OrderRow /\ row.status # "ABSENT"
  <2>1. to \in OrderStatus
    BY ConstantsAssumption
  <2> QED
    BY <2>1 DEF OwnInv, Inv, TypeOK, OrderRow, OrderStatus
<1>2. PICK pc \in {"find", "has", "selectOrder"} : Call(r, loads(pc))
  BY DEF BeginUpdate
<1>3. Exists(o)
  BY DEF BeginUpdate
<1> DEFINE q == loads(pc)
<1> HIDE DEF row
<1>4. q.op = "update" /\ q.pc = pc /\ q.order = o /\ q.rows = Loaded(o, row)
      /\ q.wa = <<>>
  BY IdleType, IdleOwner DEF Request
<1> HIDE DEF loads
<1> QED
  BY <1>1, <1>2, <1>3, <1>4, HandlerKeepsOwn DEF Ops

\* A cron job only loads orders that exist.
LEMMA TickKeepsOwn ==
    ASSUME OwnInv, Inv', NEW r \in Requests, NEW op \in Ops \ {"create"},
           NEW rows \in [Orders -> OrderRow],
           \A o \in Orders : rows[o].status # "ABSENT" => Exists(o),
           Tick(r, [Idle EXCEPT !.op = op, !.pc = "find", !.rows = rows])
    PROVE  OwnInv'
<1> DEFINE q == [Idle EXCEPT !.op = op, !.pc = "find", !.rows = rows]
<1>1. q.op = op /\ q.pc = "find" /\ q.rows = rows /\ q.wa = <<>>
  BY IdleType, IdleOwner DEF Request
<1>2. Start(r, IF LoadedOrders(q) = {} THEN Idle ELSE q)
  BY DEF Tick
<1> HIDE DEF q
<1>3. Owner(q) /\ Backed(q)
  BY <1>1
  DEF Owner, LoadsOrder, AtItem, TakesProduct, Restores, CreateIsPrivate, OwnRows,
      InItem, NotOfCreate, LoadedOrders, Backed
<1>4. Owner(Idle) /\ Backed(Idle)
  BY IdleOwner DEF Backed
<1>5. PICK x : (x = Idle \/ x = q) /\ Start(r, x)
  BY <1>2
<1>6. req' = [req EXCEPT ![r] = x] /\ UNCHANGED <<allocs, order>>
  BY <1>5 DEF Start
<1> QED
  BY <1>3, <1>4, <1>5, <1>6, LocalStepKeepsOwn

\* Whatever begins, handler or cron job, works for its own orders.
LEMMA BeginKeepsOwn ==
    ASSUME OwnInv, Inv', NEW r \in Requests, Begin(r)
    PROVE  OwnInv'
<1>1. CASE BeginAutoCancel(r)
  <2> DEFINE rows == [o \in Orders |->
                        IF Unpaid(o) /\ age[o] = 2 THEN [order[o] EXCEPT !.status = "CANCELLED"]
                        ELSE NoRow]
  <2>1. rows \in [Orders -> OrderRow]
    BY DEF OwnInv, Inv, TypeOK, OrderRow, NoRow, OrderStatus, PaymentStatus
  <2>2. \A o \in Orders : rows[o].status # "ABSENT" => Exists(o)
    BY DEF NoRow, Unpaid, Exists
  <2> QED
    BY <1>1, <2>1, <2>2, TickKeepsOwn DEF BeginAutoCancel, Ops
<1>2. CASE BeginRelease(r)
  <2> DEFINE rows == [o \in Orders |->
                        IF Unpaid(o) /\ age[o] >= 1 THEN order[o] ELSE NoRow]
  <2>1. rows \in [Orders -> OrderRow]
    BY DEF OwnInv, Inv, TypeOK, OrderRow, NoRow, OrderStatus, PaymentStatus
  <2>2. \A o \in Orders : rows[o].status # "ABSENT" => Exists(o)
    BY DEF NoRow, Exists
  <2> QED
    BY <1>2, <2>1, <2>2, TickKeepsOwn DEF BeginRelease, Ops
<1> QED
  BY <1>1, <1>2, BeginCreateKeepsOwn, BeginSubmitKeepsOwn, BeginConfirmKeepsOwn,
     BeginUpdateKeepsOwn
  DEF Begin

-----------------------------------------------------------------------------
(* Statements of a running request *)

\* The consumption starts with the first item of the request's order.
LEMMA CheckAllocationsKeepsOwn ==
    ASSUME OwnInv, Inv', NEW r \in Requests, CheckAllocations(r)
    PROVE  OwnInv'
<1> DEFINE old == req[r]
           x == [old EXCEPT !.pc = "selectOrder"]
<1>1. /\ old \in Request /\ old.pc = "has" /\ Owner(old) /\ Backed(old)
      /\ old.order \in Orders
  BY ReqOwner DEF CheckAllocations, Sound, HasOrder
<1>2. /\ old.rows[old.order].status # "ABSENT" /\ OwnRows(old) /\ old.op # "create"
  BY <1>1 DEF Owner, LoadsOrder, CreateIsPrivate, NotOfCreate
<1>3. Goto(r, x) \/ Goto(r, FirstItem(old))
  BY DEF CheckAllocations
<1>4. x.op = old.op /\ x.pc = "selectOrder" /\ x.rows = old.rows /\ x.wa = old.wa
      /\ x.order = old.order
  BY <1>1 DEF Request
<1> HIDE DEF x
<1>5. Owner(x) /\ Backed(x)
  BY <1>1, <1>2, <1>4
  DEF Owner, LoadsOrder, AtItem, TakesProduct, Restores, CreateIsPrivate, OwnRows,
      InItem, NotOfCreate, LoadedOrders, Backed
<1>6. Owner(FirstItem(old)) /\ Backed(FirstItem(old))
  BY <1>1, <1>2, FirstItemOwner DEF Backed
<1>7. UNCHANGED <<allocs, order>>
  BY DEF CheckAllocations
<1> QED
  BY <1>3, <1>5, <1>6, <1>7, LocalStepKeepsOwn DEF Goto

\* A LEGACY batch touches neither orders nor allocations.
LEMMA CreateLegacyKeepsOwn ==
    ASSUME OwnInv, Inv', NEW r \in Requests, CreateLegacy(r)
    PROVE  OwnInv'
<1>1. CASE Throw(r)
  BY <1>1, ThrowKeepsOwn
<1>2. CASE ~Throw(r)
  <2>1. PICK b, row : Goto(r, OverlayBatch(req[r], b, row))
    BY <1>2 DEF CreateLegacy
  <2> DEFINE q == OverlayBatch(req[r], b, row)
  <2>2. req[r] \in Request /\ Owner(req[r]) /\ Backed(req[r]) /\ req[r].pc = "read"
    BY ReqOwner DEF CreateLegacy
  <2>3. q.op = req[r].op /\ q.pc = req[r].pc /\ q.rows = req[r].rows /\ q.wa = req[r].wa
        /\ q.order = req[r].order /\ q.line = req[r].line /\ q.tx = req[r].tx
    BY <2>2 DEF OverlayBatch, Request
  <2>4. UNCHANGED <<allocs, order>> /\ req' = [req EXCEPT ![r] = q]
    BY <1>2, <2>1 DEF CreateLegacy, Goto
  <2> HIDE DEF q
  <2>5. Owner(q) /\ Backed(q)
    BY <2>2, <2>3
    DEF Owner, LoadsOrder, AtItem, TakesProduct, Restores, CreateIsPrivate, OwnRows,
        InItem, NotOfCreate, LoadedOrders, Backed
  <2> QED
    BY <2>4, <2>5, LocalStepKeepsOwn
<1> QED
  BY <1>1, <1>2

\* Every candidate is a batch of the product of the current item.
LEMMA ReadCandidatesKeepsOwn ==
    ASSUME OwnInv, Inv', NEW r \in Requests, ReadCandidates(r)
    PROVE  OwnInv'
<1>1. CASE Throw(r)
  BY <1>1, ThrowKeepsOwn
<1>2. CASE ~Throw(r)
  <2> DEFINE old == req[r]
             plan == [b \in Batches |-> IF b \in Usable(r) THEN Sees(r)[b].avail ELSE 0]
             q == [old EXCEPT !.pc = "take", !.plan = plan]
  <2>1. old \in Request /\ Owner(old) /\ Backed(old) /\ old.pc = "read"
    BY ReqOwner DEF ReadCandidates
  <2>2. req' = [req EXCEPT ![r] = q] /\ UNCHANGED <<allocs, order>>
    BY <1>2 DEF ReadCandidates, db, Goto
  <2>3. \A b \in Batches : plan[b] > 0 => ProductOf[b] = Product(old)
    BY DEF Usable, ActiveBatches, BatchesOf
  <2> HIDE DEF plan
  <2>4. q.op = old.op /\ q.pc = "take" /\ q.rows = old.rows /\ q.wa = old.wa
        /\ q.order = old.order /\ q.line = old.line /\ q.tx = old.tx /\ q.plan = plan
    BY <2>1 DEF Request
  <2> HIDE DEF q
  <2>5. Owner(q) /\ Backed(q)
    BY <2>1, <2>3, <2>4
    DEF Owner, LoadsOrder, AtItem, TakesProduct, Restores, CreateIsPrivate, OwnRows,
        InItem, NotOfCreate, LoadedOrders, Backed, Candidates, Product
  <2> QED
    BY <2>2, <2>5, LocalStepKeepsOwn
<1> QED
  BY <1>1, <1>2

\* The batch in hand is one of the candidates.
LEMMA TakeOldestKeepsOwn ==
    ASSUME OwnInv, Inv', NEW r \in Requests, TakeOldest(r)
    PROVE  OwnInv'
<1> DEFINE old == req[r]
           consumed(b) == Consumed(old.plan[b], old.need)
           ent(b) == [batch |-> b, avail |-> old.plan[b] - consumed(b), qty |-> consumed(b),
                      alloc |-> 0, status |-> StatusFor(old.plan[b] - consumed(b))]
           next(b) == [old EXCEPT !.pc = "update", !.ent = ent(b),
                                  !.need = @ - consumed(b), !.plan[b] = 0,
                                  !.cols = Differs(ent(b), Sees(r)[b])]
<1>1. PICK b \in Candidates(old) : Goto(r, next(b))
  BY DEF TakeOldest
<1> DEFINE e == ent(b)
           q == next(b)
<1>2. old \in Request /\ Owner(old) /\ Backed(old) /\ old.pc = "take"
  BY ReqOwner DEF TakeOldest
<1>3. req' = [req EXCEPT ![r] = q] /\ UNCHANGED <<allocs, order>>
  BY <1>1 DEF TakeOldest, Goto
<1>4. e.batch = b /\ e.alloc = 0
  OBVIOUS
<1> HIDE DEF e
<1>5. q.op = old.op /\ q.pc = "update" /\ q.rows = old.rows /\ q.wa = old.wa
      /\ q.order = old.order /\ q.line = old.line /\ q.tx = old.tx
  BY <1>2 DEF Request
<1>6. q.ent = e /\ Candidates(q) \subseteq Candidates(old)
  BY <1>1, <1>2 DEF Request, Candidates, e
<1> HIDE DEF q
<1>7. ProductOf[b] = Product(old)
  BY <1>1, <1>2 DEF Owner, TakesProduct, InItem
<1>8. Owner(q) /\ Backed(q)
  BY <1>2, <1>4, <1>5, <1>6, <1>7
  DEF Owner, LoadsOrder, AtItem, TakesProduct, Restores, CreateIsPrivate, OwnRows,
      InItem, NotOfCreate, LoadedOrders, Backed, Product
<1> QED
  BY <1>3, <1>8, LocalStepKeepsOwn

\* A job takes up one of the orders it loaded.
LEMMA FindAllocationsKeepsOwn ==
    ASSUME OwnInv, Inv', NEW r \in Requests, FindAllocations(r)
    PROVE  OwnInv'
<1> DEFINE old == req[r]
<1>1. PICK o \in LoadedOrders(old) :
        Goto(r, AfterRestore([old EXCEPT !.order = o, !.todo = ActiveAllocs(o)]))
  BY DEF FindAllocations
<1> DEFINE q == [old EXCEPT !.order = o, !.todo = ActiveAllocs(o)]
<1>2. old \in Request /\ Owner(old) /\ Backed(old) /\ old.pc = "find"
  BY ReqOwner DEF FindAllocations
<1>3. old.op # "create" /\ o \in Orders /\ old.rows[o].status # "ABSENT"
  BY <1>1, <1>2 DEF Owner, CreateIsPrivate, NotOfCreate, LoadedOrders
<1>4. ActiveAllocs(o) \in SUBSET Nat
  BY DEF ActiveAllocs, OwnInv, Inv, TypeOK
<1>5. q \in Request
  BY <1>2, <1>3, <1>4 DEF Request
<1>6. q.op = old.op /\ q.pc = "find" /\ q.rows = old.rows /\ q.wa = old.wa /\ q.order = o
  BY <1>2 DEF Request
<1>7. Goto(r, AfterRestore(q)) /\ UNCHANGED <<allocs, order>>
  BY <1>1 DEF FindAllocations
<1> HIDE DEF q
<1>8. OwnRows(q)
  BY <1>2, <1>6 DEF Owner, OwnRows
<1>9. Owner(AfterRestore(q)) /\ Backed(AfterRestore(q))
  <2>1. LoadedOrders(AfterRestore(q)) \subseteq LoadedOrders(old)
        /\ Owner(AfterRestore(q))
    BY <1>3, <1>5, <1>6, <1>8, AfterRestoreOwner DEF LoadedOrders
  <2> QED
    BY <1>2, <1>3, <2>1 DEF Backed
<1> QED
  BY <1>7, <1>9, LocalStepKeepsOwn DEF Goto

\* The entity in hand now belongs to an allocation being restored.
LEMMA ReadBatchKeepsOwn ==
    ASSUME OwnInv, Inv', NEW r \in Requests, ReadBatch(r)
    PROVE  OwnInv'
<1> DEFINE old == req[r]
           ent(k) == [batch |-> allocs[k].batch, status |-> "ACTIVE",
                      avail |-> Sees(r)[allocs[k].batch].avail + allocs[k].qty,
                      qty |-> allocs[k].qty, alloc |-> k]
           next(k) == [old EXCEPT !.pc = "select", !.todo = @ \ {k}, !.ent = ent(k)]
<1>1. PICK k \in old.todo : Goto(r, next(k))
  BY DEF ReadBatch
<1> DEFINE e == ent(k)
           q == next(k)
<1>2. old \in Request /\ Owner(old) /\ Backed(old) /\ old.pc = "batch"
      /\ old.todo \subseteq DOMAIN allocs
  BY ReqOwner DEF ReadBatch
<1>3. k # 0
  BY <1>1, <1>2 DEF OwnInv, Inv, TypeOK
<1>4. req' = [req EXCEPT ![r] = q] /\ UNCHANGED <<allocs, order>>
  BY <1>1 DEF ReadBatch, Goto
<1>5. e.alloc = k
  OBVIOUS
<1> HIDE DEF e
<1>6. q.op = old.op /\ q.pc = "select" /\ q.rows = old.rows /\ q.wa = old.wa
      /\ q.order = old.order /\ q.tx = old.tx
  BY <1>2 DEF Request
<1>7. q.ent = e
  BY <1>2 DEF Request, e
<1> HIDE DEF q
<1>8. Owner(q) /\ Backed(q)
  BY <1>2, <1>3, <1>5, <1>6, <1>7
  DEF Owner, LoadsOrder, AtItem, TakesProduct, Restores, CreateIsPrivate, OwnRows,
      InItem, NotOfCreate, LoadedOrders, Backed
<1> QED
  BY <1>4, <1>8, LocalStepKeepsOwn

\* The SELECT of a save moves the request to its UPDATE and nothing else.
LEMMA SelectBatchKeepsOwn ==
    ASSUME OwnInv, Inv', NEW r \in Requests, SelectBatch(r)
    PROVE  OwnInv'
<1> DEFINE old == req[r]
           d == Differs(old.ent, Sees(r)[old.ent.batch])
           q == [old EXCEPT !.pc = "update", !.cols = d]
<1>1. old \in Request /\ Owner(old) /\ Backed(old) /\ old.pc = "select"
  BY ReqOwner DEF SelectBatch
<1>2. req' = [req EXCEPT ![r] = q] /\ UNCHANGED <<allocs, order>>
  BY DEF SelectBatch, Goto
<1> HIDE DEF d
<1>3. q.op = old.op /\ q.pc = "update" /\ q.rows = old.rows /\ q.wa = old.wa
      /\ q.order = old.order /\ q.tx = old.tx /\ q.ent = old.ent
  BY <1>1 DEF Request
<1> HIDE DEF q
<1>4. Owner(q) /\ Backed(q)
  BY <1>1, <1>3
  DEF Owner, LoadsOrder, AtItem, TakesProduct, Restores, CreateIsPrivate, OwnRows,
      InItem, NotOfCreate, LoadedOrders, Backed
<1> QED
  BY <1>2, <1>4, LocalStepKeepsOwn

\* After the UPDATE comes the allocation of a consumption or the mark of a restoration.
LEMMA UpdateBatchKeepsOwn ==
    ASSUME OwnInv, Inv', NEW r \in Requests, UpdateBatch(r)
    PROVE  OwnInv'
<1> DEFINE old == req[r]
           pc == IF old.ent.alloc = 0 THEN "alloc" ELSE "mark"
           next == [old EXCEPT !.pc = pc, !.cols = {}]
<1>1. old \in Request /\ Owner(old) /\ Backed(old) /\ old.pc = "update"
  BY ReqOwner DEF UpdateBatch
<1>2. PICK b, row : Goto(r, next) \/ Goto(r, OverlayBatch(next, b, row))
  BY DEF UpdateBatch
<1>3. UNCHANGED <<allocs, order>>
  BY DEF UpdateBatch
<1>4. PICK q : (q = next \/ q = OverlayBatch(next, b, row)) /\ Goto(r, q)
  BY <1>2
<1>5. next \in Request /\ next.op = old.op /\ next.pc = pc /\ next.rows = old.rows
      /\ next.wa = old.wa /\ next.order = old.order /\ next.tx = old.tx
      /\ next.ent = old.ent /\ next.line = old.line /\ next.plan = old.plan
  BY <1>1 DEF Request, Pcs
<1> HIDE DEF next
<1>6. q.op = old.op /\ q.pc = pc /\ q.rows = old.rows /\ q.wa = old.wa
      /\ q.order = old.order /\ q.tx = old.tx /\ q.ent = old.ent /\ q.line = old.line
      /\ q.plan = old.plan
  BY <1>4, <1>5 DEF OverlayBatch, Request
<1>7. Owner(q) /\ Backed(q)
  BY <1>1, <1>6
  DEF Owner, LoadsOrder, AtItem, TakesProduct, Restores, CreateIsPrivate, OwnRows,
      InItem, NotOfCreate, LoadedOrders, Backed, Candidates, Product
<1> QED
  BY <1>3, <1>4, <1>7, LocalStepKeepsOwn DEF Goto

\* After the save of an allocation, with or without the movement that follows.
LEMMA PostKeepsOwn ==
    ASSUME OwnInv, Inv', NEW r \in Requests, NEW done \in Request, Owner(done),
           ~InSave(done), done.op # "create" => Backed(done), Post(r, done),
           NoOrphanAllocation', UNCHANGED order
    PROVE  OwnInv'
<1> DEFINE p == ProductOf[req[r].ent.batch]
<1>1. \A o \in Orders : Exists(o) <=> Exists(o)'
  BY DEF Exists
<1>2. CASE req' = [req EXCEPT ![r] = Idle]
  BY <1>1, <1>2, IdleOwner, StepKeepsOwn
<1>3. CASE ~(req' = [req EXCEPT ![r] = Idle])
  <2>1. PICK x : req' = [req EXCEPT ![r] = [done EXCEPT !.ent = NoEntity, !.wl[p] = x]]
    BY <1>3 DEF Post, Goto
  <2> DEFINE q == [done EXCEPT !.ent = NoEntity, !.wl[p] = x]
  <2>2. q.op = done.op /\ q.pc = done.pc /\ q.rows = done.rows /\ q.wa = done.wa
        /\ q.order = done.order /\ q.tx = done.tx /\ q.line = done.line
        /\ q.plan = done.plan
    BY DEF Request
  <2>3. req' = [req EXCEPT ![r] = q]
    BY <2>1
  <2> HIDE DEF q
  <2>4. Owner(q) /\ (q.op # "create" => Backed(q))
    BY <2>2
    DEF Owner, LoadsOrder, AtItem, TakesProduct, Restores, CreateIsPrivate, OwnRows,
        InItem, NotOfCreate, InSave, LoadedOrders, Backed, Candidates, Product
  <2>5. q.op # "create" => \A o \in LoadedOrders(q) : Exists(o)'
    BY <1>1, <2>4 DEF Backed, LoadedOrders
  <2> QED
    BY <1>1, <2>3, <2>4, <2>5, StepKeepsOwn
<1> QED
  BY <1>2, <1>3

\* The allocation names the request's order and item and a batch of its product;
\* outside a transaction that order exists.
LEMMA InsertAllocationKeepsOwn ==
    ASSUME OwnInv, Inv', NEW r \in Requests, InsertAllocation(r)
    PROVE  OwnInv'
<1> DEFINE q == req[r]
           row == [order |-> q.order, line |-> q.line, batch |-> q.ent.batch,
                   qty |-> q.ent.qty, restored |-> FALSE]
           w == IF q.tx THEN Append(q.wa, row) ELSE q.wa
           x == [q EXCEPT !.wa = w]
<1>1. /\ q \in Request /\ Sound(q) /\ Owner(q) /\ Backed(q) /\ q.pc = "alloc"
      /\ q.order \in Orders /\ q.ent.batch \in Batches
  BY ReqOwner DEF InsertAllocation, Sound, HasOrder, HasBatch, InSave
<1>2. ForItem(row, q.order)
  BY <1>1 DEF ForItem, Owner, AtItem, TakesProduct, InItem, Product
<1>3. /\ allocs' = IF q.tx THEN allocs ELSE Append(allocs, row)
      /\ Post(r, AfterConsume(x)) /\ UNCHANGED order
  BY <1>1 DEF InsertAllocation, Request
<1>4. q.ent.qty \in Nat \ {0} /\ q.line \in Nat
  BY <1>1 DEF Sound, MovesUnits, InSave, Request
<1>5. row \in AllocationRow
  BY <1>1, <1>4 DEF AllocationRow
<1> HIDE DEF row
<1>6. allocs \in Seq(AllocationRow) /\ q.wa \in Seq(AllocationRow)
  BY <1>1 DEF OwnInv, Inv, TypeOK, Request
<1>7. w \in Seq(AllocationRow) /\ \A k \in DOMAIN w : ForItem(w[k], q.order)
  BY <1>1, <1>2, <1>5, <1>6 DEF Owner, OwnRows
<1>8. NoOrphanAllocation'
  <2>1. CASE q.tx
    BY <1>3, <2>1 DEF OwnInv, NoOrphanAllocation, Exists
  <2>2. CASE ~q.tx
    <3>1. Exists(q.order)
      BY <1>1, <2>2
      DEF Owner, CreateIsPrivate, LoadsOrder, Backed, LoadedOrders
    <3>2. ASSUME NEW k \in DOMAIN allocs'
          PROVE  allocs'[k] = row \/ (k \in DOMAIN allocs /\ allocs'[k] = allocs[k])
      <4>1. allocs' = Append(allocs, row)
        BY <1>3, <2>2
      <4>2. k \in 1..(Len(allocs) + 1)
        BY <1>5, <1>6, <4>1
      <4>3. CASE k = Len(allocs) + 1
        BY <1>5, <1>6, <4>1, <4>3
      <4>4. CASE k \in 1..Len(allocs)
        BY <1>5, <1>6, <4>1, <4>4
      <4> QED
        BY <1>6, <4>2, <4>3, <4>4
    <3>3. \A k \in DOMAIN allocs :
            Exists(allocs[k].order) /\ ForItem(allocs[k], allocs[k].order)
      BY DEF OwnInv, NoOrphanAllocation, ForItem
    <3>4. row.order = q.order /\ ForItem(row, row.order)
      BY <1>2 DEF row
    <3>5. \A k \in DOMAIN allocs' :
            Exists(allocs'[k].order) /\ ForItem(allocs'[k], allocs'[k].order)
      BY <3>1, <3>2, <3>3, <3>4
    <3> QED
      BY <1>3, <3>5 DEF NoOrphanAllocation, Exists, ForItem
  <2> QED
    BY <2>1, <2>2
<1> HIDE DEF w
<1>9. /\ x \in Request /\ x.pc = q.pc /\ x.order = q.order /\ x.need = q.need
      /\ x.ent = q.ent /\ x.wb = q.wb /\ x.op = q.op /\ x.rows = q.rows /\ x.wa = w
      /\ x.line = q.line /\ x.tx = q.tx /\ x.plan = q.plan
  BY <1>1, <1>7 DEF Request
<1> HIDE DEF x
<1>10. Sound(x) /\ Owner(x)
  <2>1. Sound(x)
    BY <1>1, <1>9 DEF Sound, HasOrder, HasNeed, HasBatch, MovesUnits, InSave, WritesNoDebt
  <2>2. Owner(x)
    BY <1>1, <1>7, <1>9
    DEF Owner, LoadsOrder, AtItem, TakesProduct, Restores, CreateIsPrivate, OwnRows,
        InItem, NotOfCreate, Candidates, Product
  <2> QED
    BY <2>1, <2>2
<1>11. /\ Owner(AfterConsume(x)) /\ AfterConsume(x) \in Request /\ ~InSave(AfterConsume(x))
       /\ AfterConsume(x).op = q.op /\ LoadedOrders(AfterConsume(x)) = LoadedOrders(q)
  BY <1>1, <1>9, <1>10, AfterConsumeOwner, AfterConsumeSound DEF Sound, LoadedOrders
<1>12. Backed(AfterConsume(x))
  BY <1>1, <1>11 DEF Backed
<1> QED
  BY <1>3, <1>8, <1>11, <1>12, PostKeepsOwn

\* Marking changes nothing that an allocation refers to.
LEMMA MarkRestoredKeepsOwn ==
    ASSUME OwnInv, Inv', NEW r \in Requests, MarkRestored(r)
    PROVE  OwnInv'
<1> DEFINE q == req[r]
<1>1. /\ q \in Request /\ Sound(q) /\ Owner(q) /\ Backed(q) /\ q.pc = "mark"
      /\ q.order \in Orders
  BY ReqOwner DEF MarkRestored, Sound, HasOrder
<1>2. q.op # "create" /\ q.rows[q.order].status # "ABSENT" /\ OwnRows(q)
  BY <1>1 DEF Owner, CreateIsPrivate, NotOfCreate, LoadsOrder
<1>3. /\ Owner(AfterRestore(q)) /\ AfterRestore(q).op # "create"
      /\ LoadedOrders(AfterRestore(q)) \subseteq LoadedOrders(q)
  BY <1>1, <1>2, AfterRestoreOwner
<1>4. AfterRestore(q) \in Request /\ ~InSave(AfterRestore(q)) /\ Backed(AfterRestore(q))
  BY <1>1, <1>2, <1>3, AfterRestoreSound DEF Sound, Backed
<1>5. allocs' = [allocs EXCEPT ![q.ent.alloc] = [@ EXCEPT !.restored = TRUE]]
      /\ Post(r, AfterRestore(q)) /\ UNCHANGED order
  BY DEF MarkRestored
<1>6. \A k \in DOMAIN allocs : allocs[k] \in AllocationRow
  BY DEF OwnInv, Inv, TypeOK
<1>7. DOMAIN allocs' = DOMAIN allocs
      /\ \A k \in DOMAIN allocs :
           /\ allocs'[k].order = allocs[k].order /\ allocs'[k].line = allocs[k].line
           /\ allocs'[k].batch = allocs[k].batch
  BY <1>5, <1>6 DEF AllocationRow
<1>8. NoOrphanAllocation'
  <2>1. \A k \in DOMAIN allocs :
          /\ order[allocs[k].order].status # "ABSENT"
          /\ ForItem(allocs[k], allocs[k].order)
    BY DEF OwnInv, NoOrphanAllocation, ForItem, Exists
  <2>2. ASSUME NEW k \in DOMAIN allocs'
        PROVE  /\ order'[allocs'[k].order].status # "ABSENT"
               /\ ForItem(allocs'[k], allocs'[k].order)
    <3>1. /\ k \in DOMAIN allocs /\ allocs'[k].order = allocs[k].order
          /\ allocs'[k].line = allocs[k].line /\ allocs'[k].batch = allocs[k].batch
      BY <1>7
    <3>2. order' = order
      BY <1>5
    <3>3. order[allocs[k].order].status # "ABSENT" /\ ForItem(allocs[k], allocs[k].order)
      BY <2>1, <3>1
    <3> QED
      BY <3>1, <3>2, <3>3 DEF ForItem
  <2> QED
    BY <2>2 DEF NoOrphanAllocation, ForItem, Exists
<1> QED
  BY <1>3, <1>4, <1>5, <1>8, PostKeepsOwn

\* A commit adds allocations of one order, which then exists.
LEMMA FlushOwn ==
    ASSUME OwnInv, NEW r \in Requests, Flush(r), OwnRows(req[r]), req[r].order \in Orders,
           \A o \in Orders : Exists(o) => Exists(o)',
           order'[req[r].order].status # "ABSENT"
    PROVE  NoOrphanAllocation'
<1>1. allocs \in Seq(AllocationRow) /\ req[r].wa \in Seq(AllocationRow)
      /\ allocs' = allocs \o req[r].wa
  BY ReqOwner DEF OwnInv, Inv, TypeOK, Request, Flush
<1>2. \A k \in DOMAIN allocs' :
        \/ k \in DOMAIN allocs /\ allocs'[k] = allocs[k]
        \/ \E i \in DOMAIN req[r].wa : allocs'[k] = req[r].wa[i]
  <2> SUFFICES ASSUME NEW k \in DOMAIN allocs', k \notin DOMAIN allocs
               PROVE  \E i \in DOMAIN req[r].wa : allocs'[k] = req[r].wa[i]
    BY <1>1
  <2>1. /\ k - Len(allocs) \in DOMAIN req[r].wa
        /\ allocs'[k] = req[r].wa[k - Len(allocs)]
    BY <1>1
  <2> QED
    BY <2>1
<1>3. ASSUME NEW k \in DOMAIN allocs
      PROVE  /\ order'[allocs[k].order].status # "ABSENT"
             /\ ForItem(allocs[k], allocs[k].order)
  <2>1. allocs[k].order \in Orders
    <3>1. allocs[k] \in AllocationRow
      BY <1>1
    <3> QED
      BY <3>1 DEF AllocationRow
  <2>2. Exists(allocs[k].order) /\ ForItem(allocs[k], allocs[k].order)
    BY DEF OwnInv, NoOrphanAllocation, ForItem
  <2> QED
    BY <2>1, <2>2 DEF Exists
<1>4. \A i \in DOMAIN req[r].wa :
        req[r].wa[i].order = req[r].order /\ ForItem(req[r].wa[i], req[r].order)
  BY DEF OwnRows, ForItem
<1>5. \A k \in DOMAIN allocs' :
        /\ order'[allocs'[k].order].status # "ABSENT"
        /\ ForItem(allocs'[k], allocs'[k].order)
  BY <1>2, <1>3, <1>4
<1> QED
  BY <1>5 DEF NoOrphanAllocation, Exists, ForItem

\* create's order comes to exist in the step that commits its allocations.
LEMMA CommitCreateKeepsOwn ==
    ASSUME OwnInv, Inv', NEW r \in Requests, CommitCreate(r)
    PROVE  OwnInv'
<1> DEFINE q == req[r]
<1>1. /\ q \in Request /\ Owner(q) /\ q.order \in Orders /\ q.pc = "commit"
      /\ q.rows[q.order].status # "ABSENT" /\ OwnRows(q)
  BY ReqOwner DEF CommitCreate, Sound, HasOrder, Owner, LoadsOrder
<1>2. Flush(r) /\ Goto(r, Idle) /\ order' = [order EXCEPT ![q.order] = q.rows[q.order]]
  BY DEF CommitCreate
<1>3. /\ order'[q.order].status # "ABSENT"
      /\ \A o \in Orders : Exists(o) => Exists(o)'
  BY <1>1, <1>2 DEF Exists, OwnInv, Inv, TypeOK
<1>4. NoOrphanAllocation'
  BY <1>1, <1>2, <1>3, FlushOwn
<1> QED
  BY <1>2, <1>3, <1>4, IdleOwner, StepKeepsOwn DEF Goto

\* The SELECT of the order's save changes no row.
LEMMA SelectOrderKeepsOwn ==
    ASSUME OwnInv, Inv', NEW r \in Requests, SelectOrder(r)
    PROVE  OwnInv'
<1> DEFINE old == req[r]
<1>1. old \in Request /\ Owner(old) /\ Backed(old) /\ old.pc = "selectOrder"
  BY ReqOwner DEF SelectOrder
<1>2. PICK d : Goto(r, [old EXCEPT !.pc = "updateOrder", !.cols = d])
  BY DEF SelectOrder
<1> DEFINE q == [old EXCEPT !.pc = "updateOrder", !.cols = d]
<1>3. q.op = old.op /\ q.pc = "updateOrder" /\ q.rows = old.rows /\ q.wa = old.wa
      /\ q.order = old.order /\ q.tx = old.tx
  BY <1>1 DEF Request
<1>4. req' = [req EXCEPT ![r] = q] /\ UNCHANGED <<allocs, order>>
  BY <1>2 DEF SelectOrder, Goto
<1> HIDE DEF q
<1>5. Owner(q) /\ Backed(q)
  BY <1>1, <1>3
  DEF Owner, LoadsOrder, AtItem, TakesProduct, Restores, CreateIsPrivate, OwnRows,
      InItem, NotOfCreate, LoadedOrders, Backed
<1> QED
  BY <1>4, <1>5, LocalStepKeepsOwn

\* Saving an order does not make it absent, and commits allocations of that order only.
LEMMA UpdateOrderKeepsOwn ==
    ASSUME OwnInv, Inv', NEW r \in Requests, UpdateOrder(r)
    PROVE  OwnInv'
<1> DEFINE q == req[r]
           mine == q.rows[q.order]
<1>1. /\ q \in Request /\ Owner(q) /\ Backed(q) /\ q.order \in Orders
      /\ q.op # "create" /\ mine.status # "ABSENT" /\ OwnRows(q)
  BY ReqOwner
  DEF UpdateOrder, Sound, HasOrder, Owner, LoadsOrder, CreateIsPrivate, NotOfCreate
<1>2. Exists(q.order)
  BY <1>1 DEF Backed, LoadedOrders
<1>3. Flush(r) /\ Goto(r, DoneWithOrder(q))
  BY DEF UpdateOrder
<1>4. PICK row : /\ order' = [order EXCEPT ![q.order] = row]
                 /\ row.status \in {mine.status, order[q.order].status}
  <2> DEFINE row == [status    |-> IF "status" \in q.cols THEN mine.status
                                   ELSE order[q.order].status,
                     pay       |-> IF "pay" \in q.cols THEN mine.pay
                                   ELSE order[q.order].pay,
                     confirmed |-> IF "confirmed" \in q.cols THEN mine.confirmed
                                   ELSE order[q.order].confirmed]
  <2>1. order' = [order EXCEPT ![q.order] = row]
    BY <1>1 DEF UpdateOrder, OwnInv, Inv, TypeOK
  <2>2. row.status \in {mine.status, order[q.order].status}
    OBVIOUS
  <2> QED
    BY <2>1, <2>2
<1>5. /\ order'[q.order].status # "ABSENT"
      /\ \A o \in Orders : Exists(o) => Exists(o)'
  BY <1>1, <1>2, <1>4 DEF Exists, OwnInv, Inv, TypeOK
<1>6. NoOrphanAllocation'
  BY <1>1, <1>3, <1>5, FlushOwn
<1>7. /\ Owner(DoneWithOrder(q))
      /\ LoadedOrders(DoneWithOrder(q)) \subseteq LoadedOrders(q)
  BY <1>1, DoneWithOrderOwner
<1>8. \A o \in LoadedOrders(DoneWithOrder(q)) : Exists(o)'
  BY <1>1, <1>5, <1>7 DEF Backed, LoadedOrders
<1> QED
  BY <1>3, <1>5, <1>6, <1>7, <1>8, StepKeepsOwn DEF Goto

-----------------------------------------------------------------------------
(* The inductive invariant *)

\* Every statement of a running request keeps the invariant.
LEMMA RunKeepsOwn ==
    ASSUME OwnInv, Inv', NEW r \in Requests, Run(r)
    PROVE  OwnInv'
<1>1. CASE DeadlockVictim(r)
  BY <1>1, ThrowKeepsOwn DEF DeadlockVictim
<1> QED
  BY <1>1, CheckAllocationsKeepsOwn, CreateLegacyKeepsOwn, ReadCandidatesKeepsOwn,
     TakeOldestKeepsOwn, FindAllocationsKeepsOwn, ReadBatchKeepsOwn, SelectBatchKeepsOwn,
     UpdateBatchKeepsOwn, InsertAllocationKeepsOwn, MarkRestoredKeepsOwn,
     CommitCreateKeepsOwn, SelectOrderKeepsOwn, UpdateOrderKeepsOwn
  DEF Run

\* The invariant holds at first.
LEMMA InitOwn == Init => OwnInv
<1> SUFFICES ASSUME Init PROVE OwnInv
  OBVIOUS
<1>1. NoOrphanAllocation
  BY DEF Init, NoOrphanAllocation
<1>2. \A r \in Requests : Owner(req[r]) /\ Backed(req[r])
  BY IdleOwner DEF Init, Backed
<1> QED
  BY <1>1, <1>2, InitInv DEF OwnInv

\* Every step keeps the invariant.
LEMMA NextKeepsOwn == OwnInv /\ [Next]_vars => OwnInv'
<1> SUFFICES ASSUME OwnInv, [Next]_vars PROVE OwnInv'
  OBVIOUS
<1>1. Inv'
  BY NextKeepsInv DEF OwnInv
<1>2. CASE UNCHANGED <<allocs, order, req>>
  BY <1>1, <1>2 DEF OwnInv, NoOrphanAllocation, Exists, Backed, LoadedOrders
<1>3. ASSUME NEW r \in Requests, Begin(r) \/ Run(r) \/ Die(r)
      PROVE  OwnInv'
  BY <1>1, <1>3, BeginKeepsOwn, RunKeepsOwn, ThrowKeepsOwn DEF Die
<1>4. (\E r \in Requests : Begin(r) \/ Run(r) \/ Die(r)) \/ UNCHANGED <<allocs, order, req>>
  BY DEF Next, GrowOld, Expire, vars
<1> QED
  BY <1>2, <1>3, <1>4

\* No allocation ever refers to an order that was never committed, or to a batch of
\* another product: reference_id has no foreign key, so only the transaction of
\* OrdersService.create and the code of consumeStock keep it right.
THEOREM AllocationsBelong == Spec => []NoOrphanAllocation
<1>1. OwnInv => NoOrphanAllocation
  BY DEF OwnInv
<1> QED
  BY <1>1, InitOwn, NextKeepsOwn, PTL DEF Spec
=============================================================================
