--------------------------- MODULE PromiseProofs ---------------------------
(***************************************************************************)
(* What OrdersService promises about the stock of an order.  A transaction *)
(* that takes stock for an order takes all of it, however requests overlap *)
(* and whichever of them die.  Requests that do not overlap, moreover,     *)
(* leave every batch on sale exactly while it has units and empty the      *)
(* batches of a product oldest first.                                      *)
(***************************************************************************)
EXTENDS ReservationsProofs, Sums

(* The units of some allocations, and of those for one item of the order.    *)
Qty(a, S) == MapThenSumSet(LAMBDA k : a[k].qty, S)
OfItem(a, i) == {k \in DOMAIN a : a[k].line = i}
Taken(a, i) == Qty(a, OfItem(a, i))
\* The positions of the rows w of an item, once they stand behind the rows a.
Added(a, w, o, i) ==
    {k \in DOMAIN (a \o w) : k > Len(a) /\ (a \o w)[k].order = o /\ (a \o w)[k].line = i}

(* What a transaction has taken so far: all of the items behind it, nothing   *)
(* of those ahead, and of the current one all but what it still needs and     *)
(* what it has in hand.  A handler without a transaction buffers nothing.     *)
InHandNow(q) == IF q.pc \in {"update", "alloc"} THEN q.ent.qty ELSE 0
Share(q, i) ==
    IF i < q.line THEN Cart[q.order][i].qty
    ELSE IF i = q.line THEN Cart[q.order][i].qty - q.need - InHandNow(q)
    ELSE 0
TakesShare(q) == \A i \in DOMAIN Cart[q.order] : Taken(q.wa, i) = Share(q, i)
TakesAll(q) == \A i \in DOMAIN Cart[q.order] : Taken(q.wa, i) = Cart[q.order][i].qty

Restoring(q) ==
    q.pc \in {"find", "batch", "select", "mark"} \/ (q.pc = "update" /\ q.ent.alloc # 0)
Progress(q) ==
    /\ ~q.tx \/ q.pc = "has" \/ Restoring(q) => q.wa = <<>>
    /\ q.tx /\ InItem(q) => TakesShare(q)
    /\ q.pc \in {"commit", "selectOrder", "updateOrder"} /\ q.wa # <<>> => TakesAll(q)

ProgressInv == OwnInv /\ \A r \in Requests : Progress(req[r])

-----------------------------------------------------------------------------
(* Sums of allocations *)

\* The units of some allocations are a sum over a function of their positions.
LEMMA QtySum ==
    ASSUME NEW a, NEW S
    PROVE  Qty(a, S) = SumOf([k \in S |-> a[k].qty], S)
<1> DEFINE f == [k \in S |-> a[k].qty]
           adds(g) == [s \in SUBSET S |->
                         IF s = {} THEN 0 ELSE a[First(s)].qty + g[s \ {First(s)}]]
<1>1. \A g : (g = adds(g)) <=> Adds(g, f, S)
  <2> SUFFICES ASSUME NEW g
               PROVE  adds(g) = [s \in SUBSET S |->
                                   IF s = {} THEN 0 ELSE f[First(s)] + g[s \ {First(s)}]]
    BY DEF Adds
  <2>1. ASSUME NEW s \in SUBSET S, s # {}
        PROVE  f[First(s)] = a[First(s)].qty
    BY <2>1, FirstIsIn
  <2> HIDE DEF f
  <2> QED
    BY <2>1
<1>2. (CHOOSE g : g = adds(g)) = (CHOOSE g : Adds(g, f, S))
  <2> HIDE DEF f, adds
  <2> QED
    BY <1>1
<1>3. Qty(a, S) = (CHOOSE g : g = adds(g))[S]
  BY DEF Qty, MapThenSumSet, MapThenFoldSet, First
<1> QED
  BY <1>2, <1>3, SumUnfolds

\* The positions of a sequence of allocations, and the quantities there.
LEMMA RowsOf ==
    ASSUME NEW a \in Seq(AllocationRow)
    PROVE  /\ IsFiniteSet(DOMAIN a)
           /\ \A k \in DOMAIN a : a[k].qty \in Nat \ {0} /\ a[k].line \in Nat
<1>1. DOMAIN a = 1..Len(a) /\ Len(a) \in Nat
  OBVIOUS
<1>2. IsFiniteSet(DOMAIN a)
  BY <1>1, FS_Interval
<1>3. ASSUME NEW k \in DOMAIN a
      PROVE  a[k] \in AllocationRow
  OBVIOUS
<1> QED
  BY <1>2, <1>3 DEF AllocationRow

\* Nothing is taken by no allocations.
LEMMA TakenNone == ASSUME NEW i PROVE Taken(<<>>, i) = 0
<1>1. OfItem(<<>>, i) = {}
  BY DEF OfItem
<1> QED
  BY <1>1, QtySum, SumEmpty DEF Taken

\* An allocation more adds its units to its own item.
LEMMA TakenMore ==
    ASSUME NEW a \in Seq(AllocationRow), NEW row \in AllocationRow, NEW i
    PROVE  /\ Taken(a, i) \in Int
           /\ Taken(Append(a, row), i) = Taken(a, i) + (IF row.line = i THEN row.qty ELSE 0)
<1> DEFINE b == Append(a, row)
           n == Len(a) + 1
           S == OfItem(a, i)
           f == [k \in S |-> a[k].qty]
           g == [k \in OfItem(b, i) |-> b[k].qty]
<1>1. b \in Seq(AllocationRow) /\ DOMAIN b = DOMAIN a \cup {n} /\ n \notin DOMAIN a
      /\ b[n] = row /\ \A k \in DOMAIN a : b[k] = a[k]
  OBVIOUS
<1>2. IsFiniteSet(S) /\ \A k \in S : f[k] \in Int
  <2>1. S \subseteq DOMAIN a
    BY DEF OfItem
  <2>2. IsFiniteSet(S)
    BY <2>1, RowsOf, FS_Subset
  <2>3. ASSUME NEW k \in S
        PROVE  f[k] \in Int
    <3>1. a[k].qty \in Nat
      BY <2>1, RowsOf
    <3> QED
      BY <3>1
  <2> QED
    BY <2>2, <2>3
<1>3. Taken(a, i) = SumOf(f, S) /\ Taken(b, i) = SumOf(g, OfItem(b, i))
  BY QtySum DEF Taken
<1>4. SumOf(f, S) \in Int
  <2> HIDE DEF f, S
  <2> QED
    BY <1>2, SumType
<1>5. row.qty \in Int
  BY DEF AllocationRow
<1>6. CASE row.line # i
  <2>1. OfItem(b, i) = S
    BY <1>1, <1>6 DEF OfItem
  <2>2. g = f
    BY <1>1, <2>1 DEF OfItem
  <2> HIDE DEF g, f, S, b
  <2> QED
    BY <1>3, <1>4, <1>6, <2>1, <2>2 DEF b
<1>7. CASE row.line = i
  <2>1. OfItem(b, i) = S \cup {n} /\ n \notin S
    BY <1>1, <1>7 DEF OfItem
  <2>2. g[n] = row.qty /\ \A k \in S : g[k] = f[k]
    BY <1>1, <2>1 DEF OfItem
  <2> HIDE DEF g, f, S, b
  <2>3. SumOf(g, S \cup {n}) = g[n] + SumOf(g, S)
    BY <1>2, <1>5, <2>1, <2>2, SumInsert
  <2>4. SumOf(g, S) = SumOf(f, S)
    BY <1>2, <2>2, SumSame
  <2> QED
    BY <1>3, <1>4, <1>5, <1>7, <2>1, <2>2, <2>3, <2>4 DEF b
<1> QED
  BY <1>3, <1>4, <1>6, <1>7

\* The units that the rows after the old ones add to an item are those of the rows added.
LEMMA TakenFlushed ==
    ASSUME NEW a \in Seq(AllocationRow), NEW w \in Seq(AllocationRow), NEW i, NEW o,
           \A k \in DOMAIN w : w[k].order = o
    PROVE  Qty(a \o w, Added(a, w, o, i)) = Taken(w, i)
<1> DEFINE b == a \o w
           n == Len(a)
           S == OfItem(w, i)
           T == {k \in DOMAIN b : k > n /\ b[k].order = o /\ b[k].line = i}
           h == [k \in S |-> k + n]
           f == [k \in T |-> b[k].qty]
           g == [k \in S |-> w[k].qty]
<1>1. /\ n \in Nat /\ DOMAIN w = 1..Len(w) /\ Len(w) \in Nat
      /\ DOMAIN b = 1..(n + Len(w)) /\ \A k \in DOMAIN w : b[k + n] = w[k]
  OBVIOUS
<1>2. S \subseteq DOMAIN w /\ S \subseteq Nat
  BY <1>1 DEF OfItem
<1>3. T = {h[k] : k \in S}
  <2>1. ASSUME NEW k \in S
        PROVE  h[k] \in T
    <3>1. h[k] = k + n /\ k \in 1..Len(w) /\ w[k].line = i
      BY <1>1, <1>2 DEF OfItem
    <3>2. k + n \in DOMAIN b /\ k + n > n /\ b[k + n] = w[k]
      BY <1>1, <3>1
    <3> QED
      BY <1>1, <3>1, <3>2
  <2>2. ASSUME NEW x \in T
        PROVE  \E k \in S : x = h[k]
    <3>1. x \in 1..(n + Len(w)) /\ x > n
      BY <1>1
    <3>2. x - n \in DOMAIN w /\ (x - n) + n = x
      BY <1>1, <3>1
    <3>3. b[x] = w[x - n]
      BY <1>1, <3>2
    <3>4. x - n \in S
      BY <3>2, <3>3 DEF OfItem
    <3> QED
      BY <3>2, <3>4
  <2> HIDE DEF h, T, S
  <2> QED
    BY <2>1, <2>2
<1>4. ASSUME NEW k \in S
      PROVE  g[k] = f[h[k]] /\ g[k] \in Int
  <2>1. h[k] = k + n /\ k \in DOMAIN w /\ h[k] \in T
    BY <1>2, <1>3
  <2>2. w[k].qty \in Int
    BY <2>1, RowsOf
  <2> QED
    BY <1>1, <2>1, <2>2
<1>5. \A x, y \in S : h[x] = h[y] => x = y
  BY <1>1, <1>2
<1>6. IsFiniteSet(S)
  BY <1>2, RowsOf, FS_Subset
<1>7. Qty(b, T) = SumOf(f, T) /\ Taken(w, i) = SumOf(g, S)
  BY QtySum DEF Taken
<1> HIDE DEF f, g, h, S, T
<1>8. SumOf(f, {h[k] : k \in S}) = SumOf(g, S)
  BY <1>4, <1>5, <1>6, SumImage
<1>9. Qty(b, T) = Taken(w, i)
  BY <1>3, <1>7, <1>8
<1> QED
  BY <1>9 DEF T, Added

-----------------------------------------------------------------------------
(* The operators that compute the next state of a request *)

\* A request at rest has taken nothing.
LEMMA IdleProgress == Progress(Idle)
  BY DEF Progress, Restoring, InItem, Idle

\* A handler that buffers nothing and is at no item of a transaction has made its progress.
LEMMA NothingTaken ==
    ASSUME NEW q, q.wa = <<>>, q.tx => ~InItem(q)
    PROVE  Progress(q)
  BY DEF Progress

\* A cron job that goes on with its next order has taken nothing.
LEMMA DoneWithOrderProgress ==
    ASSUME NEW q \in Request
    PROVE  Progress(DoneWithOrder(q))
<1> DEFINE rest == [q.rows EXCEPT ![q.order] = NoRow]
           next == [Idle EXCEPT !.op = q.op, !.pc = "find", !.rows = rest]
<1>1. next.pc = "find" /\ next.wa = <<>>
  BY IdleType, IdleOwner DEF Request
<1>2. ~InItem(next)
  BY <1>1 DEF InItem
<1> HIDE DEF next
<1>3. Progress(next)
  BY <1>1, <1>2, NothingTaken
<1> QED
  BY <1>3, IdleProgress DEF DoneWithOrder, next

\* Going on after an allocation was restored takes nothing.
LEMMA AfterRestoreProgress ==
    ASSUME NEW q \in Request, q.wa = <<>>
    PROVE  Progress(AfterRestore(q))
<1>1. ASSUME NEW pc \in {"batch", "selectOrder"}
      PROVE  Progress([q EXCEPT !.pc = pc])
  <2> DEFINE x == [q EXCEPT !.pc = pc]
  <2>1. x.pc = pc /\ x.wa = <<>>
    BY DEF Request
  <2> HIDE DEF x
  <2>2. Progress(x)
    BY <2>1, NothingTaken DEF InItem
  <2> QED
    BY <2>2 DEF x
<1> QED
  BY <1>1, DoneWithOrderProgress DEF AfterRestore

\* The first item begins with nothing taken and all of it needed.
LEMMA FirstItemProgress ==
    ASSUME NEW q \in Request, q.order \in Orders, q.wa = <<>>
    PROVE  Progress(FirstItem(q))
<1> DEFINE n == Cart[q.order][1].qty
           x == [q EXCEPT !.pc = "read", !.line = 1, !.need = n]
<1>1. Cart[q.order] \in Seq(Items) /\ Len(Cart[q.order]) > 0
  BY ConstantsAssumption
<1>2. 1 \in DOMAIN Cart[q.order] /\ DOMAIN Cart[q.order] = 1..Len(Cart[q.order])
  BY <1>1
<1>3. n \in Int
  BY <1>2, ItemOfCart
<1>4. x.pc = "read" /\ x.order = q.order /\ x.line = 1 /\ x.need = n /\ x.wa = <<>>
  BY DEF Request
<1>5. FirstItem(q) = x
  BY DEF FirstItem
<1> HIDE DEF x
<1>6. TakesShare(x)
  <2> SUFFICES ASSUME NEW i \in DOMAIN Cart[x.order]
               PROVE  Taken(x.wa, i) = Share(x, i)
    BY DEF TakesShare
  <2>1. Taken(x.wa, i) = 0
    BY <1>4, TakenNone
  <2>2. i \in Nat \ {0}
    BY <1>2, <1>4
  <2>3. ~(i < 1)
    BY <2>2
  <2>4. i = 1 => Cart[x.order][i].qty = n
    BY <1>4 DEF n
  <2> HIDE DEF n
  <2> QED
    BY <1>3, <1>4, <2>1, <2>2, <2>3, <2>4 DEF Share, InHandNow
<1>7. Progress(x)
  BY <1>4, <1>6 DEF Progress, Restoring, InItem
<1> QED
  BY <1>5, <1>7

\* After the batch in hand was taken, the current item still lacks what is needed; the
\* next item begins, or the order is complete, only when nothing is.
LEMMA AfterConsumeProgress ==
    ASSUME NEW q \in Request, q.order \in Orders, q.line \in DOMAIN Cart[q.order],
           ~q.tx => q.wa = <<>>,
           q.tx => \A i \in DOMAIN Cart[q.order] :
                     Taken(q.wa, i) = IF i < q.line THEN Cart[q.order][i].qty
                                      ELSE IF i = q.line THEN Cart[q.order][i].qty - q.need
                                      ELSE 0
    PROVE  Progress(AfterConsume(q))
<1> DEFINE cart == Cart[q.order]
<1>1. Cart[q.order] \in Seq(Items) /\ q.line \in Nat /\ q.need \in Nat
  BY ConstantsAssumption DEF Request
<1>2. DOMAIN cart = 1..Len(cart) /\ Len(cart) \in Nat
  BY <1>1
<1>3. \A i \in DOMAIN cart : cart[i].qty \in Nat \ {0}
  BY ItemOfCart
<1>4. CASE q.need > 0
  <2> DEFINE x == [q EXCEPT !.pc = "take"]
  <2>1. x.pc = "take" /\ x.order = q.order /\ x.line = q.line /\ x.need = q.need
        /\ x.wa = q.wa /\ x.tx = q.tx
    BY DEF Request
  <2>2. AfterConsume(q) = x
    BY <1>4 DEF AfterConsume
  <2> HIDE DEF x
  <2>3. ASSUME q.tx
        PROVE  TakesShare(x)
    <3> SUFFICES ASSUME NEW i \in DOMAIN Cart[q.order]
                 PROVE  Taken(x.wa, i) = Share(x, i)
      BY <2>1 DEF TakesShare
    <3>1. cart[i].qty - q.need - 0 = cart[i].qty - q.need
      BY <1>1, <1>3
    <3> QED
      BY <2>1, <2>3, <3>1 DEF Share, InHandNow
  <2>4. Progress(x)
    BY <2>1, <2>3 DEF Progress, Restoring, InItem
  <2> QED
    BY <2>2, <2>4
<1>5. CASE ~(q.need > 0) /\ q.line < Len(cart)
  <2> DEFINE n == cart[q.line + 1].qty
             x == [q EXCEPT !.pc = "read", !.line = @ + 1, !.need = n, !.plan = NoCandidates]
  <2>1. x.pc = "read" /\ x.order = q.order /\ x.line = q.line + 1 /\ x.need = n
        /\ x.wa = q.wa /\ x.tx = q.tx
    BY DEF Request
  <2>2. AfterConsume(q) = x
    BY <1>5 DEF AfterConsume
  <2>3. q.need = 0
    BY <1>1, <1>5
  <2> HIDE DEF x
  <2>4. ASSUME q.tx
        PROVE  TakesShare(x)
    <3> SUFFICES ASSUME NEW i \in DOMAIN Cart[q.order]
                 PROVE  Taken(x.wa, i) = Share(x, i)
      BY <2>1 DEF TakesShare
    <3>1. i \in Nat /\ cart[i].qty \in Nat
      BY <1>2, <1>3
    <3>2. Taken(x.wa, i) = IF i <= q.line THEN cart[i].qty ELSE 0
      BY <1>1, <2>1, <2>3, <2>4, <3>1
    <3>3. i = q.line + 1 => n = cart[i].qty
      OBVIOUS
    <3>4. Share(x, i) = IF i < q.line + 1 THEN cart[i].qty
                        ELSE IF i = q.line + 1 THEN cart[i].qty - n - 0 ELSE 0
      BY <2>1 DEF Share, InHandNow
    <3> HIDE DEF n
    <3>5. CASE i <= q.line
      BY <1>1, <3>1, <3>2, <3>4, <3>5
    <3>6. CASE i = q.line + 1
      BY <1>1, <3>1, <3>2, <3>3, <3>4, <3>6
    <3>7. CASE i > q.line + 1
      BY <1>1, <3>1, <3>2, <3>4, <3>7
    <3> QED
      BY <1>1, <3>1, <3>5, <3>6, <3>7
  <2>5. Progress(x)
    BY <2>1, <2>4 DEF Progress, Restoring, InItem
  <2> QED
    BY <2>2, <2>5
<1>6. CASE ~(q.need > 0) /\ ~(q.line < Len(cart))
  <2>1. PICK pc \in {"commit", "selectOrder"} :
          AfterConsume(q) = [q EXCEPT !.pc = pc, !.plan = NoCandidates]
    BY <1>6 DEF AfterConsume
  <2> DEFINE x == [q EXCEPT !.pc = pc, !.plan = NoCandidates]
  <2>2. x.pc = pc /\ x.order = q.order /\ x.wa = q.wa /\ x.tx = q.tx
    BY DEF Request
  <2> HIDE DEF x
  <2>3. ASSUME q.wa # <<>>
        PROVE  TakesAll(x)
    <3> SUFFICES ASSUME NEW i \in DOMAIN Cart[q.order]
                 PROVE  Taken(x.wa, i) = cart[i].qty
      BY <2>2 DEF TakesAll
    <3>1. i \in Nat /\ cart[i].qty \in Nat /\ i <= q.line /\ q.need = 0
      BY <1>1, <1>2, <1>3, <1>6
    <3> QED
      BY <1>1, <2>2, <2>3, <3>1
  <2>4. Progress(x)
    BY <2>2, <2>3 DEF Progress, Restoring, InItem
  <2> QED
    BY <2>1, <2>4 DEF x
<1> QED
  BY <1>4, <1>5, <1>6

-----------------------------------------------------------------------------
(* Steps of a request *)

\* Request r goes on to a state that keeps account of what it has taken.
GoesOn(r) == \E q : Progress(q) /\ req' = [req EXCEPT ![r] = q]

\* What is known of the request that takes a step.
LEMMA ReqProgress ==
    ASSUME ProgressInv, NEW r \in Requests
    PROVE  /\ req[r] \in Request /\ Sound(req[r]) /\ Owner(req[r]) /\ Progress(req[r])
           /\ req[r].order \in Orders \/ req[r].pc \in {"idle", "find"}
  BY ReqOwner DEF ProgressInv, Sound, HasOrder

\* A request that ends by an exception has taken nothing.
LEMMA ThrowGoesOn == ASSUME NEW r \in Requests, Throw(r) PROVE GoesOn(r)
  BY IdleProgress DEF Throw, Goto, GoesOn

\* A handler of an existing order begins with nothing taken.
LEMMA HandlerGoesOn ==
    ASSUME NEW r \in Requests, NEW q, q.pc \in {"has", "find", "selectOrder"}, q.wa = <<>>,
           Call(r, q)
    PROVE  GoesOn(r)
<1>1. Progress(q)
  BY NothingTaken DEF InItem
<1> QED
  BY <1>1 DEF Call, Start, GoesOn

\* create begins with its first item.
LEMMA CreateGoesOn ==
    ASSUME NEW r \in Requests, NEW o \in Orders, BeginCreate(r, o)
    PROVE  GoesOn(r)
<1> DEFINE q == [Idle EXCEPT !.op = "create", !.tx = TRUE, !.order = o,
                             !.rows = Loaded(o, NewOrder)]
<1>1. Loaded(o, NewOrder) \in [Orders -> OrderRow]
  BY LoadedType DEF NewOrder, OrderRow, OrderStatus, PaymentStatus
<1>2. q \in Request
  BY <1>1, IdleType DEF Request, Ops
<1>3. q.order = o /\ q.wa = <<>>
  BY DEF Idle
<1>4. Call(r, FirstItem(q))
  BY DEF BeginCreate
<1> HIDE DEF q
<1>5. Progress(FirstItem(q))
  BY <1>2, <1>3, FirstItemProgress
<1> QED
  BY <1>4, <1>5 DEF Call, Start, GoesOn

\* A cron job begins with nothing taken.
LEMMA TickGoesOn ==
    ASSUME NEW r \in Requests, NEW op, NEW rows,
           Tick(r, [Idle EXCEPT !.op = op, !.pc = "find", !.rows = rows])
    PROVE  GoesOn(r)
<1> DEFINE q == [Idle EXCEPT !.op = op, !.pc = "find", !.rows = rows]
<1>1. q.pc = "find" /\ q.wa = <<>>
  BY DEF Idle
<1> HIDE DEF q
<1>2. Progress(q)
  BY <1>1, NothingTaken DEF InItem
<1> QED
  BY <1>2, IdleProgress DEF Tick, Start, GoesOn, q

\* Whatever begins has taken nothing.
LEMMA BeginGoesOn == ASSUME NEW r \in Requests, Begin(r) PROVE GoesOn(r)
<1>1. CASE BeginAutoCancel(r)
  BY <1>1, TickGoesOn DEF BeginAutoCancel
<1>2. CASE BeginRelease(r)
  BY <1>2, TickGoesOn DEF BeginRelease
<1>3. ASSUME NEW o \in Orders, BeginSubmit(r, o)
      PROVE  GoesOn(r)
  <2> DEFINE begins(row) == [Idle EXCEPT !.op = "submit", !.pc = "selectOrder",
                                         !.order = o, !.rows = Loaded(o, row)]
  <2>1. PICK row : Call(r, begins(row))
    BY <1>3 DEF BeginSubmit
  <2>2. begins(row).pc = "selectOrder" /\ begins(row).wa = <<>>
    BY DEF Idle
  <2> HIDE DEF begins
  <2> QED
    BY <2>1, <2>2, HandlerGoesOn
<1>4. ASSUME NEW o \in Orders, BeginConfirm(r, o)
      PROVE  GoesOn(r)
  <2> DEFINE begins(row) == [Idle EXCEPT !.op = "confirm", !.pc = "has", !.tx = TRUE,
                                         !.order = o, !.rows = Loaded(o, row)]
  <2>1. PICK row : Call(r, begins(row))
    BY <1>4 DEF BeginConfirm
  <2>2. begins(row).pc = "has" /\ begins(row).wa = <<>>
    BY DEF Idle
  <2> HIDE DEF begins
  <2> QED
    BY <2>1, <2>2, HandlerGoesOn
<1>5. ASSUME NEW o \in Orders, NEW to \in Targets, BeginUpdate(r, o, to)
      PROVE  GoesOn(r)
  <2> DEFINE rows == Loaded(o, [order[o] EXCEPT !.status = to])
             begins(pc) == [Idle EXCEPT !.op = "update", !.pc = pc, !.order = o,
                                        !.rows = rows]
  <2>1. PICK pc \in {"find", "has", "selectOrder"} : Call(r, begins(pc))
    BY <1>5 DEF BeginUpdate
  <2>2. begins(pc).pc = pc /\ begins(pc).wa = <<>>
    BY DEF Idle
  <2> HIDE DEF begins
  <2> QED
    BY <2>1, <2>2, HandlerGoesOn
<1> QED
  BY <1>1, <1>2, <1>3, <1>4, <1>5, CreateGoesOn DEF Begin

\* A consumption starts with nothing taken.
LEMMA CheckAllocationsGoesOn ==
    ASSUME ProgressInv, NEW r \in Requests, CheckAllocations(r)
    PROVE  GoesOn(r)
<1> DEFINE old == req[r]
           x == [old EXCEPT !.pc = "selectOrder"]
<1>1. old \in Request /\ Progress(old) /\ old.pc = "has" /\ old.order \in Orders
  BY ReqProgress DEF CheckAllocations
<1>2. old.wa = <<>>
  BY <1>1 DEF Progress
<1>3. x.pc = "selectOrder" /\ x.wa = <<>>
  BY <1>1, <1>2 DEF Request
<1> HIDE DEF x
<1>4. Progress(x)
  BY <1>3, NothingTaken DEF InItem
<1>5. Progress(FirstItem(old))
  BY <1>1, <1>2, FirstItemProgress
<1>6. Goto(r, x) \/ Goto(r, FirstItem(old))
  BY DEF CheckAllocations, x
<1> QED
  BY <1>4, <1>5, <1>6 DEF Goto, GoesOn

\* A LEGACY batch takes nothing from anyone.
LEMMA CreateLegacyGoesOn ==
    ASSUME ProgressInv, NEW r \in Requests, CreateLegacy(r)
    PROVE  GoesOn(r)
<1>1. CASE Throw(r)
  BY <1>1, ThrowGoesOn
<1>2. CASE ~Throw(r)
  <2>1. PICK b, row : Goto(r, OverlayBatch(req[r], b, row))
    BY <1>2 DEF CreateLegacy
  <2> DEFINE q == OverlayBatch(req[r], b, row)
  <2>2. req[r] \in Request /\ Progress(req[r]) /\ req[r].pc = "read"
    BY ReqProgress DEF CreateLegacy
  <2>3. q.pc = "read" /\ q.wa = req[r].wa /\ q.order = req[r].order
        /\ q.line = req[r].line /\ q.need = req[r].need /\ q.tx = req[r].tx
    BY <2>2 DEF OverlayBatch, Request
  <2> HIDE DEF q
  <2>4. Progress(q)
    BY <2>2, <2>3 DEF Progress, Restoring, InItem, TakesShare, Share, InHandNow
  <2> QED
    BY <2>1, <2>4 DEF Goto, GoesOn, q
<1> QED
  BY <1>1, <1>2

\* Reading the candidates takes nothing yet.
LEMMA ReadCandidatesGoesOn ==
    ASSUME ProgressInv, NEW r \in Requests, ReadCandidates(r)
    PROVE  GoesOn(r)
<1>1. CASE Throw(r)
  BY <1>1, ThrowGoesOn
<1>2. CASE ~Throw(r)
  <2> DEFINE old == req[r]
             plan == [b \in Batches |-> IF b \in Usable(r) THEN Sees(r)[b].avail ELSE 0]
             q == [old EXCEPT !.pc = "take", !.plan = plan]
  <2>1. old \in Request /\ Progress(old) /\ old.pc = "read"
    BY ReqProgress DEF ReadCandidates
  <2>2. Goto(r, q)
    BY <1>2 DEF ReadCandidates
  <2> HIDE DEF plan
  <2>3. q.pc = "take" /\ q.wa = old.wa /\ q.order = old.order /\ q.line = old.line
        /\ q.need = old.need /\ q.tx = old.tx
    BY <2>1 DEF Request
  <2> HIDE DEF q
  <2>4. Progress(q)
    BY <2>1, <2>3 DEF Progress, Restoring, InItem, TakesShare, Share, InHandNow
  <2> QED
    BY <2>2, <2>4 DEF Goto, GoesOn
<1> QED
  BY <1>1, <1>2

\* What the next batch gives is in hand, and no longer needed.
LEMMA TakeOldestGoesOn ==
    ASSUME ProgressInv, NEW r \in Requests, TakeOldest(r)
    PROVE  GoesOn(r)
<1> DEFINE old == req[r]
           consumed(b) == Consumed(old.plan[b], old.need)
           ent(b) == [batch |-> b, avail |-> old.plan[b] - consumed(b), qty |-> consumed(b),
                      alloc |-> 0, status |-> StatusFor(old.plan[b] - consumed(b))]
           next(b) == [old EXCEPT !.pc = "update", !.ent = ent(b),
                                  !.need = @ - consumed(b), !.plan[b] = 0,
                                  !.cols = Differs(ent(b), Sees(r)[b])]
<1>1. PICK b \in Candidates(old) : Goto(r, next(b))
  BY DEF TakeOldest
<1> DEFINE e == ent(b)
           n == consumed(b)
           q == next(b)
<1>2. old \in Request /\ Progress(old) /\ old.pc = "take" /\ old.order \in Orders
  BY ReqProgress DEF TakeOldest
<1>3. e.qty = n /\ e.alloc = 0
  OBVIOUS
<1>4. n \in Int /\ old.need \in Int
  BY <1>1, <1>2 DEF Consumed, Candidates, Request
<1>5. Goto(r, q)
  BY <1>1
<1> HIDE DEF e, consumed
<1>6. q.pc = "update" /\ q.wa = old.wa /\ q.order = old.order /\ q.line = old.line
      /\ q.need = old.need - n /\ q.tx = old.tx
  BY <1>2 DEF Request
<1>7. q.ent = e
  BY <1>2 DEF Request, e
<1> HIDE DEF q
<1>8. ASSUME NEW i \in DOMAIN Cart[old.order]
      PROVE  Share(q, i) = Share(old, i)
  <2>1. Cart[old.order][i].qty \in Int
    BY <1>2, ItemOfCart
  <2>2. Cart[old.order][i].qty - (old.need - n) - n = Cart[old.order][i].qty - old.need - 0
    BY <1>4, <2>1
  <2> QED
    BY <1>2, <1>3, <1>6, <1>7, <2>2 DEF Share, InHandNow
<1>9. Progress(q)
  BY <1>2, <1>3, <1>6, <1>7, <1>8 DEF Progress, Restoring, InItem, TakesShare
<1> QED
  BY <1>5, <1>9 DEF Goto, GoesOn

\* An order whose stock is given back holds nothing that was taken for it meanwhile.
LEMMA FindAllocationsGoesOn ==
    ASSUME ProgressInv, NEW r \in Requests, FindAllocations(r)
    PROVE  GoesOn(r)
<1> DEFINE old == req[r]
<1>1. PICK o \in LoadedOrders(old) :
        Goto(r, AfterRestore([old EXCEPT !.order = o, !.todo = ActiveAllocs(o)]))
  BY DEF FindAllocations
<1> DEFINE q == [old EXCEPT !.order = o, !.todo = ActiveAllocs(o)]
<1>2. old \in Request /\ Progress(old) /\ old.pc = "find"
  BY ReqProgress DEF FindAllocations
<1>3. ActiveAllocs(o) \in SUBSET Nat /\ o \in Orders
  BY <1>1 DEF ActiveAllocs, LoadedOrders, ProgressInv, OwnInv, Inv, TypeOK
<1>4. q \in Request /\ q.wa = old.wa
  BY <1>2, <1>3 DEF Request
<1> HIDE DEF q
<1>5. Progress(AfterRestore(q))
  BY <1>2, <1>4, AfterRestoreProgress DEF Progress, Restoring
<1> QED
  BY <1>1, <1>5 DEF Goto, GoesOn, q

\* Reading the batch of an allocation takes nothing.
LEMMA ReadBatchGoesOn ==
    ASSUME ProgressInv, NEW r \in Requests, ReadBatch(r)
    PROVE  GoesOn(r)
<1> DEFINE old == req[r]
<1>1. PICK todo, ent : Goto(r, [old EXCEPT !.pc = "select", !.todo = todo, !.ent = ent])
  BY DEF ReadBatch
<1> DEFINE q == [old EXCEPT !.pc = "select", !.todo = todo, !.ent = ent]
<1>2. old \in Request /\ Progress(old) /\ old.pc = "batch"
  BY ReqProgress DEF ReadBatch
<1>3. q.pc = "select" /\ q.wa = old.wa
  BY <1>2 DEF Request
<1> HIDE DEF q
<1>4. Progress(q)
  BY <1>2, <1>3, NothingTaken DEF Progress, Restoring, InItem
<1> QED
  BY <1>1, <1>4 DEF Goto, GoesOn, q

\* Nor does the SELECT of its save.
LEMMA SelectBatchGoesOn ==
    ASSUME ProgressInv, NEW r \in Requests, SelectBatch(r)
    PROVE  GoesOn(r)
<1> DEFINE old == req[r]
           d == Differs(old.ent, Sees(r)[old.ent.batch])
           q == [old EXCEPT !.pc = "update", !.cols = d]
<1>1. old \in Request /\ Progress(old) /\ Owner(old) /\ old.pc = "select"
  BY ReqProgress DEF SelectBatch
<1>2. Goto(r, q)
  BY DEF SelectBatch
<1> HIDE DEF d
<1>3. q.pc = "update" /\ q.wa = old.wa /\ q.ent = old.ent
  BY <1>1 DEF Request
<1> HIDE DEF q
<1>4. q.ent.alloc # 0
  BY <1>1, <1>3 DEF Owner, Restores
<1>5. Progress(q)
  BY <1>1, <1>3, <1>4, NothingTaken DEF Progress, Restoring, InItem
<1> QED
  BY <1>2, <1>5 DEF Goto, GoesOn

\* The batch in hand stays in hand while it is saved.
LEMMA UpdateBatchGoesOn ==
    ASSUME ProgressInv, NEW r \in Requests, UpdateBatch(r)
    PROVE  GoesOn(r)
<1> DEFINE old == req[r]
           pc == IF old.ent.alloc = 0 THEN "alloc" ELSE "mark"
           next == [old EXCEPT !.pc = pc, !.cols = {}]
<1>1. old \in Request /\ Progress(old) /\ old.pc = "update"
  BY ReqProgress DEF UpdateBatch
<1>2. PICK b, row : Goto(r, next) \/ Goto(r, OverlayBatch(next, b, row))
  BY DEF UpdateBatch
<1>3. PICK q : (q = next \/ q = OverlayBatch(next, b, row)) /\ Goto(r, q)
  BY <1>2
<1>4. next \in Request /\ next.pc = pc /\ next.wa = old.wa /\ next.order = old.order
      /\ next.tx = old.tx /\ next.ent = old.ent /\ next.line = old.line
      /\ next.need = old.need
  BY <1>1 DEF Request, Pcs
<1> HIDE DEF next
<1>5. q.pc = pc /\ q.wa = old.wa /\ q.order = old.order /\ q.tx = old.tx
      /\ q.ent = old.ent /\ q.line = old.line /\ q.need = old.need
  BY <1>3, <1>4 DEF OverlayBatch, Request
<1>6. Progress(q)
  BY <1>1, <1>5 DEF Progress, Restoring, InItem, TakesShare, Share, InHandNow
<1> QED
  BY <1>3, <1>6 DEF Goto, GoesOn

\* After the save of an allocation, with or without the movement that follows.
LEMMA PostGoesOn ==
    ASSUME NEW r \in Requests, NEW done \in Request, ~InSave(done), Progress(done),
           Post(r, done)
    PROVE  GoesOn(r)
<1> DEFINE p == ProductOf[req[r].ent.batch]
<1>1. CASE req' = [req EXCEPT ![r] = Idle]
  BY <1>1, IdleProgress DEF GoesOn
<1>2. CASE ~(req' = [req EXCEPT ![r] = Idle])
  <2>1. PICK x : req' = [req EXCEPT ![r] = [done EXCEPT !.ent = NoEntity, !.wl[p] = x]]
    BY <1>2 DEF Post, Goto
  <2> DEFINE q == [done EXCEPT !.ent = NoEntity, !.wl[p] = x]
  <2>2. q.pc = done.pc /\ q.wa = done.wa /\ q.order = done.order /\ q.tx = done.tx
        /\ q.line = done.line /\ q.need = done.need
    BY DEF Request
  <2>3. req' = [req EXCEPT ![r] = q]
    BY <2>1
  <2> HIDE DEF q
  <2>4. Progress(q)
    BY <2>2 DEF Progress, Restoring, InItem, InSave, TakesShare, TakesAll, Share, InHandNow
  <2> QED
    BY <2>3, <2>4 DEF GoesOn
<1> QED
  BY <1>1, <1>2

\* The units in hand become units taken for the current item.
LEMMA InsertAllocationGoesOn ==
    ASSUME ProgressInv, NEW r \in Requests, InsertAllocation(r)
    PROVE  GoesOn(r)
<1> DEFINE q == req[r]
           row == [order |-> q.order, line |-> q.line, batch |-> q.ent.batch,
                   qty |-> q.ent.qty, restored |-> FALSE]
           w == IF q.tx THEN Append(q.wa, row) ELSE q.wa
           x == [q EXCEPT !.wa = w]
<1>1. /\ q \in Request /\ Sound(q) /\ Owner(q) /\ Progress(q) /\ q.pc = "alloc"
      /\ q.order \in Orders /\ q.ent.batch \in Batches /\ q.line \in DOMAIN Cart[q.order]
  BY ReqProgress
  DEF InsertAllocation, Sound, HasOrder, HasBatch, InSave, Owner, AtItem, InItem
<1>2. Post(r, AfterConsume(x))
  BY <1>1 DEF InsertAllocation, Request
<1>3. q.ent.qty \in Nat \ {0} /\ q.line \in Nat /\ q.need \in Nat
  BY <1>1 DEF Sound, MovesUnits, InSave, Request
<1>4. row \in AllocationRow /\ q.wa \in Seq(AllocationRow)
  BY <1>1, <1>3 DEF AllocationRow, Request
<1>5. row.line = q.line /\ row.qty = q.ent.qty
  OBVIOUS
<1> HIDE DEF row
<1>6. w \in Seq(AllocationRow) /\ (~q.tx => w = <<>>)
  BY <1>1, <1>4 DEF Progress
<1>7. ASSUME q.tx, NEW i \in DOMAIN Cart[q.order]
      PROVE  Taken(w, i) = IF i < q.line THEN Cart[q.order][i].qty
                           ELSE IF i = q.line THEN Cart[q.order][i].qty - q.need
                           ELSE 0
  <2>1. Taken(q.wa, i) = Share(q, i)
    BY <1>1, <1>7 DEF Progress, InItem, TakesShare
  <2>2. /\ Taken(q.wa, i) \in Int
        /\ Taken(w, i) = Taken(q.wa, i) + (IF row.line = i THEN row.qty ELSE 0)
    BY <1>4, <1>7, TakenMore
  <2>3. Cart[q.order][i].qty \in Int /\ i \in Nat
    BY <1>1, ItemOfCart
  <2> HIDE DEF w
  <2>4. CASE i = q.line
    BY <1>1, <1>3, <1>5, <2>1, <2>2, <2>3, <2>4 DEF Share, InHandNow
  <2>5. CASE i # q.line
    BY <1>1, <1>3, <1>5, <2>1, <2>2, <2>3, <2>5 DEF Share, InHandNow
  <2> QED
    BY <2>4, <2>5
<1> HIDE DEF w
<1>8. /\ x \in Request /\ x.pc = q.pc /\ x.order = q.order /\ x.need = q.need
      /\ x.ent = q.ent /\ x.wb = q.wb /\ x.wa = w /\ x.line = q.line /\ x.tx = q.tx
  BY <1>1, <1>6 DEF Request
<1> HIDE DEF x
<1>9. Sound(x)
  BY <1>1, <1>8 DEF Sound, HasOrder, HasNeed, HasBatch, MovesUnits, InSave, WritesNoDebt
<1>10. AfterConsume(x) \in Request /\ ~InSave(AfterConsume(x))
  BY <1>1, <1>8, <1>9, AfterConsumeSound DEF Sound
<1>11. Progress(AfterConsume(x))
  BY <1>1, <1>6, <1>7, <1>8, AfterConsumeProgress
<1> QED
  BY <1>2, <1>10, <1>11, PostGoesOn

\* Marking an allocation takes nothing.
LEMMA MarkRestoredGoesOn ==
    ASSUME ProgressInv, NEW r \in Requests, MarkRestored(r)
    PROVE  GoesOn(r)
<1> DEFINE q == req[r]
<1>1. q \in Request /\ Sound(q) /\ Progress(q) /\ q.pc = "mark" /\ q.order \in Orders
  BY ReqProgress DEF MarkRestored
<1>2. Progress(AfterRestore(q))
  BY <1>1, AfterRestoreProgress DEF Progress, Restoring
<1>3. AfterRestore(q) \in Request /\ ~InSave(AfterRestore(q))
  BY <1>1, AfterRestoreSound DEF Sound
<1> QED
  BY <1>2, <1>3, PostGoesOn DEF MarkRestored

\* The SELECT of the order's save takes nothing.
LEMMA SelectOrderGoesOn ==
    ASSUME ProgressInv, NEW r \in Requests, SelectOrder(r)
    PROVE  GoesOn(r)
<1> DEFINE old == req[r]
<1>1. old \in Request /\ Progress(old) /\ old.pc = "selectOrder"
  BY ReqProgress DEF SelectOrder
<1>2. PICK d : Goto(r, [old EXCEPT !.pc = "updateOrder", !.cols = d])
  BY DEF SelectOrder
<1> DEFINE q == [old EXCEPT !.pc = "updateOrder", !.cols = d]
<1>3. q.pc = "updateOrder" /\ q.wa = old.wa /\ q.order = old.order /\ q.tx = old.tx
  BY <1>1 DEF Request
<1> HIDE DEF q
<1>4. Progress(q)
  BY <1>1, <1>3 DEF Progress, Restoring, InItem, TakesAll
<1> QED
  BY <1>2, <1>4 DEF Goto, GoesOn, q

\* Every statement of a request keeps account of what it has taken.
LEMMA WorkGoesOn ==
    ASSUME ProgressInv, NEW r \in Requests, Begin(r) \/ Run(r) \/ Die(r)
    PROVE  GoesOn(r)
<1>1. CASE Begin(r)
  BY <1>1, BeginGoesOn
<1>2. CASE Die(r)
  BY <1>2, ThrowGoesOn DEF Die
<1>3. CASE DeadlockVictim(r)
  BY <1>3, ThrowGoesOn DEF DeadlockVictim
<1>4. CASE CommitCreate(r)
  BY <1>4, IdleProgress DEF CommitCreate, Goto, GoesOn
<1>5. CASE UpdateOrder(r)
  <2>1. req[r] \in Request
    BY ReqProgress
  <2> QED
    BY <1>5, <2>1, DoneWithOrderProgress DEF UpdateOrder, Goto, GoesOn
<1> QED
  BY <1>1, <1>2, <1>3, <1>4, <1>5, CheckAllocationsGoesOn, CreateLegacyGoesOn,
     ReadCandidatesGoesOn, TakeOldestGoesOn, FindAllocationsGoesOn, ReadBatchGoesOn,
     SelectBatchGoesOn, UpdateBatchGoesOn, InsertAllocationGoesOn, MarkRestoredGoesOn,
     SelectOrderGoesOn
  DEF Run

-----------------------------------------------------------------------------
(* A whole order or nothing of it *)

\* The invariant holds at first.
LEMMA InitProgress == Init => ProgressInv
  BY InitOwn, IdleProgress DEF Init, ProgressInv

\* Every step keeps it.
LEMMA NextProgress == ProgressInv /\ [Next]_vars => ProgressInv'
<1> SUFFICES ASSUME ProgressInv, [Next]_vars PROVE ProgressInv'
  OBVIOUS
<1>1. OwnInv'
  BY NextKeepsOwn DEF ProgressInv
<1>2. CASE UNCHANGED req
  BY <1>1, <1>2 DEF ProgressInv
<1>3. ASSUME NEW r \in Requests, Begin(r) \/ Run(r) \/ Die(r)
      PROVE  ProgressInv'
  <2>1. PICK q : Progress(q) /\ req' = [req EXCEPT ![r] = q]
    BY <1>3, WorkGoesOn DEF GoesOn
  <2>2. req \in [Requests -> Request]
    BY DEF ProgressInv, OwnInv, Inv, TypeOK
  <2>3. \A s \in Requests : Progress(req'[s])
    BY <2>1, <2>2 DEF ProgressInv
  <2> QED
    BY <1>1, <2>3 DEF ProgressInv
<1> QED
  BY <1>2, <1>3 DEF Next, GrowOld, Expire, vars

\* A step that changes an order and adds allocations adds those of the whole order.
AddsWholeOrder ==
    \A o \in Orders :
      order[o] # order'[o] /\ NewAllocs # {} =>
        \A i \in DOMAIN Cart[o] :
          Cart[o][i].qty = Qty(allocs', {k \in NewAllocs : /\ allocs'[k].order = o
                                                           /\ allocs'[k].line = i})

\* The two commits add the allocations that their transaction buffered, for its order.
LEMMA FlushAddsWholeOrder ==
    ASSUME ProgressInv, NEW r \in Requests, Flush(r),
           req[r].pc \in {"commit", "updateOrder"}, NEW row,
           order' = [order EXCEPT ![req[r].order] = row]
    PROVE  AddsWholeOrder
<1> DEFINE q == req[r]
<1>1. /\ q \in Request /\ Owner(q) /\ Progress(q) /\ q.order \in Orders
  BY ReqProgress
<1>2. /\ allocs \in Seq(AllocationRow) /\ q.wa \in Seq(AllocationRow)
      /\ allocs' = allocs \o q.wa
  BY <1>1 DEF ProgressInv, OwnInv, Inv, TypeOK, Request, Flush
<1>3. \A k \in DOMAIN q.wa : q.wa[k].order = q.order
  BY <1>1 DEF Owner, OwnRows, ForItem
<1> SUFFICES ASSUME NEW o \in Orders, order[o] # order'[o], NewAllocs # {},
                    NEW i \in DOMAIN Cart[o]
             PROVE  Cart[o][i].qty = Qty(allocs', {k \in NewAllocs :
                                                     /\ allocs'[k].order = o
                                                     /\ allocs'[k].line = i})
  BY DEF AddsWholeOrder
<1>4. o = q.order
  <2>1. order \in [Orders -> OrderRow]
    BY DEF ProgressInv, OwnInv, Inv, TypeOK
  <2> QED
    BY <1>1, <2>1
<1>5. q.wa # <<>>
  <2> SUFFICES ASSUME q.wa = <<>>
               PROVE  FALSE
    OBVIOUS
  <2>1. allocs' = allocs
    BY <1>2
  <2>2. \A k \in DOMAIN allocs : ~(k > Len(allocs))
    BY <1>2
  <2> QED
    BY <2>1, <2>2 DEF NewAllocs
<1>6. Taken(q.wa, i) = Cart[o][i].qty
  BY <1>1, <1>4, <1>5 DEF Progress, TakesAll
<1> HIDE DEF q
<1>7. {k \in NewAllocs : allocs'[k].order = o /\ allocs'[k].line = i}
      = Added(allocs, q.wa, o, i)
  BY <1>2 DEF NewAllocs, Added
<1>8. \A k \in DOMAIN q.wa : q.wa[k].order = o
  BY <1>3, <1>4
<1>9. Qty(allocs \o q.wa, Added(allocs, q.wa, o, i)) = Taken(q.wa, i)
  <2>1. allocs \in Seq(AllocationRow) /\ q.wa \in Seq(AllocationRow)
    BY <1>2
  <2> QED
    BY ONLY <1>8, <2>1, TakenFlushed, ZenonT(30)
<1> QED
  BY <1>2, <1>6, <1>7, <1>9

\* No other statement writes an order.
LEMMA StepAddsWholeOrder == ProgressInv /\ [Next]_vars => AddsWholeOrder
<1> SUFFICES ASSUME ProgressInv, [Next]_vars PROVE AddsWholeOrder
  OBVIOUS
<1>1. CASE UNCHANGED order
  BY <1>1 DEF AddsWholeOrder
<1>2. ASSUME NEW r \in Requests, CommitCreate(r)
      PROVE  AddsWholeOrder
  BY <1>2, FlushAddsWholeOrder DEF CommitCreate
<1>3. ASSUME NEW r \in Requests, UpdateOrder(r)
      PROVE  AddsWholeOrder
  <2>1. PICK row : order' = [order EXCEPT ![req[r].order] = row]
    BY <1>3 DEF UpdateOrder
  <2> QED
    BY <1>3, <2>1, FlushAddsWholeOrder DEF UpdateOrder
<1>4. ASSUME NEW r \in Requests, Begin(r) \/ Die(r)
      PROVE  UNCHANGED order
  BY <1>4
  DEF Begin, BeginCreate, BeginSubmit, BeginConfirm, BeginUpdate, BeginAutoCancel,
      BeginRelease, Tick, Call, Start, Die, Throw, db
<1>5. ASSUME NEW r \in Requests, Run(r), ~CommitCreate(r), ~UpdateOrder(r)
      PROVE  UNCHANGED order
  BY <1>5
  DEF Run, CheckAllocations, CreateLegacy, ReadCandidates, TakeOldest, FindAllocations,
      ReadBatch, SelectBatch, UpdateBatch, InsertAllocation, MarkRestored, SelectOrder,
      DeadlockVictim, Throw, db
<1> QED
  BY <1>1, <1>2, <1>3, <1>4, <1>5 DEF Next, GrowOld, Expire, vars

\* An order never appears, and is never confirmed, with only part of the stock that the
\* same call takes for it: the allocations of OrdersService.create and confirmPayment
\* are committed with the order, and consumeStock has by then taken every item in full,
\* however requests overlap and whichever of them die.
THEOREM OrdersAreWhole == Spec => WholeOrderOrNothing
<1>1. AddsWholeOrder =>
        (\A o \in Orders :
           order[o] # order'[o] /\ NewAllocs # {} =>
             \A i \in DOMAIN Cart[o] :
               Cart[o][i].qty = MapThenSumSet(LAMBDA k : allocs'[k].qty,
                                  {k \in NewAllocs : /\ allocs'[k].order = o
                                                     /\ allocs'[k].line = i}))
  BY DEF AddsWholeOrder, Qty
<1>2. ProgressInv /\ [Next]_vars =>
        [\A o \in Orders :
           order[o] # order'[o] /\ NewAllocs # {} =>
             \A i \in DOMAIN Cart[o] :
               Cart[o][i].qty = MapThenSumSet(LAMBDA k : allocs'[k].qty,
                                  {k \in NewAllocs : /\ allocs'[k].order = o
                                                     /\ allocs'[k].line = i})]_vars
  BY <1>1, StepAddsWholeOrder
<1> QED
  BY <1>2, InitProgress, NextProgress, PTL DEF Spec, WholeOrderOrNothing

-----------------------------------------------------------------------------
(* Requests that do not overlap: what the batches look like, in the tables and *)
(* in the buffer of the one transaction, and how far a consumption has come    *)

\* LEGACY batches of perishable products do not exist: nothing inserts them.
Stocked(b) == ~(b \in LegacyBatches /\ ProductOf[b] \in Perishable)
GoodRow(b, row) ==
    /\ row.status = "ABSENT" => row.avail = 0
    /\ row.status # "ABSENT" => (row.status = "ACTIVE" <=> row.avail > 0) /\ Stocked(b)

\* What a request sees of the rows b of inventory_batches.
SeenBy(q, rows) == [b \in Batches |-> IF Writes(q, b) THEN q.wb[b] ELSE rows[b]]

Giving(q) == q.pc \in {"take", "alloc"} \/ (q.pc = "update" /\ q.ent.alloc = 0)

\* The batch a request is giving units from.
Gives(q, b) == q.pc # "take" /\ q.ent.batch = b
\* Candidates not yet tried are as they were read, and come after the batch in hand;
\* what is no candidate, or no more, is empty or expired.
FirstOnes(q, seen, old) ==
    \A b \in BatchesOf(Product(q)) :
      /\ q.plan[b] > 0 => q.plan[b] = seen[b].avail /\ (q.pc = "take" \/ q.ent.batch < b)
      /\ q.plan[b] = 0 /\ ~Gives(q, b) => seen[b].avail = 0 \/ b \in old
\* More is needed only when the batch in hand gave all it had.
UsedUp(q, seen) ==
    q.need > 0 =>
      /\ q.pc = "update" => q.ent.avail = 0
      /\ q.pc = "alloc" => seen[q.ent.batch].avail = 0

Serving(q, seen, old) == Giving(q) => FirstOnes(q, seen, old) /\ UsedUp(q, seen)

GoodEntity(q) ==
    InSave(q) => Stocked(q.ent.batch) /\ (q.ent.status = "ACTIVE" <=> q.ent.avail > 0)
\* A save finds the columns that differ, and nobody writes before its UPDATE.
FreshSave(q, seen) == q.pc = "update" => q.cols = Differs(q.ent, seen[q.ent.batch])

\* Only a transaction has rows of its own; they are as good as those of the table.
Buffers(q) ==
    /\ \A b \in Batches : GoodRow(b, q.wb[b]) /\ (Writes(q, b) => q.tx)
    /\ \A k \in DOMAIN q.wa : Stocked(q.wa[k].batch)
    /\ \A b \in Candidates(q) : Stocked(b)

Sells(q, rows, old) ==
    /\ Buffers(q) /\ GoodEntity(q)
    /\ FreshSave(q, SeenBy(q, rows))
    /\ Serving(q, SeenBy(q, rows), old)

AloneInv == \A r, s \in Requests : req[r] # Idle /\ req[s] # Idle => r = s
SellInv ==
    /\ AloneInv
    /\ \A b \in Batches : GoodRow(b, batch[b])
    /\ \A k \in DOMAIN allocs : Stocked(allocs[k].batch)
    /\ \A r \in Requests : Sells(req[r], batch, expired)

-----------------------------------------------------------------------------
(* The steps of the one request that runs *)

Alone(r) == \A s \in Requests \ {r} : req[s] = Idle

\* A request that runs while no other may is alone.
LEMMA RunsAlone ==
    ASSUME SellInv, NEW r \in Requests, req[r].pc # "idle"
    PROVE  Alone(r)
<1>1. req[r] # Idle
  BY IdleType
<1> QED
  BY <1>1 DEF SellInv, AloneInv, Alone

\* A request between items or outside a consumption sells nothing.
LEMMA QuietSells ==
    ASSUME NEW q, ~InSave(q), q.pc # "take", Buffers(q), NEW rows, NEW old
    PROVE  Sells(q, rows, old)
  BY DEF Sells, GoodEntity, FreshSave, Serving, Giving, InSave

\* A request that keeps its buffers keeps them good.
LEMMA SameBuffers ==
    ASSUME NEW q, Buffers(q), NEW x, x.wb = q.wb, x.wa = q.wa, x.plan = q.plan, x.tx = q.tx
    PROVE  Buffers(x)
  BY DEF Buffers, Candidates, Writes

\* A request begins with empty buffers.
LEMMA BlankBuffers ==
    ASSUME NEW q, q.wa = <<>>, q.plan = Idle.plan, q.wb = Idle.wb
    PROVE  Buffers(q)
<1>1. Idle.wb = [b \in Batches |-> NoBatchRow] /\ Idle.plan = NoCandidates
  BY DEF Idle
<1> QED
  BY <1>1 DEF Buffers, GoodRow, NoBatchRow, Candidates, NoCandidates, Writes

\* A request at rest sells nothing.
LEMMA IdleSells == ASSUME NEW rows, NEW old PROVE Sells(Idle, rows, old)
<1>1. ~InSave(Idle) /\ Idle.pc # "take" /\ Idle.wa = <<>>
  BY IdleType, IdleOwner DEF InSave
<1> QED
  BY <1>1, BlankBuffers, QuietSells

\* What every step of the request that runs has to show.
LEMMA StepSells ==
    ASSUME Inv, NEW r \in Requests, Alone(r), NEW q, req' = [req EXCEPT ![r] = q],
           Sells(q, batch', expired'),
           \A b \in Batches : GoodRow(b, batch'[b]),
           \A k \in DOMAIN allocs' : Stocked(allocs'[k].batch)
    PROVE  SellInv'
<1>1. req'[r] = q /\ \A s \in Requests \ {r} : req'[s] = Idle
  BY DEF Alone, Inv, TypeOK
<1>2. AloneInv'
  BY <1>1 DEF AloneInv
<1>3. \A s \in Requests : Sells(req'[s], batch', expired')
  BY <1>1, IdleSells
<1> QED
  BY <1>2, <1>3 DEF SellInv

\* The same for steps that change no row of batches or allocations.
LEMMA LocalStepSells ==
    ASSUME Inv, SellInv, NEW r \in Requests, Alone(r), NEW q, req' = [req EXCEPT ![r] = q],
           Sells(q, batch, expired), UNCHANGED <<batch, allocs, expired>>
    PROVE  SellInv'
  BY StepSells DEF SellInv

\* What is known of the request that takes a step.
LEMMA ReqSells ==
    ASSUME SellInv, NEW r \in Requests
    PROVE  /\ Sells(req[r], batch, expired)
           /\ Buffers(req[r]) /\ \A b \in Batches : GoodRow(b, Sees(r)[b])
           /\ SeenBy(req[r], batch) = Sees(r)
  BY DEF SellInv, Sells, Sees, SeenBy, Buffers

\* A request that ends leaves the others at rest.
LEMMA ThrowSells ==
    ASSUME Inv, SellInv, NEW r \in Requests, Alone(r), Throw(r), UNCHANGED expired
    PROVE  SellInv'
  BY IdleSells, LocalStepSells DEF Throw, Goto, db

\* A handler begins when no other runs, before its first statement on batches.
LEMMA StartSells ==
    ASSUME MaxInFlight = 1, Inv, SellInv, NEW r \in Requests, NEW q, Start(r, q),
           ~InSave(q), q.pc # "take", q.wa = <<>>, q.plan = Idle.plan, q.wb = Idle.wb
    PROVE  SellInv'
<1>1. Alone(r)
  <2> SUFFICES ASSUME NEW s \in Requests \ {r}, req[s] # Idle
               PROVE  FALSE
    BY DEF Alone
  <2>1. Others(r) = {s}
    BY DEF Others, SellInv, AloneInv
  <2>2. Cardinality({s}) = 1
    BY FS_Singleton
  <2> QED
    BY <2>1, <2>2 DEF Start
<1>3. Sells(q, batch, expired)
  BY BlankBuffers, QuietSells
<1> QED
  BY <1>1, <1>3, LocalStepSells DEF Start

\* create begins at its first item with empty buffers, inside its transaction.
LEMMA BeginSells ==
    ASSUME MaxInFlight = 1, Inv, SellInv, NEW r \in Requests, Begin(r)
    PROVE  SellInv'
<1> DEFINE Blank(q) == q.wa = <<>> /\ q.plan = Idle.plan /\ q.wb = Idle.wb
<1>0. Idle.wa = <<>> /\ Idle.pc = "idle"
  BY IdleOwner, IdleType
<1>1. ASSUME NEW o \in Orders, BeginCreate(r, o)
      PROVE  SellInv'
  <2> DEFINE q == [Idle EXCEPT !.op = "create", !.tx = TRUE, !.order = o,
                               !.rows = Loaded(o, NewOrder)]
  <2>1. Start(r, FirstItem(q))
    BY <1>1 DEF BeginCreate, Call
  <2>2. Blank(q)
    BY <1>0 DEF Idle
  <2>3. q \in Request
    <3>1. Loaded(o, NewOrder) \in [Orders -> OrderRow]
      BY LoadedType DEF NewOrder, OrderRow, OrderStatus, PaymentStatus
    <3> QED
      BY <3>1, IdleType DEF Request, Ops
  <2> HIDE DEF q
  <2>4. Blank(FirstItem(q)) /\ FirstItem(q).pc = "read"
    BY <2>2, <2>3 DEF FirstItem, Request
  <2> QED
    BY <2>1, <2>4, StartSells DEF InSave
<1>2. ASSUME NEW q, q.pc \in {"idle", "has", "find", "selectOrder"}, Blank(q), Start(r, q)
      PROVE  SellInv'
  BY <1>2, StartSells DEF InSave
<1>3. ASSUME NEW o \in Orders, BeginSubmit(r, o)
      PROVE  SellInv'
  <2> DEFINE begins(row) == [Idle EXCEPT !.op = "submit", !.pc = "selectOrder",
                                         !.order = o, !.rows = Loaded(o, row)]
  <2>1. PICK row : Start(r, begins(row))
    BY <1>3 DEF BeginSubmit, Call
  <2>2. Blank(begins(row)) /\ begins(row).pc = "selectOrder"
    BY <1>0 DEF Idle
  <2> HIDE DEF begins
  <2> QED
    BY <2>1, <2>2, <1>2
<1>4. ASSUME NEW o \in Orders, BeginConfirm(r, o)
      PROVE  SellInv'
  <2> DEFINE begins(row) == [Idle EXCEPT !.op = "confirm", !.pc = "has", !.tx = TRUE,
                                         !.order = o, !.rows = Loaded(o, row)]
  <2>1. PICK row : Start(r, begins(row))
    BY <1>4 DEF BeginConfirm, Call
  <2>2. Blank(begins(row)) /\ begins(row).pc = "has"
    BY <1>0 DEF Idle
  <2> HIDE DEF begins
  <2> QED
    BY <2>1, <2>2, <1>2
<1>5. ASSUME NEW o \in Orders, NEW to \in Targets, BeginUpdate(r, o, to)
      PROVE  SellInv'
  <2> DEFINE rows == Loaded(o, [order[o] EXCEPT !.status = to])
             begins(pc) == [Idle EXCEPT !.op = "update", !.pc = pc, !.order = o,
                                        !.rows = rows]
  <2>1. PICK pc \in {"find", "has", "selectOrder"} : Start(r, begins(pc))
    BY <1>5 DEF BeginUpdate, Call
  <2>2. Blank(begins(pc)) /\ begins(pc).pc = pc
    BY <1>0 DEF Idle
  <2> HIDE DEF begins
  <2> QED
    BY <2>1, <2>2, <1>2
<1>6. ASSUME NEW op, NEW rows, Tick(r, [Idle EXCEPT !.op = op, !.pc = "find", !.rows = rows])
      PROVE  SellInv'
  <2> DEFINE q == [Idle EXCEPT !.op = op, !.pc = "find", !.rows = rows]
  <2>1. Blank(q) /\ q.pc = "find" /\ Blank(Idle)
    BY <1>0 DEF Idle
  <2>2. Start(r, Idle) \/ Start(r, q)
    BY <1>6 DEF Tick
  <2> HIDE DEF q
  <2> QED
    BY <1>0, <1>2, <2>1, <2>2
<1>7. CASE BeginAutoCancel(r)
  BY <1>6, <1>7 DEF BeginAutoCancel
<1>8. CASE BeginRelease(r)
  BY <1>6, <1>8 DEF BeginRelease
<1> QED
  BY <1>1, <1>3, <1>4, <1>5, <1>7, <1>8 DEF Begin

-----------------------------------------------------------------------------
(* The operators that compute the next state of a request *)

\* The next order of a cron job finds empty buffers.
LEMMA DoneSells ==
    ASSUME NEW q \in Request, NEW rows, NEW old
    PROVE  Sells(DoneWithOrder(q), rows, old)
<1> DEFINE rest == [q.rows EXCEPT ![q.order] = NoRow]
           next == [Idle EXCEPT !.op = q.op, !.pc = "find", !.rows = rest]
<1>1. next.pc = "find" /\ next.wa = Idle.wa /\ next.wb = Idle.wb /\ next.plan = Idle.plan
  BY IdleType DEF Request
<1> HIDE DEF next
<1>3. Buffers(next)
  BY <1>1, IdleOwner, BlankBuffers
<1>4. Sells(next, rows, old)
  BY <1>1, <1>3, QuietSells DEF InSave
<1> QED
  BY <1>4, IdleSells DEF DoneWithOrder, next

\* Going on after an allocation was restored.
LEMMA AfterRestoreSells ==
    ASSUME NEW q \in Request, Buffers(q), NEW rows, NEW old
    PROVE  Sells(AfterRestore(q), rows, old)
<1>1. ASSUME NEW pc \in {"batch", "selectOrder"}
      PROVE  Sells([q EXCEPT !.pc = pc], rows, old)
  <2> DEFINE x == [q EXCEPT !.pc = pc]
  <2>1. x.pc = pc /\ x.wb = q.wb /\ x.wa = q.wa /\ x.plan = q.plan /\ x.tx = q.tx
    BY DEF Request
  <2> HIDE DEF x
  <2>2. Sells(x, rows, old)
    BY <2>1, SameBuffers, QuietSells DEF InSave
  <2> QED
    BY <2>2 DEF x
<1> QED
  BY <1>1, DoneSells DEF AfterRestore

\* Starting on the first item.
LEMMA FirstItemSells ==
    ASSUME NEW q \in Request, Buffers(q), NEW rows, NEW old
    PROVE  Sells(FirstItem(q), rows, old)
<1>1. /\ FirstItem(q).pc = "read" /\ FirstItem(q).wb = q.wb /\ FirstItem(q).wa = q.wa
      /\ FirstItem(q).plan = q.plan /\ FirstItem(q).tx = q.tx
  BY DEF FirstItem, Request
<1> QED
  BY <1>1, SameBuffers, QuietSells DEF InSave

\* After a batch gave its units: the next candidate, when this one is used up; the
\* next item or the end, with no candidates.
LEMMA AfterConsumeSells ==
    ASSUME NEW q \in Request, Buffers(q), NEW rows, NEW old,
           q.need > 0 => \A b \in BatchesOf(Product(q)) :
                           LET units == SeenBy(q, rows)[b].avail
                           IN  /\ q.plan[b] > 0 => q.plan[b] = units
                               /\ q.plan[b] = 0 => units = 0 \/ b \in old
    PROVE  Sells(AfterConsume(q), rows, old)
<1>1. CASE q.need > 0
  <2> DEFINE x == [q EXCEPT !.pc = "take"]
  <2>1. /\ x.pc = "take" /\ x.wb = q.wb /\ x.wa = q.wa /\ x.plan = q.plan /\ x.tx = q.tx
        /\ x.order = q.order /\ x.line = q.line
    BY DEF Request
  <2>2. AfterConsume(q) = x
    BY <1>1 DEF AfterConsume
  <2> HIDE DEF x
  <2>3. Buffers(x) /\ SeenBy(x, rows) = SeenBy(q, rows) /\ Product(x) = Product(q)
    BY <2>1, SameBuffers DEF SeenBy, Writes, Product
  <2>4. FirstOnes(x, SeenBy(x, rows), old) /\ UsedUp(x, SeenBy(x, rows))
    BY <1>1, <2>1, <2>3 DEF FirstOnes, UsedUp
  <2>5. Sells(x, rows, old)
    BY <2>1, <2>3, <2>4 DEF Sells, Buffers, GoodEntity, InSave, FreshSave, Serving
  <2> QED
    BY <2>2, <2>5
<1>2. CASE ~(q.need > 0)
  <2>1. /\ AfterConsume(q).pc \in {"read", "commit", "selectOrder"}
        /\ AfterConsume(q).wb = q.wb /\ AfterConsume(q).wa = q.wa
        /\ AfterConsume(q).plan = NoCandidates /\ AfterConsume(q).tx = q.tx
    BY <1>2 DEF AfterConsume, Request
  <2>2. Buffers(AfterConsume(q))
    BY <2>1 DEF Buffers, Candidates, NoCandidates, Writes
  <2> QED
    BY <2>1, <2>2, QuietSells DEF InSave
<1> QED
  BY <1>1, <1>2

-----------------------------------------------------------------------------
(* Statements of the request that runs *)

\* What a running request knows: it is alone and its rows are good.
LEMMA RunnerSells ==
    ASSUME OwnInv, SellInv, NEW r \in Requests, req[r].pc # "idle"
    PROVE  /\ Inv /\ Alone(r) /\ req[r] \in Request /\ Sound(req[r]) /\ Owner(req[r])
           /\ Buffers(req[r]) /\ req[r].todo \subseteq DOMAIN allocs
  BY ReqOwner, ReqSells, RunsAlone DEF OwnInv

\* A consumption begins at the first item.
LEMMA CheckAllocationsSells ==
    ASSUME OwnInv, SellInv, NEW r \in Requests, CheckAllocations(r)
    PROVE  SellInv'
<1> DEFINE old == req[r]
           x == [old EXCEPT !.pc = "selectOrder"]
<1>1. Inv /\ Alone(r) /\ old \in Request /\ Buffers(old)
  BY RunnerSells DEF CheckAllocations
<1>2. x.pc = "selectOrder" /\ x.wb = old.wb /\ x.wa = old.wa /\ x.plan = old.plan /\ x.tx = old.tx
  BY <1>1 DEF Request
<1>3. Goto(r, x) \/ Goto(r, FirstItem(old))
  BY DEF CheckAllocations
<1> HIDE DEF x
<1>4. Sells(x, batch, expired) /\ Sells(FirstItem(old), batch, expired)
  BY <1>1, <1>2, SameBuffers, QuietSells, FirstItemSells DEF InSave
<1> QED
  BY <1>1, <1>3, <1>4, LocalStepSells DEF CheckAllocations, Goto

\* The LEGACY batch is created with units, on sale, of a product that does not expire.
LEMMA CreateLegacySells ==
    ASSUME OwnInv, SellInv, NEW r \in Requests, CreateLegacy(r)
    PROVE  SellInv'
<1>0. Inv /\ Alone(r) /\ req[r] \in Request /\ Buffers(req[r]) /\ req[r].pc = "read"
  BY RunnerSells DEF CreateLegacy
<1>1. CASE Throw(r)
  BY <1>0, <1>1, ThrowSells DEF CreateLegacy
<1>2. CASE ~Throw(r)
  <2>1. PICK b \in BatchesOf(Product(req[r])) \cap LegacyBatches :
          LET row == [avail |-> SeesLedger(r, Product(req[r])), status |-> "ACTIVE"]
          IN  WriteBatch(r, b, row) /\ Goto(r, OverlayBatch(req[r], b, row))
    BY <1>2 DEF CreateLegacy
  <2> DEFINE row == [avail |-> SeesLedger(r, Product(req[r])), status |-> "ACTIVE"]
             q == OverlayBatch(req[r], b, row)
  <2>2. GoodRow(b, row)
    <3>1. SeesLedger(r, Product(req[r])) > 0
      BY DEF CreateLegacy, NeedsLegacy
    <3>2. Stocked(b)
      BY <1>2, <2>1 DEF CreateLegacy, Stocked, BatchesOf
    <3>3. row.status = "ACTIVE" /\ row.avail = SeesLedger(r, Product(req[r]))
      OBVIOUS
    <3> HIDE DEF row
    <3> QED
      BY <3>1, <3>2, <3>3 DEF GoodRow
  <2>3. WriteBatch(r, b, row) /\ req' = [req EXCEPT ![r] = q] /\ UNCHANGED <<allocs, expired>>
    BY <1>2, <2>1 DEF CreateLegacy, Goto
  <2> HIDE DEF row
  <2>4. /\ q.pc = "read" /\ q.wa = req[r].wa /\ q.plan = req[r].plan
        /\ q.tx = req[r].tx
        /\ \A c \in Batches : q.wb[c] = req[r].wb[c] \/ (c = b /\ q.wb[c] = row /\ q.tx)
    BY <1>0 DEF OverlayBatch, Request
  <2>5. \A c \in Batches : batch'[c] = batch[c] \/ (c = b /\ batch'[c] = row)
    BY <1>0, <2>3 DEF WriteBatch, Inv, TypeOK
  <2> HIDE DEF q
  <2>6. Buffers(q)
    BY <1>0, <2>2, <2>4 DEF Buffers, Candidates, Writes
  <2>7. Sells(q, batch', expired')
    BY <2>4, <2>6, QuietSells DEF InSave
  <2>8. \A c \in Batches : GoodRow(c, batch'[c])
    BY <2>2, <2>5 DEF SellInv
  <2>9. \A k \in DOMAIN allocs' : Stocked(allocs'[k].batch)
    BY <2>3 DEF SellInv
  <2> QED
    BY <1>0, <2>3, <2>7, <2>8, <2>9, StepSells
<1> QED
  BY <1>1, <1>2

\* A batch of the product that is no candidate is empty or expired.
LEMMA ReadCandidatesSells ==
    ASSUME OwnInv, SellInv, NEW r \in Requests, ReadCandidates(r)
    PROVE  SellInv'
<1>0. Inv /\ Alone(r) /\ req[r] \in Request /\ Buffers(req[r]) /\ req[r].pc = "read"
  BY RunnerSells DEF ReadCandidates
<1>1. CASE Throw(r)
  BY <1>0, <1>1, ThrowSells DEF ReadCandidates
<1>2. CASE ~Throw(r)
  <2> DEFINE plan == [b \in Batches |-> IF b \in Usable(r) THEN Sees(r)[b].avail ELSE 0]
             q == [req[r] EXCEPT !.pc = "take", !.plan = plan]
             seen == Sees(r)
  <2>1. req' = [req EXCEPT ![r] = q] /\ UNCHANGED <<batch, allocs, expired>>
    BY <1>2 DEF ReadCandidates, Goto, db
  <2>2. ASSUME NEW b \in Batches
        PROVE  /\ GoodRow(b, seen[b]) /\ seen[b].avail >= 0 /\ seen[b].avail \in Int
               /\ seen[b].status \in {"ABSENT", "ACTIVE", "DEPLETED"}
               /\ plan[b] = IF b \in Usable(r) THEN seen[b].avail ELSE 0
    BY <1>0, ReqSells, SeesSound DEF BatchRow
  <2> HIDE DEF plan
  <2>3. /\ q.pc = "take" /\ q.wa = req[r].wa /\ q.wb = req[r].wb /\ q.plan = plan /\ q.tx = req[r].tx
        /\ q.order = req[r].order /\ q.line = req[r].line
    BY <1>0 DEF Request
  <2> HIDE DEF q
  <2>4. SeenBy(q, batch) = seen /\ Product(q) = Product(req[r])
    BY <2>3 DEF SeenBy, Sees, Writes, Product
  <2> HIDE DEF seen
  <2>5. ASSUME NEW b \in BatchesOf(Product(q))
        PROVE  /\ plan[b] > 0 => plan[b] = seen[b].avail /\ Stocked(b)
               /\ plan[b] = 0 => seen[b].avail = 0 \/ b \in expired
    <3>1. b \in Batches /\ ProductOf[b] = Product(req[r])
      BY <2>4 DEF BatchesOf
    <3>2. CASE b \in Usable(r)
      <4>1. seen[b].avail > 0 /\ seen[b].status = "ACTIVE"
        BY <3>2 DEF Usable, ActiveBatches, seen
      <4>2. Stocked(b)
        BY <2>2, <3>1, <4>1 DEF GoodRow
      <4> QED
        BY <2>2, <3>1, <3>2, <4>1, <4>2
    <3>3. CASE b \notin Usable(r)
      <4>1. plan[b] = 0
        BY <2>2, <3>1, <3>3
      <4>2. \/ seen[b].status # "ACTIVE" \/ ~(seen[b].avail > 0) \/ b \in expired
            \/ ~Stocked(b)
        BY <2>4, <3>1, <3>3 DEF Usable, ActiveBatches, Stocked, seen
      <4>3. seen[b].avail = 0 \/ b \in expired
        BY <2>2, <3>1, <4>2 DEF GoodRow
      <4> QED
        BY <4>1, <4>3
    <3> QED
      BY <3>2, <3>3
  <2>6. ASSUME NEW b \in Candidates(q)
        PROVE  Stocked(b)
    <3>1. b \in Batches /\ plan[b] > 0
      BY <2>3 DEF Candidates
    <3>2. b \in Usable(r)
      BY <2>2, <3>1
    <3>3. b \in BatchesOf(Product(q))
      BY <2>4, <3>2 DEF Usable, ActiveBatches
    <3> QED
      BY <2>5, <3>1, <3>3
  <2>7. FirstOnes(q, seen, expired) /\ UsedUp(q, seen)
    BY <2>3, <2>5 DEF FirstOnes, UsedUp
  <2>8. Sells(q, batch, expired)
    BY <1>0, <2>3, <2>4, <2>6, <2>7
    DEF Sells, Buffers, Writes, GoodEntity, InSave, FreshSave, Serving
  <2> QED
    BY <1>0, <2>1, <2>8, LocalStepSells
<1> QED
  BY <1>1, <1>2

\* The oldest candidate is in hand; the others come after it, and more is needed only
\* when it is used up.
LEMMA TakeOldestSells ==
    ASSUME OwnInv, SellInv, NEW r \in Requests, TakeOldest(r)
    PROVE  SellInv'
<1> DEFINE old == req[r]
           seen == Sees(r)
           consumed(b) == Consumed(old.plan[b], old.need)
           ent(b) == [batch |-> b, avail |-> old.plan[b] - consumed(b), qty |-> consumed(b),
                      alloc |-> 0, status |-> StatusFor(old.plan[b] - consumed(b))]
           next(b) == [old EXCEPT !.pc = "update", !.ent = ent(b),
                                  !.need = @ - consumed(b), !.plan[b] = 0,
                                  !.cols = Differs(ent(b), seen[b])]
<1>1. PICK b \in Candidates(old) : IsOldest(b, old) /\ Goto(r, next(b))
  BY DEF TakeOldest
<1> DEFINE n == consumed(b)
           e == ent(b)
           q == next(b)
<1>2. /\ Inv /\ Alone(r) /\ old \in Request /\ Buffers(old) /\ old.pc = "take"
      /\ Sells(old, batch, expired) /\ SeenBy(old, batch) = seen
      /\ old.need \in Nat
  BY RunnerSells, ReqSells DEF TakeOldest, Request
<1>3. b \in Batches /\ old.plan[b] \in Nat /\ Stocked(b) /\ \A c \in Candidates(old) : b <= c
  BY <1>1, <1>2 DEF Candidates, Request, IsOldest, Buffers
<1>4. n \in Nat /\ n <= old.plan[b] /\ (old.need - n > 0 => n = old.plan[b])
  BY <1>2, <1>3 DEF Consumed
<1>5. req' = [req EXCEPT ![r] = q] /\ UNCHANGED <<batch, allocs, expired>>
  BY <1>1 DEF TakeOldest, Goto
<1> HIDE DEF consumed
<1>6. /\ e.batch = b /\ e.alloc = 0 /\ e.avail = old.plan[b] - n
      /\ (e.status = "ACTIVE" <=> e.avail > 0)
  BY <1>3, <1>4 DEF StatusFor
<1> HIDE DEF e
<1>7. /\ q.pc = "update" /\ q.wa = old.wa /\ q.wb = old.wb /\ q.order = old.order
      /\ q.line = old.line /\ q.need = old.need - n /\ q.cols = Differs(q.ent, seen[b])
      /\ q.tx = old.tx
      /\ \A c \in Batches : q.plan[c] = IF c = b THEN 0 ELSE old.plan[c]
  BY <1>2, <1>3 DEF Request, e
<1>8. q.ent = e
  BY <1>2 DEF Request, e
<1> HIDE DEF q, seen
<1>9. SeenBy(q, batch) = seen /\ Product(q) = Product(old)
  BY <1>2, <1>7 DEF SeenBy, Writes, Product
<1>10. FirstOnes(old, seen, expired)
  BY <1>2 DEF Sells, Serving, Giving
<1>11. ASSUME NEW c \in BatchesOf(Product(q))
       PROVE  /\ q.plan[c] > 0 => q.plan[c] = seen[c].avail /\ q.ent.batch < c
              /\ q.plan[c] = 0 /\ ~Gives(q, c) => seen[c].avail = 0 \/ c \in expired
  <2>1. c \in Batches /\ b \in Nat /\ c \in Nat
    BY <1>3, ConstantsAssumption DEF BatchesOf
  <2>2. CASE c = b
    BY <1>6, <1>7, <1>8, <2>1, <2>2 DEF Gives
  <2>3. CASE c # b
    <3>1. q.plan[c] = old.plan[c]
      BY <1>7, <2>1, <2>3
    <3>2. old.plan[c] > 0 => b < c
      BY <1>3, <2>1, <2>3 DEF Candidates
    <3> QED
      BY <1>2, <1>6, <1>8, <1>9, <1>10, <3>1, <3>2 DEF FirstOnes, Gives
  <2> QED
    BY <2>2, <2>3
<1>12. FirstOnes(q, seen, expired)
  BY <1>7, <1>11 DEF FirstOnes
<1>13. UsedUp(q, seen)
  BY <1>3, <1>4, <1>6, <1>7, <1>8 DEF UsedUp
<1>14. Buffers(q)
  <2>1. Candidates(q) \subseteq Candidates(old)
    BY <1>7 DEF Candidates
  <2> QED
    BY <1>2, <1>7, <2>1 DEF Buffers, Writes
<1>15. Sells(q, batch, expired)
  BY <1>3, <1>6, <1>7, <1>8, <1>9, <1>12, <1>13, <1>14
  DEF Sells, Buffers, GoodEntity, FreshSave, Serving
<1> QED
  BY <1>2, <1>5, <1>15, LocalStepSells

\* A job takes up the allocations of one of its orders.
LEMMA FindAllocationsSells ==
    ASSUME OwnInv, SellInv, NEW r \in Requests, FindAllocations(r)
    PROVE  SellInv'
<1> DEFINE old == req[r]
<1>1. PICK o \in LoadedOrders(old) :
        Goto(r, AfterRestore([old EXCEPT !.order = o, !.todo = ActiveAllocs(o)]))
  BY DEF FindAllocations
<1> DEFINE q == [old EXCEPT !.order = o, !.todo = ActiveAllocs(o)]
<1>2. Inv /\ Alone(r) /\ old \in Request /\ Buffers(old)
  BY RunnerSells DEF FindAllocations
<1>3. ActiveAllocs(o) \in SUBSET Nat /\ o \in Orders
  BY <1>1, <1>2 DEF ActiveAllocs, LoadedOrders, Inv, TypeOK
<1>4. q \in Request /\ q.wb = old.wb /\ q.wa = old.wa /\ q.plan = old.plan /\ q.tx = old.tx
  BY <1>2, <1>3 DEF Request
<1>5. req' = [req EXCEPT ![r] = AfterRestore(q)] /\ UNCHANGED <<batch, allocs, expired>>
  BY <1>1 DEF FindAllocations, Goto
<1> HIDE DEF q
<1>6. Sells(AfterRestore(q), batch, expired)
  BY <1>2, <1>4, SameBuffers, AfterRestoreSells
<1> QED
  BY <1>2, <1>5, <1>6, LocalStepSells

\* The entity of a batch that gets units back is on sale and has units.
LEMMA ReadBatchSells ==
    ASSUME OwnInv, SellInv, NEW r \in Requests, ReadBatch(r)
    PROVE  SellInv'
<1> DEFINE old == req[r]
           ent(k) == [batch |-> allocs[k].batch, status |-> "ACTIVE",
                      avail |-> Sees(r)[allocs[k].batch].avail + allocs[k].qty,
                      qty |-> allocs[k].qty, alloc |-> k]
           next(k) == [old EXCEPT !.pc = "select", !.todo = @ \ {k}, !.ent = ent(k)]
<1>1. PICK k \in old.todo : Goto(r, next(k))
  BY DEF ReadBatch
<1> DEFINE e == ent(k)
           q == next(k)
<1>2. Inv /\ Alone(r) /\ old \in Request /\ Buffers(old) /\ k \in DOMAIN allocs
  BY <1>1, RunnerSells DEF ReadBatch
<1>3. allocs[k] \in AllocationRow /\ Stocked(allocs[k].batch) /\ k # 0
  BY <1>2 DEF Inv, TypeOK, SellInv
<1>4. allocs[k].batch \in Batches /\ allocs[k].qty \in Nat /\ allocs[k].qty > 0
  BY <1>3 DEF AllocationRow
<1>5. Sees(r)[allocs[k].batch].avail \in Int /\ Sees(r)[allocs[k].batch].avail >= 0
  BY <1>2, <1>4, SeesSound DEF BatchRow
<1>6. e.batch = allocs[k].batch /\ e.status = "ACTIVE" /\ e.avail > 0 /\ e.alloc # 0
  BY <1>3, <1>4, <1>5
<1>7. req' = [req EXCEPT ![r] = q] /\ UNCHANGED <<batch, allocs, expired>>
  BY <1>1 DEF ReadBatch, Goto
<1> HIDE DEF e
<1>8. q.pc = "select" /\ q.wb = old.wb /\ q.wa = old.wa /\ q.plan = old.plan /\ q.tx = old.tx
  BY <1>2 DEF Request
<1>9. q.ent = e
  BY <1>2 DEF Request, e
<1> HIDE DEF q
<1>10. Sells(q, batch, expired)
  BY <1>2, <1>3, <1>6, <1>8, <1>9, SameBuffers
  DEF Sells, Buffers, GoodEntity, FreshSave, Serving, Giving
<1> QED
  BY <1>2, <1>7, <1>10, LocalStepSells

\* The SELECT of its save finds what differs from the row.
LEMMA SelectBatchSells ==
    ASSUME OwnInv, SellInv, NEW r \in Requests, SelectBatch(r)
    PROVE  SellInv'
<1> DEFINE old == req[r]
           d == Differs(old.ent, Sees(r)[old.ent.batch])
           q == [old EXCEPT !.pc = "update", !.cols = d]
<1>1. /\ Inv /\ Alone(r) /\ old \in Request /\ Buffers(old) /\ old.pc = "select"
      /\ GoodEntity(old) /\ old.ent.alloc # 0 /\ SeenBy(old, batch) = Sees(r)
  BY RunnerSells, ReqSells DEF SelectBatch, Sells, Owner, Restores
<1>2. req' = [req EXCEPT ![r] = q] /\ UNCHANGED <<batch, allocs, expired>>
  BY DEF SelectBatch, Goto
<1> HIDE DEF d
<1>3. /\ q.pc = "update" /\ q.ent = old.ent /\ q.cols = d
      /\ q.wb = old.wb /\ q.wa = old.wa /\ q.plan = old.plan /\ q.tx = old.tx
  BY <1>1 DEF Request
<1> HIDE DEF q
<1>4. SeenBy(q, batch) = Sees(r) /\ Buffers(q)
  BY <1>1, <1>3, SameBuffers DEF SeenBy, Writes
<1>5. Sells(q, batch, expired)
  BY <1>1, <1>3, <1>4
  DEF Sells, Buffers, GoodEntity, InSave, FreshSave, Serving, Giving, d
<1> QED
  BY <1>1, <1>2, <1>5, LocalStepSells

\* The save of the batch in hand keeps the order in which batches are emptied.
LEMMA SavedFirstOnes ==
    ASSUME NEW x \in Request, NEW q, NEW seen, NEW seen1, NEW old,
           FirstOnes(x, seen, old), UsedUp(x, seen), x.pc = "update", q.pc = "alloc",
           q.ent = x.ent, q.plan = x.plan, q.need = x.need, q.order = x.order,
           q.line = x.line, seen1[x.ent.batch].avail = x.ent.avail,
           \A c \in Batches \ {x.ent.batch} : seen1[c] = seen[c]
    PROVE  FirstOnes(q, seen1, old) /\ UsedUp(q, seen1)
<1>1. Product(q) = Product(x)
  BY DEF Product
<1>2. ASSUME NEW b \in BatchesOf(Product(q))
      PROVE  /\ q.plan[b] > 0 => q.plan[b] = seen1[b].avail /\ q.ent.batch < b
             /\ q.plan[b] = 0 /\ q.ent.batch # b => seen1[b].avail = 0 \/ b \in old
  <2>1. b \in Batches /\ b \in Nat
    BY ConstantsAssumption DEF BatchesOf
  <2>2. /\ x.plan[b] > 0 => x.plan[b] = seen[b].avail /\ x.ent.batch < b
        /\ x.plan[b] = 0 /\ x.ent.batch # b => seen[b].avail = 0 \/ b \in old
    BY <1>1 DEF FirstOnes, Gives
  <2>3. b = x.ent.batch => ~(x.plan[b] > 0)
    BY <2>1, <2>2
  <2> QED
    BY <2>1, <2>2, <2>3
<1>3. FirstOnes(q, seen1, old)
  BY <1>2 DEF FirstOnes, Gives
<1>4. UsedUp(q, seen1)
  BY DEF UsedUp
<1> QED
  BY <1>3, <1>4

\* The UPDATE leaves quantity and status of the entity, both, in the row.
LEMMA UpdateBatchSells ==
    ASSUME OwnInv, SellInv, NEW r \in Requests, UpdateBatch(r)
    PROVE  SellInv'
<1> DEFINE old == req[r]
           e == old.ent
           seen == Sees(r)
           row == Merged(e, seen[e.batch], old.cols)
           pc == IF e.alloc = 0 THEN "alloc" ELSE "mark"
           next == [old EXCEPT !.pc = pc, !.cols = {}]
           q == IF old.cols = {} THEN next ELSE OverlayBatch(next, e.batch, row)
<1>1. /\ Inv /\ Alone(r) /\ old \in Request /\ Buffers(old) /\ old.pc = "update"
      /\ Sells(old, batch, expired) /\ SeenBy(old, batch) = seen /\ e.batch \in Batches
  BY RunnerSells, ReqSells DEF UpdateBatch, Sound, HasBatch, InSave
<1>2. seen \in [Batches -> BatchRow] /\ batch \in [Batches -> BatchRow]
  BY <1>1, SeesSound DEF Inv, TypeOK
<1>3. /\ e.avail \in Int /\ e.status \in {"ACTIVE", "DEPLETED"} /\ Stocked(e.batch)
      /\ (e.status = "ACTIVE" <=> e.avail > 0)
  BY <1>1 DEF Request, Sells, GoodEntity, InSave
<1>4. row = [avail |-> e.avail, status |-> e.status]
  <2>1. old.cols = Differs(e, seen[e.batch])
    BY <1>1 DEF Sells, FreshSave
  <2> QED
    BY <2>1 DEF Merged, Differs
<1>5. /\ row.avail = e.avail /\ row.status = e.status /\ row \in BatchRow
      /\ GoodRow(e.batch, row)
  BY <1>3, <1>4 DEF GoodRow, BatchRow
<1>6. old.cols = {} => seen[e.batch] = row
  <2> SUFFICES ASSUME old.cols = {}
               PROVE  seen[e.batch] = row
    OBVIOUS
  <2>1. Differs(e, seen[e.batch]) = {}
    BY <1>1 DEF Sells, FreshSave
  <2>2. seen[e.batch].avail = e.avail /\ seen[e.batch].status = e.status
    BY <2>1 DEF Differs
  <2> QED
    BY <1>1, <1>2, <1>4, <2>2 DEF BatchRow
<1>7. /\ WriteBatch(r, e.batch, row) /\ req' = [req EXCEPT ![r] = q]
      /\ UNCHANGED <<allocs, expired>>
  BY DEF UpdateBatch, Goto
<1> HIDE DEF row
<1>8. /\ q.pc = pc /\ q.ent = e /\ q.wa = old.wa /\ q.plan = old.plan /\ q.need = old.need
      /\ q.order = old.order /\ q.line = old.line /\ q.tx = old.tx
  BY <1>1 DEF OverlayBatch, Request
<1>9. /\ \A c \in Batches \ {e.batch} : q.wb[c] = old.wb[c]
      /\ q.wb[e.batch] = IF old.tx /\ old.cols # {} THEN row ELSE old.wb[e.batch]
  BY <1>1 DEF OverlayBatch, Request
<1>10. \A c \in Batches : batch'[c] = IF c = e.batch /\ ~old.tx THEN row ELSE batch[c]
  BY <1>1, <1>2, <1>7 DEF WriteBatch
<1> HIDE DEF q, next, pc
<1>11. Buffers(q) /\ \A c \in Batches : GoodRow(c, batch'[c])
  BY <1>1, <1>5, <1>8, <1>9, <1>10 DEF Buffers, Candidates, Writes, SellInv
<1>12. \A c \in Batches : SeenBy(q, batch')[c] = IF c = e.batch THEN row ELSE seen[c]
  <2> SUFFICES ASSUME NEW c \in Batches
               PROVE  SeenBy(q, batch')[c] = IF c = e.batch THEN row ELSE seen[c]
    OBVIOUS
  <2>1. SeenBy(q, batch')[c] = IF Writes(q, c) THEN q.wb[c] ELSE batch'[c]
    BY DEF SeenBy
  <2>2. seen[c] = IF Writes(old, c) THEN old.wb[c] ELSE batch[c]
    BY DEF Sees
  <2>3. ~old.tx => ~Writes(old, c) /\ ~Writes(q, c)
    BY <1>1, <1>8, <1>11 DEF Buffers
  <2>4. row.status # "ABSENT"
    BY <1>3, <1>5
  <2>5. CASE c # e.batch
    <3>1. q.wb[c] = old.wb[c] /\ batch'[c] = batch[c]
      BY <1>9, <1>10, <2>5
    <3> QED
      BY <2>1, <2>2, <2>5, <3>1 DEF Writes
  <2>6. CASE c = e.batch /\ ~old.tx
    BY <1>10, <2>1, <2>3, <2>6
  <2>7. CASE c = e.batch /\ old.tx
    <3>1. batch'[c] = batch[c]
      BY <1>10, <2>7
    <3> QED
      BY <1>6, <1>9, <2>1, <2>2, <2>4, <2>7, <3>1 DEF Writes
  <2> QED
    BY <2>5, <2>6, <2>7
<1>13. GoodEntity(q) /\ q.pc # "update"
  BY <1>3, <1>8 DEF GoodEntity, pc
<1> DEFINE seen1 == SeenBy(q, batch')
<1>e. \A c \in Batches : seen1[c] = IF c = e.batch THEN row ELSE seen[c]
  BY <1>12
<1> HIDE DEF seen1
<1>14. ASSUME Giving(q)
       PROVE  FirstOnes(q, seen1, expired) /\ UsedUp(q, seen1)
  <2>1. e.alloc = 0 /\ q.pc = "alloc"
    BY <1>8, <1>14 DEF Giving, pc
  <2>2. FirstOnes(old, seen, expired) /\ UsedUp(old, seen)
    BY <1>1, <2>1 DEF Sells, Serving, Giving
  <2>3. seen1[e.batch].avail = e.avail
    BY <1>1, <1>5, <1>e
  <2>4. \A c \in Batches \ {e.batch} : seen1[c] = seen[c]
    BY <1>e
  <2> HIDE DEF e, seen, old
  <2>5. old.ent = e
    BY DEF e
  <2> QED
    BY <1>1, <1>8, <2>1, <2>2, <2>3, <2>4, <2>5, SavedFirstOnes
<1>15. Sells(q, batch', expired')
  BY <1>7, <1>11, <1>13, <1>14 DEF Sells, FreshSave, Serving, seen1
<1>16. \A k \in DOMAIN allocs' : Stocked(allocs'[k].batch)
  BY <1>7 DEF SellInv
<1> QED
  BY <1>1, <1>7, <1>11, <1>15, <1>16, StepSells


\* After the save of an allocation, with or without the movement that follows.
LEMMA PostSells ==
    ASSUME Inv, SellInv, NEW r \in Requests, Alone(r), NEW done \in Request,
           ~InSave(done), Sells(done, batch, expired), Post(r, done),
           UNCHANGED <<batch, expired>>, \A k \in DOMAIN allocs' : Stocked(allocs'[k].batch)
    PROVE  SellInv'
<1> DEFINE p == ProductOf[req[r].ent.batch]
<1>1. \A b \in Batches : GoodRow(b, batch'[b])
  BY DEF SellInv
<1>2. CASE req' = [req EXCEPT ![r] = Idle]
  BY <1>1, <1>2, IdleSells, StepSells
<1>3. CASE ~(req' = [req EXCEPT ![r] = Idle])
  <2>1. PICK x : req' = [req EXCEPT ![r] = [done EXCEPT !.ent = NoEntity, !.wl[p] = x]]
    BY <1>3 DEF Post, Goto
  <2> DEFINE q == [done EXCEPT !.ent = NoEntity, !.wl[p] = x]
  <2>2. /\ q.pc = done.pc /\ q.wa = done.wa /\ q.wb = done.wb /\ q.tx = done.tx
        /\ q.plan = done.plan /\ q.need = done.need
        /\ q.order = done.order /\ q.line = done.line
    BY DEF Request
  <2>3. req' = [req EXCEPT ![r] = q]
    BY <2>1
  <2> HIDE DEF q
  <2>4. Buffers(q)
    BY <2>2, SameBuffers DEF Sells
  <2>5. CASE q.pc = "take"
    <3>1. FirstOnes(done, SeenBy(done, batch), expired)
      BY <2>2, <2>5 DEF Sells, Serving, Giving
    <3>2. SeenBy(q, batch) = SeenBy(done, batch) /\ Product(q) = Product(done)
      BY <2>2 DEF SeenBy, Writes, Product
    <3>3. FirstOnes(q, SeenBy(q, batch), expired)
      BY <2>2, <2>5, <3>1, <3>2 DEF FirstOnes, Gives
    <3>4. UsedUp(q, SeenBy(q, batch))
      BY <2>5 DEF UsedUp
    <3>5. GoodEntity(q) /\ FreshSave(q, SeenBy(q, batch))
      BY <2>5 DEF GoodEntity, FreshSave, InSave
    <3> QED
      BY <1>1, <2>3, <2>4, <3>3, <3>4, <3>5, StepSells DEF Sells, Serving
  <2>6. CASE q.pc # "take"
    <3>1. Sells(q, batch, expired)
      BY <2>2, <2>4, <2>6, QuietSells DEF InSave
    <3> QED
      BY <1>1, <2>3, <3>1, StepSells
  <2> QED
    BY <2>5, <2>6
<1> QED
  BY <1>2, <1>3

\* The row inserted is of the batch in hand; a next one is tried only when it is empty.
LEMMA InsertAllocationSells ==
    ASSUME OwnInv, SellInv, NEW r \in Requests, InsertAllocation(r)
    PROVE  SellInv'
<1> DEFINE q == req[r]
           row == [order |-> q.order, line |-> q.line, batch |-> q.ent.batch,
                   qty |-> q.ent.qty, restored |-> FALSE]
           w == IF q.tx THEN Append(q.wa, row) ELSE q.wa
           x == [q EXCEPT !.wa = w]
           seen == Sees(r)
<1>1. /\ Inv /\ Alone(r) /\ q \in Request /\ Sound(q) /\ Owner(q) /\ Buffers(q)
      /\ q.pc = "alloc" /\ Sells(q, batch, expired) /\ SeenBy(q, batch) = seen
      /\ Stocked(q.ent.batch)
  BY RunnerSells, ReqSells DEF InsertAllocation, Sells, GoodEntity, InSave
<1>2. Post(r, AfterConsume(x)) /\ UNCHANGED <<batch, expired>>
  BY <1>1 DEF InsertAllocation, Request
<1>3. row \in AllocationRow
  BY <1>1
  DEF Sound, HasOrder, HasBatch, MovesUnits, InSave, Owner, AtItem, InItem, AllocationRow,
      Request
<1>4. q.wa \in Seq(AllocationRow) /\ allocs \in Seq(AllocationRow)
  BY <1>1 DEF Request, Inv, TypeOK
<1>5. allocs' = IF q.tx THEN allocs ELSE Append(allocs, row)
  BY DEF InsertAllocation
<1>6. row.batch = q.ent.batch
  OBVIOUS
<1> HIDE DEF row
<1>7. \A k \in DOMAIN allocs' : Stocked(allocs'[k].batch)
  BY <1>1, <1>3, <1>4, <1>5, <1>6 DEF SellInv
<1>8. w \in Seq(AllocationRow) /\ \A k \in DOMAIN w : Stocked(w[k].batch)
  BY <1>1, <1>3, <1>4, <1>6 DEF Buffers
<1> HIDE DEF w
<1>9. /\ x \in Request /\ x.pc = q.pc /\ x.order = q.order /\ x.need = q.need
      /\ x.ent = q.ent /\ x.wb = q.wb /\ x.wa = w /\ x.line = q.line /\ x.tx = q.tx
      /\ x.plan = q.plan
  BY <1>1, <1>8 DEF Request
<1> HIDE DEF x
<1>10. Buffers(x)
  BY <1>1, <1>8, <1>9 DEF Buffers, Candidates, Writes
<1>11. SeenBy(x, batch) = seen /\ Product(x) = Product(q)
  BY <1>1, <1>9 DEF SeenBy, Writes, Product
<1>12. FirstOnes(q, seen, expired) /\ UsedUp(q, seen)
  BY <1>1 DEF Sells, Serving, Giving
<1> HIDE DEF seen
<1>13. ASSUME x.need > 0, NEW b \in BatchesOf(Product(x))
       PROVE  /\ x.plan[b] > 0 => x.plan[b] = seen[b].avail
              /\ x.plan[b] = 0 => seen[b].avail = 0 \/ b \in expired
  <2>1. seen[q.ent.batch].avail = 0
    BY <1>1, <1>9, <1>12, <1>13 DEF UsedUp
  <2> QED
    BY <1>9, <1>11, <1>12, <1>13, <2>1 DEF FirstOnes, Gives
<1>14. Sells(AfterConsume(x), batch, expired)
  BY <1>9, <1>10, <1>11, <1>13, AfterConsumeSells
<1>15. Sound(x)
  BY <1>1, <1>9 DEF Sound, HasOrder, HasNeed, HasBatch, MovesUnits, InSave, WritesNoDebt
<1>16. AfterConsume(x) \in Request /\ ~InSave(AfterConsume(x))
  BY <1>1, <1>9, <1>15, AfterConsumeSound DEF Sound, HasOrder
<1> QED
  BY <1>1, <1>2, <1>7, <1>14, <1>16, PostSells

\* Marking an allocation leaves its batch alone.
LEMMA MarkRestoredSells ==
    ASSUME OwnInv, SellInv, NEW r \in Requests, MarkRestored(r)
    PROVE  SellInv'
<1> DEFINE q == req[r]
<1>1. /\ Inv /\ Alone(r) /\ q \in Request /\ Sound(q) /\ Buffers(q) /\ q.pc = "mark"
      /\ q.order \in Orders
  BY RunnerSells DEF MarkRestored, Sound, HasOrder
<1>2. AfterRestore(q) \in Request /\ ~InSave(AfterRestore(q))
  BY <1>1, AfterRestoreSound DEF Sound
<1>3. Sells(AfterRestore(q), batch, expired)
  BY <1>1, AfterRestoreSells
<1>4. \A k \in DOMAIN allocs' : Stocked(allocs'[k].batch)
  <2>1. allocs \in Seq(AllocationRow)
    BY <1>1 DEF Inv, TypeOK
  <2>2. allocs' = [allocs EXCEPT ![q.ent.alloc] = [@ EXCEPT !.restored = TRUE]]
    BY DEF MarkRestored
  <2>3. DOMAIN allocs' = DOMAIN allocs
    BY <2>1, <2>2
  <2>4. ASSUME NEW k \in DOMAIN allocs
        PROVE  allocs'[k].batch = allocs[k].batch
    <3>1. allocs[k] \in AllocationRow
      BY <2>1, <2>4
    <3> QED
      BY <2>1, <2>2, <2>4, <3>1 DEF AllocationRow
  <2> QED
    BY <2>3, <2>4 DEF SellInv
<1> QED
  BY <1>1, <1>2, <1>3, <1>4, PostSells DEF MarkRestored

\* A commit makes the rows of the transaction those of the tables.
LEMMA FlushSells ==
    ASSUME OwnInv, SellInv, NEW r \in Requests, Flush(r), req[r].pc # "idle", NEW q,
           Goto(r, q), UNCHANGED expired, \A rows, old : Sells(q, rows, old)
    PROVE  SellInv'
<1>1. Inv /\ Alone(r) /\ req[r] \in Request /\ Buffers(req[r])
  BY RunnerSells
<1>2. \A b \in Batches : GoodRow(b, batch'[b])
  BY ReqSells DEF Flush
<1>3. \A k \in DOMAIN allocs' : Stocked(allocs'[k].batch)
  <2>1. allocs \in Seq(AllocationRow) /\ req[r].wa \in Seq(AllocationRow)
    BY <1>1 DEF Inv, TypeOK, Request
  <2>2. allocs' = allocs \o req[r].wa
    BY DEF Flush
  <2>3. \A k \in DOMAIN allocs : Stocked(allocs[k].batch)
    BY DEF SellInv
  <2>4. \A k \in DOMAIN req[r].wa : Stocked(req[r].wa[k].batch)
    BY <1>1 DEF Buffers
  <2> QED
    BY <2>1, <2>2, <2>3, <2>4
<1> QED
  BY <1>1, <1>2, <1>3, StepSells DEF Goto

\* The SELECT of the order's save concerns no batch.
LEMMA SelectOrderSells ==
    ASSUME OwnInv, SellInv, NEW r \in Requests, SelectOrder(r)
    PROVE  SellInv'
<1> DEFINE old == req[r]
<1>1. Inv /\ Alone(r) /\ old \in Request /\ Buffers(old)
  BY RunnerSells DEF SelectOrder
<1>2. PICK d : Goto(r, [old EXCEPT !.pc = "updateOrder", !.cols = d])
  BY DEF SelectOrder
<1> DEFINE q == [old EXCEPT !.pc = "updateOrder", !.cols = d]
<1>3. /\ q.pc = "updateOrder" /\ q.wa = old.wa /\ q.wb = old.wb /\ q.plan = old.plan
      /\ q.tx = old.tx
  BY <1>1 DEF Request
<1>4. req' = [req EXCEPT ![r] = q] /\ UNCHANGED <<batch, allocs, expired>>
  BY <1>2 DEF SelectOrder, Goto
<1> HIDE DEF q
<1>5. Sells(q, batch, expired)
  BY <1>1, <1>3, SameBuffers, QuietSells DEF InSave
<1> QED
  BY <1>1, <1>4, <1>5, LocalStepSells

\* Every statement of a request keeps the batches on sale exactly while they have units.
LEMMA RunSells ==
    ASSUME OwnInv, SellInv, NEW r \in Requests, Run(r) \/ Die(r)
    PROVE  SellInv'
<1>1. CASE Die(r)
  <2>1. Inv /\ Alone(r) /\ Throw(r) /\ UNCHANGED expired
    BY <1>1 DEF Die, OwnInv, SellInv, AloneInv, Alone
  <2> QED
    BY <2>1, ThrowSells
<1>2. CASE DeadlockVictim(r)
  <2>1. \E s \in Requests : s \in WaitsFor(r)
    BY <1>2 DEF DeadlockVictim
  <2>2. req[r].pc = "update"
    BY <2>1 DEF WaitsFor
  <2>3. Inv /\ Alone(r)
    BY <2>2, RunnerSells
  <2> QED
    BY <1>2, <2>3, ThrowSells DEF DeadlockVictim
<1>3. CASE CommitCreate(r)
  <2>1. \A rows, old : Sells(Idle, rows, old)
    BY IdleSells
  <2> QED
    BY <1>3, <2>1, FlushSells DEF CommitCreate
<1>4. CASE UpdateOrder(r)
  <2>1. req[r] \in Request
    BY DEF OwnInv, Inv, TypeOK
  <2>2. \A rows, old : Sells(DoneWithOrder(req[r]), rows, old)
    BY <2>1, DoneSells
  <2> QED
    BY <1>4, <2>2, FlushSells DEF UpdateOrder
<1> QED
  BY <1>1, <1>2, <1>3, <1>4, CheckAllocationsSells, CreateLegacySells,
     ReadCandidatesSells, TakeOldestSells, FindAllocationsSells, ReadBatchSells,
     SelectBatchSells, UpdateBatchSells, InsertAllocationSells, MarkRestoredSells,
     SelectOrderSells
  DEF Run

\* A batch that expires frees the younger ones.
LEMMA ExpireSells ==
    ASSUME OwnInv, SellInv, NEW c \in Batches, Expire(c)
    PROVE  SellInv'
<1>1. UNCHANGED <<batch, allocs, req>> /\ expired \subseteq expired'
  BY DEF Expire
<1>2. ASSUME NEW r \in Requests
      PROVE  Sells(req[r], batch, expired')
  <2>1. Sells(req[r], batch, expired)
    BY DEF SellInv
  <2> QED
    BY <1>1, <2>1 DEF Sells, Serving, FirstOnes
<1> QED
  BY <1>1, <1>2 DEF SellInv, AloneInv

-----------------------------------------------------------------------------
(* Requests that do not overlap *)

\* The invariant holds at first.
LEMMA InitSells == Init => SellInv
<1> SUFFICES ASSUME Init PROVE SellInv
  OBVIOUS
<1>1. \A r \in Requests : req[r] = Idle
  BY DEF Init
<1>2. \A r \in Requests : Sells(req[r], batch, expired)
  BY <1>1, IdleSells
<1>3. ASSUME NEW b \in Batches
      PROVE  GoodRow(b, batch[b])
  <2>1. Received[b] \in Nat /\ (b \in LegacyBatches => Received[b] = 0)
    BY ConstantsAssumption
  <2>2. /\ batch[b].avail = Received[b]
        /\ batch[b].status = IF b \in LegacyBatches THEN "ABSENT"
                             ELSE IF Received[b] > 0 THEN "ACTIVE" ELSE "DEPLETED"
    BY DEF Init
  <2> QED
    BY <2>1, <2>2 DEF GoodRow, Stocked
<1>4. \A k \in DOMAIN allocs : Stocked(allocs[k].batch)
  BY DEF Init
<1> QED
  BY <1>1, <1>2, <1>3, <1>4 DEF SellInv, AloneInv

\* Every step keeps it, when no request begins while another runs.
LEMMA NextSells ==
    ASSUME MaxInFlight = 1, OwnInv, SellInv, [Next]_vars
    PROVE  SellInv'
<1>1. CASE UNCHANGED <<batch, allocs, expired, req>>
  BY <1>1 DEF SellInv, AloneInv
<1>2. ASSUME NEW r \in Requests, Begin(r)
      PROVE  SellInv'
  BY <1>2, BeginSells DEF OwnInv
<1>3. ASSUME NEW r \in Requests, Run(r) \/ Die(r)
      PROVE  SellInv'
  BY <1>3, RunSells
<1> QED
  BY <1>1, <1>2, <1>3, ExpireSells DEF Next, GrowOld, vars

\* Without overlap, a batch is on sale exactly while it has units: the status and the
\* quantity that consumeStock and restoreStockFromAllocations write together stay in
\* step through every sequence of handlers and cron jobs and whatever dies midway.
THEOREM StatusHolds == ASSUME MaxInFlight = 1 PROVE Spec => []StatusMatchesQuantity
<1>1. SellInv => StatusMatchesQuantity
  BY DEF SellInv, GoodRow, StatusMatchesQuantity
<1>2. Init => OwnInv /\ SellInv
  BY InitOwn, InitSells
<1>3. OwnInv /\ SellInv /\ [Next]_vars => (OwnInv /\ SellInv)'
  BY NextKeepsOwn, NextSells
<1> QED
  BY <1>1, <1>2, <1>3, PTL DEF Spec

\* Without overlap, consumeStock takes units from a batch only when the older ones of
\* the product have none left or have expired, also through the batches that a
\* restoration put back on sale.
THEOREM OldestHolds == ASSUME MaxInFlight = 1 PROVE Spec => []OldestFirst
<1>1. OwnInv /\ SellInv => OldestFirst
  <2> SUFFICES ASSUME OwnInv, SellInv, NEW r \in Requests, req[r].pc = "alloc",
                      NEW b \in BatchesOf(Product(req[r])), b < req[r].ent.batch
               PROVE  Sees(r)[b].avail = 0 \/ b \in expired
    BY DEF OldestFirst
  <2>1. /\ req[r] \in Request /\ Sells(req[r], batch, expired)
        /\ SeenBy(req[r], batch) = Sees(r) /\ req[r].ent.batch \in Batches
    BY RunnerSells, ReqSells DEF Sound, HasBatch, InSave
  <2>2. FirstOnes(req[r], Sees(r), expired)
    BY <2>1 DEF Sells, Serving, Giving
  <2>3. b \in Batches /\ b \in Nat /\ req[r].ent.batch \in Nat
    BY <2>1, ConstantsAssumption DEF BatchesOf
  <2>4. req[r].plan[b] \in Nat
    BY <2>1, <2>3 DEF Request
  <2> QED
    BY <2>2, <2>3, <2>4 DEF FirstOnes, Gives
<1>2. Init => OwnInv /\ SellInv
  BY InitOwn, InitSells
<1>3. OwnInv /\ SellInv /\ [Next]_vars => (OwnInv /\ SellInv)'
  BY NextKeepsOwn, NextSells
<1> QED
  BY <1>1, <1>2, <1>3, PTL DEF Spec

-----------------------------------------------------------------------------
(* What is on sale, held and in hand, and what the movements say of it          *)

\* What some batches were received with; what unrestored allocations hold of them; what
\* a request has taken from one and not yet written as held, or given back and
\* not yet written as restored.
SupplyOf(K) == SumOf(Received, K)
HoldsOf(a, k, K) == IF ~a[k].restored /\ a[k].batch \in K THEN a[k].qty ELSE 0
HeldOf(a, K) == Qty(a, {k \in DOMAIN a : ~a[k].restored /\ a[k].batch \in K})
HandOf(q, K) ==
    IF q.pc \notin {"alloc", "mark"} \/ q.ent.batch \notin K THEN 0
    ELSE IF q.pc = "alloc" THEN q.ent.qty ELSE -q.ent.qty

\* How far batches and allocations, and movements and allocations, as request q sees
\* them, are from adding up to what was received.
DriftOf(q, rows, a, K) ==
    SumOver(SeenBy(q, rows), K) + HeldOf(a \o q.wa, K) + HandOf(q, K) - SupplyOf(K)
GapOf(q, led, a, p) ==
    led[p] + q.wl[p] + HeldOf(a \o q.wa, BatchesOf(p)) - SupplyOf(BatchesOf(p))

Cost(f, p) == IF f <= 1 THEN Min({LargestBatch(p), LargestLine(p)}) ELSE LargestLine(p)
Within(x, n) == x <= n /\ -x <= n

\* Both differ by at most the cost of the f requests that died; if none did, every
\* single batch adds up.
Accounts(q, rows, led, a, f) ==
    /\ \A p \in Products :
         /\ Within(DriftOf(q, rows, a, BatchesOf(p)), f * Cost(f, p))
         /\ Within(GapOf(q, led, a, p), f * Cost(f, p))
    /\ f = 0 => \A K \in SUBSET Batches : DriftOf(q, rows, a, K) = 0

\* An allocation is never larger than the line it is for, nor what is being taken.
Small(a) == \A k \in DOMAIN a : a[k].qty <= Cart[a[k].order][a[k].line].qty
TakesSmall(q) ==
    /\ Small(q.wa)
    /\ InItem(q) => q.need + InHandNow(q) <= Cart[q.order][q.line].qty
\* The entity in hand is the row it was read from but for the units it moves.
Change(q) == IF q.ent.alloc = 0 THEN -q.ent.qty ELSE q.ent.qty
FreshUnits(q, seen) ==
    /\ q.pc \in {"select", "update"} => q.ent.avail = seen[q.ent.batch].avail + Change(q)
    /\ q.pc = "alloc" => q.ent.alloc = 0
    /\ q.pc = "mark" => q.ent.qty <= seen[q.ent.batch].avail
\* Stock is given back outside of transactions, for allocations not yet restored.
GivesBack(q, a) ==
    /\ Restoring(q) => ~q.tx
    /\ \A k \in q.todo : ~a[k].restored
    /\ Restoring(q) /\ InSave(q) =>
         /\ q.ent.alloc \in DOMAIN a \ q.todo /\ ~a[q.ent.alloc].restored
         /\ q.ent.batch = a[q.ent.alloc].batch /\ q.ent.qty = a[q.ent.alloc].qty
PostsAtOnce(q) == ~q.tx => q.wl = Idle.wl

Honest(q, rows, a) ==
    /\ TakesSmall(q) /\ FreshUnits(q, SeenBy(q, rows)) /\ GivesBack(q, a) /\ PostsAtOnce(q)

\* What is committed adds up unless a request without a transaction has units in hand.
Settled == \A r \in Requests : req[r] = Idle \/ req[r].tx
AccountInv ==
    /\ Small(allocs)
    /\ Settled => Accounts(Idle, batch, ledger, allocs, used.faults)
    /\ \A r \in Requests :
         /\ Honest(req[r], batch, allocs)
         /\ req[r] # Idle => Accounts(req[r], batch, ledger, allocs, used.faults)

-----------------------------------------------------------------------------
(* Sums over batches and allocations *)

\* Every set of batches is finite.
LEMMA SomeBatches ==
    /\ \A K \in SUBSET Batches : IsFiniteSet(K) /\ \A b \in K : Received[b] \in Nat
    /\ \A p : BatchesOf(p) \in SUBSET Batches
  BY ConstantsAssumption, FS_Subset DEF BatchesOf

\* The units in some batches are a sum over a function of the batches.
LEMMA UnitsSum ==
    ASSUME NEW rows, NEW S
    PROVE  SumOver(rows, S) = SumOf([b \in S |-> rows[b].avail], S)
<1> DEFINE f == [b \in S |-> rows[b].avail]
           adds(g) == [s \in SUBSET S |->
                         IF s = {} THEN 0 ELSE rows[First(s)].avail + g[s \ {First(s)}]]
<1>1. \A g : (g = adds(g)) <=> Adds(g, f, S)
  <2> SUFFICES ASSUME NEW g
               PROVE  adds(g) = [s \in SUBSET S |->
                                   IF s = {} THEN 0 ELSE f[First(s)] + g[s \ {First(s)}]]
    BY DEF Adds
  <2>1. ASSUME NEW s \in SUBSET S, s # {}
        PROVE  f[First(s)] = rows[First(s)].avail
    BY <2>1, FirstIsIn
  <2> HIDE DEF f
  <2> QED
    BY <2>1
<1>2. (CHOOSE g : g = adds(g)) = (CHOOSE g : Adds(g, f, S))
  <2> HIDE DEF f, adds
  <2> QED
    BY <1>1
<1>3. SumOver(rows, S) = (CHOOSE g : g = adds(g))[S]
  BY DEF SumOver, MapThenSumSet, MapThenFoldSet, First
<1> QED
  BY <1>2, <1>3, SumUnfolds

\* The units in some batches, and how they change with one row.
LEMMA UnitsType ==
    ASSUME NEW K \in SUBSET Batches, NEW rows, \A b \in K : rows[b].avail \in Int
    PROVE  /\ SumOver(rows, K) \in Int
           /\ (\A b \in K : rows[b].avail = 0) => SumOver(rows, K) = 0
           /\ (\A b \in K : rows[b].avail >= 0) =>
                SumOver(rows, K) >= 0 /\ \A b \in K : rows[b].avail <= SumOver(rows, K)
<1> DEFINE f == [b \in K |-> rows[b].avail]
<1>1. IsFiniteSet(K) /\ SumOver(rows, K) = SumOf(f, K) /\ \A b \in K : f[b] = rows[b].avail
  BY SomeBatches, UnitsSum
<1> HIDE DEF f
<1>2. SumOf(f, K) \in Int
  BY <1>1, SumType
<1>3. (\A b \in K : rows[b].avail = 0) => SumOf(f, K) = 0
  BY <1>1, SumZeros
<1>4. ASSUME \A b \in K : rows[b].avail >= 0
      PROVE  SumOf(f, K) >= 0 /\ \A b \in K : f[b] <= SumOf(f, K)
  <2>1. \A b \in K : f[b] \in Nat
    BY <1>1, <1>4
  <2> QED
    BY <1>1, <2>1, SumOfNats
<1> QED
  BY <1>1, <1>2, <1>3, <1>4

\* They depend on the rows of those batches only.
LEMMA UnitsSame ==
    ASSUME NEW K \in SUBSET Batches, NEW rows, NEW more, \A b \in K : more[b].avail = rows[b].avail
    PROVE  SumOver(more, K) = SumOver(rows, K)
<1>1. IsFiniteSet(K)
  BY SomeBatches
<1>2. [b \in K |-> more[b].avail] = [b \in K |-> rows[b].avail]
  OBVIOUS
<1> QED
  BY <1>2, UnitsSum

\* A row that changes changes the units in the batches it is one of.
LEMMA UnitsChange ==
    ASSUME NEW K \in SUBSET Batches, NEW rows, NEW more, NEW c \in Batches,
           \A b \in Batches : rows[b].avail \in Int /\ more[b].avail \in Int,
           \A b \in Batches \ {c} : more[b].avail = rows[b].avail
    PROVE  SumOver(more, K) = SumOver(rows, K)
                              + (IF c \in K THEN more[c].avail - rows[c].avail ELSE 0)
<1> DEFINE f == [b \in K |-> rows[b].avail]
           g == [b \in K |-> more[b].avail]
<1>1. SumOver(rows, K) \in Int
  BY UnitsType
<1>2. CASE c \notin K
  <2>1. SumOver(more, K) = SumOver(rows, K)
    BY <1>2, UnitsSame
  <2> QED
    BY <1>1, <1>2, <2>1
<1>3. CASE c \in K
  <2>1. /\ IsFiniteSet(K) /\ SumOver(rows, K) = SumOf(f, K) /\ SumOver(more, K) = SumOf(g, K)
        /\ \A b \in K : f[b] = rows[b].avail /\ g[b] = more[b].avail
    BY SomeBatches, UnitsSum
  <2> HIDE DEF f, g
  <2>2. SumOf(g, K) = SumOf(f, K) + (g[c] - f[c])
    BY <1>3, <2>1, SumChange
  <2> QED
    BY <1>3, <2>1, <2>2
<1> QED
  BY <1>2, <1>3

\* The units some batches are received with.
LEMMA SupplyType ==
    ASSUME NEW K \in SUBSET Batches
    PROVE  SupplyOf(K) \in Nat
  BY SomeBatches, SumOfNats DEF SupplyOf

\* What allocations hold of some batches is a sum over all the rows.
LEMMA HeldSum ==
    ASSUME NEW a \in Seq(AllocationRow), NEW K
    PROVE  /\ HeldOf(a, K) = SumOf([k \in DOMAIN a |-> HoldsOf(a, k, K)], DOMAIN a)
           /\ \A k \in DOMAIN a : HoldsOf(a, k, K) \in Nat
           /\ HeldOf(a, K) \in Nat
           /\ \A k \in DOMAIN a : ~a[k].restored /\ a[k].batch \in K => a[k].qty <= HeldOf(a, K)
<1> DEFINE S == DOMAIN a
           T == {k \in DOMAIN a : ~a[k].restored /\ a[k].batch \in K}
           f == [k \in T |-> a[k].qty]
           g == [k \in S |-> HoldsOf(a, k, K)]
<1>1. IsFiniteSet(S) /\ T \in SUBSET S /\ \A k \in S : a[k].qty \in Nat
  BY RowsOf
<1>2. \A k \in T : f[k] = a[k].qty /\ f[k] \in Int
  BY <1>1
<1>3. \A k \in S : g[k] = IF k \in T THEN f[k] ELSE 0
  BY DEF HoldsOf
<1>4. HeldOf(a, K) = SumOf(f, T)
  BY QtySum DEF HeldOf
<1>5. \A k \in S : g[k] = HoldsOf(a, k, K) /\ g[k] \in Nat
  BY <1>1 DEF HoldsOf
<1>6. \A k \in S : ~a[k].restored /\ a[k].batch \in K => k \in T /\ f[k] = a[k].qty
  OBVIOUS
<1> HIDE DEF f, g, T, S
<1>7. SumOf(g, S) = SumOf(f, T)
  BY <1>1, <1>2, <1>3, SumWhere
<1>8. SumOf(g, S) \in Nat /\ \A k \in S : g[k] <= SumOf(g, S)
  BY <1>1, <1>5, SumOfNats
<1> QED
  BY <1>1, <1>3, <1>4, <1>5, <1>6, <1>7, <1>8 DEF g, S

\* No rows hold anything.
LEMMA HeldNone == ASSUME NEW K PROVE HeldOf(<<>>, K) = 0
<1>1. {k \in DOMAIN <<>> : ~<<>>[k].restored /\ <<>>[k].batch \in K} = {}
  OBVIOUS
<1> QED
  BY <1>1, QtySum, SumEmpty DEF HeldOf

\* A new row holds its units of its batch.
LEMMA HeldAppend ==
    ASSUME NEW a \in Seq(AllocationRow), NEW row \in AllocationRow, NEW K
    PROVE  HeldOf(Append(a, row), K)
             = HeldOf(a, K) + (IF ~row.restored /\ row.batch \in K THEN row.qty ELSE 0)
<1> DEFINE b == Append(a, row)
           n == Len(a) + 1
           f == [k \in DOMAIN a |-> HoldsOf(a, k, K)]
           g == [k \in DOMAIN b |-> HoldsOf(b, k, K)]
<1>1. b \in Seq(AllocationRow) /\ DOMAIN b = DOMAIN a \cup {n} /\ n \notin DOMAIN a
      /\ b[n] = row /\ \A k \in DOMAIN a : b[k] = a[k]
  OBVIOUS
<1>2. HeldOf(a, K) = SumOf(f, DOMAIN a) /\ \A k \in DOMAIN a : f[k] \in Nat
  BY HeldSum
<1> HIDE DEF b
<1>3. HeldOf(b, K) = SumOf(g, DOMAIN b) /\ \A k \in DOMAIN b : g[k] \in Nat
  BY <1>1, HeldSum
<1>4. \A k \in DOMAIN a : g[k] = f[k]
  BY <1>1 DEF HoldsOf
<1>5. g[n] = IF ~row.restored /\ row.batch \in K THEN row.qty ELSE 0
  BY <1>1 DEF HoldsOf
<1>6. IsFiniteSet(DOMAIN a)
  BY RowsOf
<1> HIDE DEF f, g, n
<1>7. SumOf(g, DOMAIN a \cup {n}) = g[n] + SumOf(g, DOMAIN a)
  BY <1>1, <1>3, <1>6, SumInsert
<1>8. SumOf(g, DOMAIN a) = SumOf(f, DOMAIN a)
  BY <1>4, <1>6, SumSame
<1>9. SumOf(f, DOMAIN a) \in Nat /\ g[n] \in Nat
  BY <1>1, <1>2, <1>3, <1>6, SumOfNats
<1>10. HeldOf(b, K) = SumOf(f, DOMAIN a) + g[n]
  BY <1>1, <1>3, <1>7, <1>8, <1>9
<1> QED
  BY <1>2, <1>5, <1>10 DEF b

\* A row that is marked restored holds no more.
LEMMA HeldMarked ==
    ASSUME NEW a \in Seq(AllocationRow), NEW j \in DOMAIN a, ~a[j].restored, NEW K
    PROVE  LET b == [a EXCEPT ![j] = [@ EXCEPT !.restored = TRUE]]
           IN  /\ b \in Seq(AllocationRow) /\ DOMAIN b = DOMAIN a
               /\ b[j] = [a[j] EXCEPT !.restored = TRUE] /\ \A k \in DOMAIN a \ {j} : b[k] = a[k]
               /\ HeldOf(b, K) = HeldOf(a, K) - (IF a[j].batch \in K THEN a[j].qty ELSE 0)
<1> DEFINE b == [a EXCEPT ![j] = [@ EXCEPT !.restored = TRUE]]
           f == [k \in DOMAIN a |-> HoldsOf(a, k, K)]
           g == [k \in DOMAIN b |-> HoldsOf(b, k, K)]
<1>1. a[j] \in AllocationRow
  OBVIOUS
<1>2. [a[j] EXCEPT !.restored = TRUE] \in AllocationRow
  BY <1>1 DEF AllocationRow
<1>3. b \in Seq(AllocationRow) /\ DOMAIN b = DOMAIN a
      /\ b[j] = [a[j] EXCEPT !.restored = TRUE] /\ \A k \in DOMAIN a \ {j} : b[k] = a[k]
  BY <1>2
<1>4. HeldOf(a, K) = SumOf(f, DOMAIN a) /\ \A k \in DOMAIN a : f[k] \in Nat
  BY HeldSum
<1> HIDE DEF b
<1>5. HeldOf(b, K) = SumOf(g, DOMAIN a) /\ \A k \in DOMAIN a : g[k] \in Nat
  BY <1>3, HeldSum
<1>6. \A k \in DOMAIN a \ {j} : g[k] = f[k]
  BY <1>3 DEF HoldsOf
<1>7. g[j] = 0 /\ f[j] = IF a[j].batch \in K THEN a[j].qty ELSE 0
  BY <1>1, <1>3 DEF HoldsOf, AllocationRow
<1>8. IsFiniteSet(DOMAIN a) /\ a[j].qty \in Nat
  BY RowsOf
<1> HIDE DEF f, g
<1>9. SumOf(g, DOMAIN a) = SumOf(f, DOMAIN a) + (g[j] - f[j])
  <2>1. \A k \in DOMAIN a : f[k] \in Int /\ g[k] \in Int
    BY <1>4, <1>5
  <2> QED
    BY <1>6, <1>8, <2>1, SumChange
<1>10. SumOf(f, DOMAIN a) \in Nat
  BY <1>4, <1>8, SumOfNats
<1>11. HeldOf(b, K) = HeldOf(a, K) - (IF a[j].batch \in K THEN a[j].qty ELSE 0)
  BY <1>4, <1>5, <1>7, <1>8, <1>9, <1>10
<1> QED
  BY <1>3, <1>11 DEF b

-----------------------------------------------------------------------------
(* What a crash may cost *)

\* The values of a function on a finite set are finitely many.
LEMMA ImageFinite ==
    ASSUME NEW S, IsFiniteSet(S), NEW f
    PROVE  IsFiniteSet({f[x] : x \in S})
<1> DEFINE T == {f[x] : x \in S}
           h == [x \in S |-> f[x]]
<1>1. h \in Surjection(S, T)
  BY DEF Surjection
<1> HIDE DEF h, T
<1> QED
  BY ONLY <1>1, IsFiniteSet(S), FS_Surjection DEF T

\* Every element of a finite set of naturals is at most the largest.
LEMMA LargestIs ==
    ASSUME NEW S, IsFiniteSet(S), S \subseteq Nat
    PROVE  Largest(S) \in Nat /\ \A x \in S : x <= Largest(S)
<1>1. IsFiniteSet({0} \cup S) /\ {0} \cup S # {} /\ {0} \cup S \subseteq Int
  BY FS_AddElement
<1>2. Max({0} \cup S) \in {0} \cup S /\ \A x \in {0} \cup S : x <= Max({0} \cup S)
  BY ONLY <1>1, MaxIsLargest
<1> DEFINE m == Max({0} \cup S)
<1>3. m \in Nat
  <2>1. m \in {0} \cup S
    BY <1>2
  <2> HIDE DEF m
  <2> QED
    BY ONLY <2>1, S \subseteq Nat, Z3
<1>4. \A x \in S : x <= Max({0} \cup S)
  BY <1>2
<1> QED
  BY ONLY <1>3, <1>4 DEF Largest

\* No line of an order for a product is larger than the largest, and no batch.
LEMMA LargestKnown ==
    /\ \A p : LargestLine(p) \in Nat /\ LargestBatch(p) \in Nat
    /\ \A o \in Orders : \A i \in DOMAIN Cart[o] :
         Cart[o][i].qty <= LargestLine(Cart[o][i].product)
    /\ \A b \in Batches : Received[b] <= LargestBatch(ProductOf[b])
<1> DEFINE Of(o, p) == {j \in DOMAIN Cart[o] : Cart[o][j].product = p}
           Units(o, p) == {Cart[o][i].qty : i \in Of(o, p)}
           All(p) == UNION {Units(o, p) : o \in Orders}
           Got(p) == {Received[b] : b \in BatchesOf(p)}
<1>1. ASSUME NEW o \in Orders, NEW p
      PROVE  IsFiniteSet(Units(o, p)) /\ Units(o, p) \subseteq Nat
  <2>1. Cart[o] \in Seq(Items)
    BY ConstantsAssumption
  <2>2. DOMAIN Cart[o] = 1..Len(Cart[o]) /\ Len(Cart[o]) \in Nat
    BY <2>1
  <2>3. IsFiniteSet(DOMAIN Cart[o])
    BY <2>2, FS_Interval
  <2>4. IsFiniteSet(Of(o, p))
    BY <2>3, FS_Subset
  <2>5. \A i \in Of(o, p) : Cart[o][i].qty \in Nat
    BY ItemOfCart
  <2> DEFINE f == [i \in Of(o, p) |-> Cart[o][i].qty]
  <2>6. Units(o, p) = {f[i] : i \in Of(o, p)}
    OBVIOUS
  <2> HIDE DEF f
  <2>7. IsFiniteSet({f[i] : i \in Of(o, p)})
    BY <2>4, ImageFinite
  <2> QED
    BY <2>5, <2>6, <2>7
<1>2. ASSUME NEW p
      PROVE  IsFiniteSet(All(p)) /\ All(p) \subseteq Nat
  <2> HIDE DEF Units
  <2> DEFINE f == [o \in Orders |-> Units(o, p)]
  <2>0. {Units(o, p) : o \in Orders} = {f[o] : o \in Orders}
    OBVIOUS
  <2>1. IsFiniteSet({Units(o, p) : o \in Orders})
    <3> HIDE DEF f
    <3>0. IsFiniteSet(Orders)
      BY ConstantsAssumption
    <3>1. IsFiniteSet({f[o] : o \in Orders})
      BY ONLY <3>0, ImageFinite
    <3> QED
      BY <2>0, <3>1
  <2>2. \A U \in {Units(o, p) : o \in Orders} : IsFiniteSet(U)
    BY <1>1
  <2>3. IsFiniteSet(All(p))
    BY <2>1, <2>2, FS_UNION
  <2> QED
    BY <1>1, <2>3
<1>3. ASSUME NEW p
      PROVE  IsFiniteSet(Got(p)) /\ Got(p) \subseteq Nat
  <2>1. IsFiniteSet(BatchesOf(p)) /\ \A b \in BatchesOf(p) : Received[b] \in Nat
    BY SomeBatches
  <2>2. IsFiniteSet(Got(p))
    BY <2>1, ImageFinite
  <2> QED
    BY <2>1, <2>2
<1>4. \A p : LargestLine(p) = Largest(All(p)) /\ LargestBatch(p) = Largest(Got(p))
  BY DEF LargestLine, LargestBatch
<1>5. ASSUME NEW o \in Orders, NEW i \in DOMAIN Cart[o]
      PROVE  Cart[o][i].qty \in All(Cart[o][i].product)
  OBVIOUS
<1>6. ASSUME NEW b \in Batches
      PROVE  Received[b] \in Got(ProductOf[b])
  BY DEF BatchesOf
<1> HIDE DEF All, Got
<1> QED
  BY <1>2, <1>3, <1>4, <1>5, <1>6, LargestIs

\* The smaller of two numbers.
LEMMA MinOfTwo ==
    ASSUME NEW m \in Nat, NEW n \in Nat
    PROVE  Min({m, n}) \in Nat /\ Min({m, n}) <= m /\ Min({m, n}) <= n
           /\ \A k \in Nat : k <= m /\ k <= n => k <= Min({m, n})
<1>1. \E x \in {m, n} : \A y \in {m, n} : x <= y
  OBVIOUS
<1>2. Min({m, n}) \in {m, n} /\ \A y \in {m, n} : Min({m, n}) <= y
  BY <1>1 DEF Min
<1> QED
  BY <1>2

\* What f crashes cost is 0 for none.  One more may cost what a line of an order and,
\* if it is the first, a batch may hold.
LEMMA CostOfCrash ==
    ASSUME NEW f \in Nat, NEW p, NEW x \in Int, NEW n \in Nat, n <= LargestLine(p),
           f = 0 => n <= LargestBatch(p), Within(x, f * Cost(f, p))
    PROVE  /\ Within(x + n, (f + 1) * Cost(f + 1, p)) /\ Within(x - n, (f + 1) * Cost(f + 1, p))
           /\ f = 0 => x = 0
<1> DEFINE L == LargestLine(p)
           M == Min({LargestBatch(p), L})
<1>1. L \in Nat /\ M \in Nat /\ M <= L /\ (f = 0 => n <= M)
  BY LargestKnown, MinOfTwo
<1>2. \A g : Cost(g, p) = IF g <= 1 THEN M ELSE L
  BY DEF Cost
<1>3. n <= L
  OBVIOUS
<1> HIDE DEF M, L
<1>4. CASE f = 0
  <2>1. f * Cost(f, p) = 0 /\ (f + 1) * Cost(f + 1, p) = M
    BY <1>1, <1>2, <1>4
  <2> QED
    BY <1>1, <1>4, <2>1 DEF Within
<1>5. CASE f = 1
  <2>1. f * Cost(f, p) = M /\ (f + 1) * Cost(f + 1, p) = L + L
    BY <1>1, <1>2, <1>5
  <2> QED
    BY <1>1, <1>3, <1>5, <2>1 DEF Within
<1>6. CASE f > 1
  <2>1. f * Cost(f, p) = f * L /\ (f + 1) * Cost(f + 1, p) = f * L + L /\ f * L \in Int
    BY <1>1, <1>2, <1>6
  <2> QED
    BY <1>1, <1>3, <1>6, <2>1 DEF Within
<1> QED
  BY <1>4, <1>5, <1>6

-----------------------------------------------------------------------------
(* How the accounts change with a step *)

NoHand(q) == q.pc \notin {"alloc", "mark"}
\* A request that has written nothing that is not committed.
Plain(q) == (\A b \in Batches : ~Writes(q, b)) /\ q.wa = <<>> /\ q.wl = Idle.wl

\* The accounts are sums of integers.
LEMMA ViewType ==
    ASSUME NEW q \in Request, NEW rows \in [Batches -> BatchRow], NEW led \in [Products -> Int],
           NEW a \in Seq(AllocationRow)
    PROVE  /\ SeenBy(q, rows) \in [Batches -> BatchRow]
           /\ \A b \in Batches : SeenBy(q, rows)[b].avail \in Int
           /\ a \o q.wa \in Seq(AllocationRow)
           /\ \A K \in SUBSET Batches :
                /\ SumOver(SeenBy(q, rows), K) \in Int /\ HeldOf(a \o q.wa, K) \in Int
                /\ HandOf(q, K) \in Int /\ SupplyOf(K) \in Int
                /\ DriftOf(q, rows, a, K) \in Int
           /\ \A p \in Products : led[p] + q.wl[p] \in Int /\ GapOf(q, led, a, p) \in Int
<1>1. SeenBy(q, rows) \in [Batches -> BatchRow]
  <2>1. q.wb \in [Batches -> BatchRow]
    BY DEF Request
  <2> QED
    BY <2>1 DEF SeenBy
<1>2. \A b \in Batches : SeenBy(q, rows)[b].avail \in Int
  BY <1>1 DEF BatchRow
<1>3. a \o q.wa \in Seq(AllocationRow)
  <2>1. q.wa \in Seq(AllocationRow)
    BY DEF Request
  <2> QED
    BY <2>1
<1>4. ASSUME NEW K \in SUBSET Batches
      PROVE  /\ SumOver(SeenBy(q, rows), K) \in Int /\ HeldOf(a \o q.wa, K) \in Int
             /\ HandOf(q, K) \in Int /\ SupplyOf(K) \in Int
  <2>1. SumOver(SeenBy(q, rows), K) \in Int
    BY <1>2, UnitsType
  <2>2. HeldOf(a \o q.wa, K) \in Int
    <3> DEFINE w == a \o q.wa
    <3>1. w \in Seq(AllocationRow)
      BY <1>3
    <3> HIDE DEF w
    <3>2. HeldOf(w, K) \in Nat
      BY <3>1, HeldSum
    <3> QED
      BY <3>2 DEF w
  <2>3. SupplyOf(K) \in Int
    BY SupplyType
  <2>4. HandOf(q, K) \in Int
    BY DEF HandOf, Request
  <2> QED
    BY <2>1, <2>2, <2>3, <2>4
<1>5. ASSUME NEW p \in Products
      PROVE  led[p] + q.wl[p] \in Int /\ GapOf(q, led, a, p) \in Int
  <2>1. q.wl[p] \in Int /\ BatchesOf(p) \in SUBSET Batches
    BY SomeBatches DEF Request
  <2>2. HeldOf(a \o q.wa, BatchesOf(p)) \in Int /\ SupplyOf(BatchesOf(p)) \in Int
    BY <1>4, <2>1
  <2> QED
    BY <2>1, <2>2 DEF GapOf
<1>6. \A K \in SUBSET Batches : DriftOf(q, rows, a, K) \in Int
  BY <1>4 DEF DriftOf
<1> QED
  BY <1>1, <1>2, <1>3, <1>4, <1>5, <1>6

\* Two requests that see the same have the same accounts.
LEMMA SameAccounts ==
    ASSUME NEW q, NEW x, NEW rows, NEW more, NEW led, NEW later, NEW a, NEW b, NEW f,
           SeenBy(q, more) = SeenBy(x, rows), b \o q.wa = a \o x.wa,
           \A p \in Products : later[p] + q.wl[p] = led[p] + x.wl[p],
           \A K \in SUBSET Batches : HandOf(q, K) = HandOf(x, K),
           Accounts(x, rows, led, a, f)
    PROVE  Accounts(q, more, later, b, f)
<1>1. \A K \in SUBSET Batches : DriftOf(q, more, b, K) = DriftOf(x, rows, a, K)
  BY DEF DriftOf
<1>2. \A p \in Products : GapOf(q, later, b, p) = GapOf(x, led, a, p)
  BY DEF GapOf
<1> QED
  BY <1>1, <1>2, SomeBatches DEF Accounts

\* What requests see that have nothing in hand and have written nothing uncommitted.
LEMMA PlainAccounts ==
    ASSUME NEW q, NEW x, Plain(q), Plain(x), NoHand(q), NoHand(x),
           NEW rows, NEW led, NEW a, NEW f, Accounts(x, rows, led, a, f)
    PROVE  Accounts(q, rows, led, a, f)
<1>1. SeenBy(q, rows) = SeenBy(x, rows)
  BY DEF SeenBy, Plain
<1>2. \A K \in SUBSET Batches : HandOf(q, K) = HandOf(x, K)
  BY DEF HandOf, NoHand
<1> QED
  BY <1>1, <1>2, SameAccounts DEF Plain

\* A request at rest has written nothing.
LEMMA IdlePlain == Plain(Idle) /\ NoHand(Idle) /\ Idle.tx = FALSE /\ Idle.todo = {}
<1>1. /\ Idle.wb = [b \in Batches |-> NoBatchRow] /\ Idle.wa = <<>> /\ Idle.pc = "idle"
      /\ Idle.tx = FALSE /\ Idle.todo = {}
  BY DEF Idle
<1> QED
  BY <1>1 DEF Plain, NoHand, Writes, NoBatchRow

\* A step after which everything adds up as before.
LEMMA ShiftAccounts ==
    ASSUME NEW q, NEW x, NEW rows, NEW more, NEW led, NEW later, NEW a, NEW b, NEW f,
           \A K \in SUBSET Batches : DriftOf(q, more, b, K) = DriftOf(x, rows, a, K),
           \A p \in Products : GapOf(q, later, b, p) = GapOf(x, led, a, p),
           Accounts(x, rows, led, a, f)
    PROVE  Accounts(q, more, later, b, f)
  BY SomeBatches DEF Accounts

\* A step that loses or doubles n units of batch c, because the request died.
LEMMA CrashAccounts ==
    ASSUME NEW q, NEW x, NEW rows, NEW more, NEW led, NEW later, NEW a, NEW b, NEW f \in Nat,
           NEW c \in Batches, NEW n \in Nat, n <= LargestLine(ProductOf[c]),
           f = 0 => n <= Received[c], NEW d \in {0, n, -n}, NEW e \in {0, n, -n},
           \A K \in SUBSET Batches : DriftOf(x, rows, a, K) \in Int,
           \A p \in Products : GapOf(x, led, a, p) \in Int,
           \A K \in SUBSET Batches :
             DriftOf(q, more, b, K) = DriftOf(x, rows, a, K) + (IF c \in K THEN d ELSE 0),
           \A p \in Products :
             GapOf(q, later, b, p) = GapOf(x, led, a, p) + (IF ProductOf[c] = p THEN e ELSE 0),
           Accounts(x, rows, led, a, f)
    PROVE  Accounts(q, more, later, b, f + 1)
<1> DEFINE g == f + 1
<1>1. ASSUME NEW p \in Products, NEW y \in Int, NEW m \in {0, n, -n},
             m = 0 \/ ProductOf[c] = p, Within(y, f * Cost(f, p))
      PROVE  Within(y + m, g * Cost(g, p))
  <2> DEFINE k == IF m = 0 THEN 0 ELSE n
  <2>1. k \in Nat /\ k <= LargestLine(p) /\ (f = 0 => k <= LargestBatch(p))
    <3>1. LargestLine(p) \in Nat /\ LargestBatch(p) \in Nat
      BY LargestKnown
    <3>2. CASE m = 0
      BY <3>1, <3>2
    <3>3. CASE m # 0
      <4>1. ProductOf[c] = p /\ Received[c] <= LargestBatch(p) /\ Received[c] \in Nat
        BY <1>1, <3>3, LargestKnown, ConstantsAssumption
      <4> QED
        BY <3>1, <3>3, <4>1
    <3> QED
      BY <3>2, <3>3
  <2>2. m \in Int /\ (m = k \/ m = -k)
    BY <1>1
  <2> HIDE DEF k
  <2>3. Within(y + k, g * Cost(g, p)) /\ Within(y - k, g * Cost(g, p))
    BY <1>1, <2>1, CostOfCrash
  <2>4. m = -k => y + m = y - k
    BY <2>1, <2>2
  <2> QED
    BY <2>2, <2>3, <2>4
<1>2. ASSUME NEW p \in Products
      PROVE  /\ Within(DriftOf(q, more, b, BatchesOf(p)), g * Cost(g, p))
             /\ Within(GapOf(q, later, b, p), g * Cost(g, p))
  <2> DEFINE y == DriftOf(x, rows, a, BatchesOf(p))
             z == GapOf(x, led, a, p)
             m == IF ProductOf[c] = p THEN d ELSE 0
             o == IF ProductOf[c] = p THEN e ELSE 0
  <2>1. BatchesOf(p) \in SUBSET Batches /\ (c \in BatchesOf(p) <=> ProductOf[c] = p)
    BY DEF BatchesOf
  <2>2. DriftOf(q, more, b, BatchesOf(p)) = y + m /\ y \in Int
    BY <2>1
  <2>3. GapOf(q, later, b, p) = z + o /\ z \in Int
    OBVIOUS
  <2>4. /\ m \in {0, n, -n} /\ (m = 0 \/ ProductOf[c] = p)
        /\ o \in {0, n, -n} /\ (o = 0 \/ ProductOf[c] = p)
    OBVIOUS
  <2>5. Within(y, f * Cost(f, p)) /\ Within(z, f * Cost(f, p))
    BY DEF Accounts
  <2> HIDE DEF y, z, m, o, g
  <2> QED
    BY <1>1, <2>2, <2>3, <2>4, <2>5
<1>3. g # 0
  OBVIOUS
<1> HIDE DEF g
<1>4. Accounts(q, more, later, b, g)
  BY <1>2, <1>3 DEF Accounts
<1> QED
  BY <1>4 DEF g

-----------------------------------------------------------------------------
(* Steps of the request that runs *)

\* What every step of the request that runs has to show.
LEMMA StepAccounts ==
    ASSUME Inv, NEW r \in Requests, Alone(r), NEW q, req' = [req EXCEPT ![r] = q],
           Small(allocs'), Honest(q, batch', allocs'),
           Accounts(q, batch', ledger', allocs', used.faults'),
           q.tx => Accounts(Idle, batch', ledger', allocs', used.faults'),
           Honest(Idle, batch', allocs')
    PROVE  AccountInv'
<1>1. req'[r] = q /\ \A s \in Requests \ {r} : req'[s] = Idle
  BY DEF Alone, Inv, TypeOK
<1>2. Settled' => Accounts(Idle, batch', ledger', allocs', used.faults')
  BY <1>1 DEF Settled
<1> QED
  BY <1>1, <1>2 DEF AccountInv

\* A request outside of items and saves that has found nothing to restore is honest.
LEMMA QuietHonest ==
    ASSUME NEW q, ~InItem(q), ~InSave(q), NEW a, \A k \in q.todo : ~a[k].restored,
           Restoring(q) => ~q.tx, Small(q.wa), PostsAtOnce(q), NEW rows
    PROVE  Honest(q, rows, a)
  BY DEF Honest, TakesSmall, FreshUnits, GivesBack, InSave

\* A request at rest is honest.
LEMMA IdleHonest == ASSUME NEW rows, NEW a PROVE Honest(Idle, rows, a)
<1>1. /\ Idle.pc = "idle" /\ Idle.todo = {} /\ Idle.wa = <<>> /\ Idle.tx = FALSE
  BY DEF Idle
<1> QED
  BY <1>1, QuietHonest DEF InItem, InSave, Restoring, PostsAtOnce, Small

\* What is known of the one request that runs.
LEMMA RunnerAccounts ==
    ASSUME ProgressInv, SellInv, AccountInv, NEW r \in Requests, req[r].pc # "idle"
    PROVE  /\ Inv /\ Alone(r) /\ req[r] \in Request /\ Sound(req[r]) /\ Owner(req[r])
           /\ Buffers(req[r]) /\ Honest(req[r], batch, allocs) /\ Small(allocs)
           /\ Accounts(req[r], batch, ledger, allocs, used.faults)
           /\ req[r].tx => Accounts(Idle, batch, ledger, allocs, used.faults)
           /\ ~req[r].tx => Plain(req[r])
           /\ req[r].todo \subseteq DOMAIN allocs
           /\ SeenBy(req[r], batch) = Sees(r)
<1>1. /\ OwnInv /\ Inv /\ Alone(r) /\ req[r] \in Request /\ Sound(req[r]) /\ Owner(req[r])
      /\ Buffers(req[r]) /\ req[r].todo \subseteq DOMAIN allocs /\ Progress(req[r])
      /\ SeenBy(req[r], batch) = Sees(r)
  BY RunnerSells, ReqSells DEF ProgressInv
<1>2. Honest(req[r], batch, allocs) /\ Small(allocs)
  BY DEF AccountInv
<1>3. Accounts(req[r], batch, ledger, allocs, used.faults)
  BY IdleType DEF AccountInv
<1>4. req[r].tx => Settled
  BY <1>1 DEF Alone, Settled
<1>5. ~req[r].tx => Plain(req[r])
  BY <1>1, <1>2 DEF Plain, Buffers, Honest, PostsAtOnce, Progress
<1> QED
  BY <1>1, <1>2, <1>3, <1>4, <1>5 DEF AccountInv

\* A step that changes no table and nothing of what the request sees.
LEMMA LocalAccounts ==
    ASSUME ProgressInv, SellInv, AccountInv, NEW r \in Requests, req[r].pc # "idle",
           NEW q, req' = [req EXCEPT ![r] = q], UNCHANGED <<batch, ledger, allocs, used>>,
           NoHand(q), NoHand(req[r]), SeenBy(q, batch) = SeenBy(req[r], batch),
           q.wa = req[r].wa, q.wl = req[r].wl, q.tx => req[r].tx, Honest(q, batch, allocs)
    PROVE  AccountInv'
<1>1. /\ Inv /\ Alone(r) /\ Small(allocs)
      /\ Accounts(req[r], batch, ledger, allocs, used.faults)
      /\ req[r].tx => Accounts(Idle, batch, ledger, allocs, used.faults)
  BY RunnerAccounts
<1>2. \A K \in SUBSET Batches : HandOf(q, K) = HandOf(req[r], K)
  BY DEF HandOf, NoHand
<1>3. Accounts(q, batch, ledger, allocs, used.faults)
  BY <1>1, <1>2, SameAccounts
<1> QED
  BY <1>1, <1>3, IdleHonest, StepAccounts

\* A request that ends with an exception had nothing in hand.
LEMMA ThrowAccounts ==
    ASSUME ProgressInv, SellInv, AccountInv, NEW r \in Requests, req[r].pc # "idle",
           NoHand(req[r]), Throw(r), UNCHANGED used
    PROVE  AccountInv'
<1>1. /\ Inv /\ Alone(r) /\ Small(allocs)
      /\ Accounts(req[r], batch, ledger, allocs, used.faults)
      /\ req[r].tx => Accounts(Idle, batch, ledger, allocs, used.faults)
      /\ ~req[r].tx => Plain(req[r])
  BY RunnerAccounts
<1>2. Accounts(Idle, batch, ledger, allocs, used.faults)
  BY <1>1, IdlePlain, PlainAccounts
<1> QED
  BY <1>1, <1>2, IdleHonest, StepAccounts DEF Throw, Goto, db

\* A handler that is done with an order has nothing more to write for it.
LEMMA DoneView ==
    ASSUME NEW q
    PROVE  LET x == DoneWithOrder(q)
           IN  ~x.tx /\ Plain(x) /\ NoHand(x) /\ ~InItem(x) /\ ~InSave(x) /\ x.todo = {}
<1> DEFINE rest == [q.rows EXCEPT ![q.order] = NoRow]
           x == [Idle EXCEPT !.op = q.op, !.pc = "find", !.rows = rest]
<1>1. x.pc = "find" /\ x.tx = FALSE /\ x.wb = Idle.wb /\ x.wa = Idle.wa /\ x.wl = Idle.wl
      /\ x.todo = {}
  BY DEF Idle
<1> HIDE DEF x
<1>2. ~x.tx /\ Plain(x) /\ NoHand(x) /\ ~InItem(x) /\ ~InSave(x) /\ x.todo = {}
  BY <1>1, IdlePlain DEF Plain, Writes, NoHand, InItem, InSave
<1>3. Idle.pc = "idle"
  BY IdleType
<1>4. ~Idle.tx /\ Plain(Idle) /\ NoHand(Idle) /\ ~InItem(Idle) /\ ~InSave(Idle) /\ Idle.todo = {}
  BY <1>3, IdlePlain DEF InItem, InSave
<1> QED
  BY <1>2, <1>4 DEF DoneWithOrder, x

\* A cron job that goes on, or a handler that goes on to its order, sees what it saw.
LEMMA AfterRestoreView ==
    ASSUME NEW q \in Request, ~q.tx, Plain(q)
    PROVE  LET x == AfterRestore(q)
           IN  /\ ~x.tx /\ Plain(x) /\ NoHand(x) /\ ~InItem(x) /\ ~InSave(x)
               /\ x.todo \subseteq q.todo
<1>1. ASSUME NEW pc \in {"batch", "selectOrder"}
      PROVE  LET x == [q EXCEPT !.pc = pc]
             IN  ~x.tx /\ Plain(x) /\ NoHand(x) /\ ~InItem(x) /\ ~InSave(x) /\ x.todo = q.todo
  <2> DEFINE x == [q EXCEPT !.pc = pc]
  <2>1. x.pc = pc /\ x.tx = q.tx /\ x.wb = q.wb /\ x.wa = q.wa /\ x.wl = q.wl /\ x.todo = q.todo
    BY DEF Request
  <2> HIDE DEF x
  <2>2. ~x.tx /\ Plain(x) /\ NoHand(x) /\ ~InItem(x) /\ ~InSave(x) /\ x.todo = q.todo
    BY <2>1 DEF Plain, Writes, NoHand, InItem, InSave
  <2> QED
    BY <2>2 DEF x
<1>2. LET x == DoneWithOrder(q)
      IN  ~x.tx /\ Plain(x) /\ NoHand(x) /\ ~InItem(x) /\ ~InSave(x) /\ x.todo = {}
  BY DoneView
<1> QED
  BY <1>1, <1>2 DEF AfterRestore

\* It is honest again.
LEMMA AfterRestoreHonest ==
    ASSUME NEW q \in Request, ~q.tx, Plain(q), NEW a, \A k \in q.todo : ~a[k].restored, NEW rows
    PROVE  Honest(AfterRestore(q), rows, a)
<1> DEFINE x == AfterRestore(q)
<1>1. /\ ~x.tx /\ Plain(x) /\ NoHand(x) /\ ~InItem(x) /\ ~InSave(x)
      /\ x.todo \subseteq q.todo
  BY AfterRestoreView
<1> HIDE DEF x
<1>2. Honest(x, rows, a)
  BY <1>1, QuietHonest DEF Plain, PostsAtOnce, Small
<1> QED
  BY <1>2 DEF x

\* The first item: all of it is needed.
LEMMA FirstItemHonest ==
    ASSUME NEW q \in Request, q.order \in Orders, Small(q.wa), PostsAtOnce(q), NEW rows,
           NEW a, \A k \in q.todo : ~a[k].restored
    PROVE  LET x == FirstItem(q)
           IN  /\ Honest(x, rows, a) /\ x.wb = q.wb /\ x.wa = q.wa /\ x.wl = q.wl /\ x.tx = q.tx
               /\ NoHand(x)
<1> DEFINE n == Cart[q.order][1].qty
           x == [q EXCEPT !.pc = "read", !.line = 1, !.need = n]
<1>1. Cart[q.order] \in Seq(Items) /\ Len(Cart[q.order]) > 0
  BY ConstantsAssumption
<1>2. n \in Nat
  BY <1>1, ItemOfCart
<1>3. /\ x.pc = "read" /\ x.order = q.order /\ x.line = 1 /\ x.need = n /\ x.wa = q.wa
      /\ x.tx = q.tx /\ x.wl = q.wl /\ x.wb = q.wb /\ x.todo = q.todo
  BY DEF Request
<1>4. FirstItem(q) = x
  BY DEF FirstItem
<1>e. Cart[x.order][x.line].qty = n
  BY <1>3
<1> HIDE DEF x, n
<1>5. Honest(x, rows, a)
  <2>1. x.need + InHandNow(x) <= Cart[x.order][x.line].qty
    BY <1>2, <1>3, <1>e DEF InHandNow
  <2> QED
    BY <1>3, <2>1 DEF Honest, TakesSmall, FreshUnits, GivesBack, PostsAtOnce, Restoring, InSave
<1> QED
  BY <1>3, <1>4, <1>5 DEF NoHand

\* After the batch in hand was taken: the rest of the item, or the next item, is needed.
LEMMA AfterConsumeHonest ==
    ASSUME NEW q \in Request, q.order \in Orders, q.line \in DOMAIN Cart[q.order],
           q.need <= Cart[q.order][q.line].qty, Small(q.wa), PostsAtOnce(q),
           NEW rows, NEW a, \A k \in q.todo : ~a[k].restored
    PROVE  LET x == AfterConsume(q)
           IN  /\ Honest(x, rows, a) /\ x.wb = q.wb /\ x.wa = q.wa /\ x.wl = q.wl /\ x.tx = q.tx
               /\ NoHand(x) /\ x.todo = q.todo /\ x.pc # "idle"
<1> DEFINE Good(x) == /\ x.wb = q.wb /\ x.wa = q.wa /\ x.wl = q.wl /\ x.tx = q.tx /\ x.todo = q.todo
<1>1. Cart[q.order] \in Seq(Items) /\ q.line \in Nat /\ q.need \in Nat
  BY ConstantsAssumption DEF Request
<1>2. ASSUME NEW x, Good(x), x.pc \in {"take", "read"}, x.need \in Nat, x.order = q.order,
             x.need <= Cart[q.order][x.line].qty
      PROVE  Honest(x, rows, a) /\ NoHand(x) /\ x.pc # "idle"
  <2>1. x.need + InHandNow(x) <= Cart[x.order][x.line].qty
    BY <1>2 DEF InHandNow
  <2> QED
    BY <1>2, <2>1
    DEF Honest, TakesSmall, FreshUnits, GivesBack, PostsAtOnce, Restoring, InSave, NoHand
<1>3. CASE q.need > 0
  <2> DEFINE x == [q EXCEPT !.pc = "take"]
  <2>1. Good(x) /\ x.pc = "take" /\ x.need = q.need /\ x.order = q.order /\ x.line = q.line
    BY DEF Request
  <2>2. AfterConsume(q) = x
    BY <1>3 DEF AfterConsume
  <2> HIDE DEF x
  <2> QED
    BY <1>1, <1>2, <2>1, <2>2
<1>4. CASE ~(q.need > 0) /\ q.line < Len(Cart[q.order])
  <2> DEFINE n == Cart[q.order][q.line + 1].qty
             x == [q EXCEPT !.pc = "read", !.line = @ + 1, !.need = n, !.plan = NoCandidates]
  <2>1. /\ Good(x) /\ x.pc = "read" /\ x.need = n /\ x.order = q.order /\ x.line = q.line + 1
    BY DEF Request
  <2>2. AfterConsume(q) = x
    BY <1>4 DEF AfterConsume
  <2>3. q.line + 1 \in DOMAIN Cart[q.order]
    BY <1>1, <1>4
  <2>4. n \in Nat /\ n <= n
    BY <2>3, ItemOfCart
  <2>e. Cart[q.order][x.line].qty = n
    BY <2>1
  <2> HIDE DEF x, n
  <2> QED
    BY <1>2, <2>1, <2>2, <2>4, <2>e
<1>5. CASE ~(q.need > 0) /\ ~(q.line < Len(Cart[q.order]))
  <2> DEFINE pc == IF q.op = "create" THEN "commit" ELSE "selectOrder"
             x == [q EXCEPT !.pc = pc, !.plan = NoCandidates]
  <2>1. Good(x) /\ x.pc = pc
    BY DEF Request
  <2>2. AfterConsume(q) = x
    BY <1>5 DEF AfterConsume
  <2>3. pc \in {"commit", "selectOrder"}
    OBVIOUS
  <2> HIDE DEF x, pc
  <2>4. Honest(x, rows, a)
    BY <2>1, <2>3, QuietHonest DEF InItem, InSave, Restoring, PostsAtOnce
  <2> QED
    BY <2>1, <2>2, <2>3, <2>4 DEF NoHand
<1> QED
  BY <1>3, <1>4, <1>5

-----------------------------------------------------------------------------
(* Statements that move no units *)

\* A consumption begins with the first item, or is not needed.
LEMMA CheckAllocationsAccounts ==
    ASSUME ProgressInv, SellInv, AccountInv, NEW r \in Requests, CheckAllocations(r)
    PROVE  AccountInv'
<1> DEFINE old == req[r]
           skip == [old EXCEPT !.pc = "selectOrder"]
<1>1. /\ old \in Request /\ old.order \in Orders /\ Honest(old, batch, allocs) /\ old.pc = "has"
  BY RunnerAccounts DEF CheckAllocations, Sound, HasOrder
<1>2. req' = [req EXCEPT ![r] = skip] \/ req' = [req EXCEPT ![r] = FirstItem(old)]
  BY DEF CheckAllocations, Goto
<1>3. UNCHANGED <<batch, ledger, allocs, used>>
  BY DEF CheckAllocations
<1>4. /\ \A k \in old.todo : ~allocs[k].restored
      /\ Small(old.wa) /\ PostsAtOnce(old)
  BY <1>1 DEF Honest, TakesSmall, GivesBack
<1>5. /\ skip.wb = old.wb /\ skip.wa = old.wa /\ skip.wl = old.wl /\ skip.tx = old.tx
      /\ skip.pc = "selectOrder" /\ skip.todo = old.todo
  BY <1>1 DEF Request
<1> DEFINE q == FirstItem(old)
<1>6. /\ Honest(q, batch, allocs) /\ q.wb = old.wb /\ q.wa = old.wa /\ q.wl = old.wl
      /\ q.tx = old.tx /\ NoHand(q)
  BY <1>1, <1>4, FirstItemHonest
<1> HIDE DEF skip, q
<1>7. Honest(skip, batch, allocs) /\ NoHand(skip)
  BY <1>4, <1>5, QuietHonest DEF InItem, InSave, Restoring, PostsAtOnce, NoHand
<1>8. SeenBy(skip, batch) = SeenBy(old, batch) /\ SeenBy(q, batch) = SeenBy(old, batch)
  BY <1>5, <1>6 DEF SeenBy, Writes
<1>9. req[r].pc # "idle" /\ NoHand(req[r])
  BY <1>1 DEF NoHand
<1>10. CASE req' = [req EXCEPT ![r] = skip]
  BY <1>3, <1>5, <1>7, <1>8, <1>9, <1>10, LocalAccounts
<1>11. CASE req' = [req EXCEPT ![r] = q]
  BY <1>3, <1>6, <1>8, <1>9, <1>11, LocalAccounts
<1> QED
  BY <1>2, <1>10, <1>11 DEF q

\* Reading the candidates.
LEMMA ReadCandidatesAccounts ==
    ASSUME ProgressInv, SellInv, AccountInv, NEW r \in Requests, ReadCandidates(r)
    PROVE  AccountInv'
<1> DEFINE old == req[r]
<1>1. /\ old \in Request /\ Honest(old, batch, allocs) /\ old.pc = "read"
  BY RunnerAccounts DEF ReadCandidates
<1>2. req[r].pc # "idle" /\ NoHand(req[r]) /\ UNCHANGED used
  BY <1>1 DEF NoHand, ReadCandidates
<1>3. CASE Throw(r)
  BY <1>2, <1>3, ThrowAccounts
<1>4. CASE ~Throw(r)
  <2>1. PICK plan : req' = [req EXCEPT ![r] = [old EXCEPT !.pc = "take", !.plan = plan]]
    BY <1>4 DEF ReadCandidates, Goto
  <2> DEFINE q == [old EXCEPT !.pc = "take", !.plan = plan]
  <2>2. /\ q.wb = old.wb /\ q.wa = old.wa /\ q.wl = old.wl /\ q.tx = old.tx /\ q.pc = "take"
        /\ q.todo = old.todo /\ q.need = old.need /\ q.order = old.order /\ q.line = old.line
    BY <1>1 DEF Request
  <2>3. req' = [req EXCEPT ![r] = q] /\ UNCHANGED <<batch, ledger, allocs, used>>
    BY <1>4, <2>1 DEF ReadCandidates, db
  <2> HIDE DEF q
  <2>4. Honest(q, batch, allocs)
    BY <1>1, <2>2 DEF Honest, TakesSmall, InItem, InHandNow, FreshUnits, GivesBack, Restoring,
       InSave, PostsAtOnce
  <2>5. NoHand(q) /\ SeenBy(q, batch) = SeenBy(old, batch)
    BY <2>2 DEF NoHand, SeenBy, Writes
  <2> QED
    BY <1>2, <2>2, <2>3, <2>4, <2>5, LocalAccounts
<1> QED
  BY <1>3, <1>4

\* What is taken from a batch is no longer needed; the entity is the row as it was read
\* without those units.
LEMMA TakeOldestAccounts ==
    ASSUME ProgressInv, SellInv, AccountInv, NEW r \in Requests, TakeOldest(r)
    PROVE  AccountInv'
<1> DEFINE old == req[r]
           seen == Sees(r)
           take(b) == Consumed(old.plan[b], old.need)
           ent(b) == [batch |-> b, avail |-> old.plan[b] - take(b), qty |-> take(b),
                      alloc |-> 0, status |-> StatusFor(old.plan[b] - take(b))]
           next(b) == [old EXCEPT !.pc = "update", !.ent = ent(b), !.need = @ - take(b),
                                  !.plan[b] = 0, !.cols = Differs(ent(b), seen[b])]
<1>1. PICK b \in Candidates(old) : Goto(r, next(b))
  BY DEF TakeOldest
<1> DEFINE n == take(b)
           e == ent(b)
           q == next(b)
<1>2. /\ old \in Request /\ Honest(old, batch, allocs) /\ old.pc = "take" /\ Owner(old)
      /\ SeenBy(old, batch) = seen
  BY RunnerAccounts DEF TakeOldest
<1>3. b \in Batches /\ old.plan[b] \in Nat /\ old.plan[b] > 0 /\ old.need \in Nat
  BY <1>1, <1>2 DEF Candidates, Request
<1>4. n \in Nat /\ n <= old.need
  BY <1>3 DEF Consumed
<1>5. old.plan[b] = seen[b].avail
  <2>1. b \in BatchesOf(Product(old))
    BY <1>1, <1>2, <1>3 DEF Owner, TakesProduct, InItem, BatchesOf
  <2>2. Sells(old, batch, expired)
    BY DEF SellInv
  <2>3. FirstOnes(old, seen, expired)
    BY <1>2, <2>2 DEF Sells, Serving, Giving
  <2> QED
    BY <1>3, <2>1, <2>3 DEF FirstOnes
<1> HIDE DEF take
<1>6. /\ q.wb = old.wb /\ q.wa = old.wa /\ q.wl = old.wl /\ q.tx = old.tx /\ q.pc = "update"
      /\ q.todo = old.todo /\ q.need = old.need - n /\ q.order = old.order
      /\ q.line = old.line /\ q.ent = e
  BY <1>2 DEF Request
<1>7. e.batch = b /\ e.avail = seen[b].avail - n /\ e.qty = n /\ e.alloc = 0
  BY <1>5
<1>8. req' = [req EXCEPT ![r] = q] /\ UNCHANGED <<batch, ledger, allocs, used>>
  BY <1>1 DEF TakeOldest, Goto
<1>9. old.need <= Cart[old.order][old.line].qty
  <2>1. old.need + InHandNow(old) = old.need
    BY <1>2, <1>3 DEF InHandNow
  <2> QED
    BY <1>2, <2>1 DEF Honest, TakesSmall, InItem
<1> HIDE DEF q, e, n
<1>10. SeenBy(q, batch) = SeenBy(old, batch)
  BY <1>6 DEF SeenBy, Writes
<1>11. TakesSmall(q)
  <2>1. q.need + InHandNow(q) = old.need
    BY <1>3, <1>4, <1>6, <1>7 DEF InHandNow
  <2> QED
    BY <1>2, <1>6, <1>9, <2>1 DEF TakesSmall, Honest
<1>12. FreshUnits(q, SeenBy(q, batch))
  <2>1. seen[b].avail \in Int
    BY <1>3, <1>5
  <2>2. Change(q) = -n
    BY <1>6, <1>7 DEF Change
  <2>3. q.ent.avail = seen[b].avail - n /\ q.ent.batch = b
    BY <1>6, <1>7
  <2> QED
    BY <1>2, <1>4, <1>6, <1>10, <2>1, <2>2, <2>3 DEF FreshUnits
<1>13. Honest(q, batch, allocs)
  BY <1>2, <1>6, <1>7, <1>11, <1>12 DEF Honest, GivesBack, Restoring, PostsAtOnce
<1>14. NoHand(q) /\ NoHand(req[r]) /\ req[r].pc # "idle"
  BY <1>2, <1>6 DEF NoHand
<1> QED
  BY <1>6, <1>8, <1>10, <1>13, <1>14, LocalAccounts

\* The allocations found have not been restored.
LEMMA FindAllocationsAccounts ==
    ASSUME ProgressInv, SellInv, AccountInv, NEW r \in Requests, FindAllocations(r)
    PROVE  AccountInv'
<1> DEFINE old == req[r]
<1>1. PICK o \in LoadedOrders(old) :
        Goto(r, AfterRestore([old EXCEPT !.order = o, !.todo = ActiveAllocs(o)]))
  BY DEF FindAllocations
<1> DEFINE q == [old EXCEPT !.order = o, !.todo = ActiveAllocs(o)]
           x == AfterRestore(q)
<1>2. /\ Inv /\ old \in Request /\ Honest(old, batch, allocs) /\ old.pc = "find"
      /\ (~old.tx => Plain(old))
  BY RunnerAccounts DEF FindAllocations
<1>3. ~old.tx /\ Plain(old)
  BY <1>2 DEF Honest, GivesBack, Restoring
<1>4. ActiveAllocs(o) \in SUBSET Nat /\ o \in Orders
  BY <1>1, <1>2 DEF ActiveAllocs, LoadedOrders, Inv, TypeOK
<1>5. /\ q \in Request /\ q.wb = old.wb /\ q.wa = old.wa /\ q.wl = old.wl /\ q.tx = old.tx
      /\ q.todo = ActiveAllocs(o)
  BY <1>2, <1>4 DEF Request
<1>6. req' = [req EXCEPT ![r] = x] /\ UNCHANGED <<batch, ledger, allocs, used>>
  BY <1>1 DEF FindAllocations, Goto
<1> HIDE DEF q
<1>7. ~q.tx /\ Plain(q) /\ \A k \in q.todo : ~allocs[k].restored
  BY <1>3, <1>5 DEF Plain, Writes, ActiveAllocs
<1>8. Honest(x, batch, allocs) /\ ~x.tx /\ Plain(x) /\ NoHand(x)
  BY <1>5, <1>7, AfterRestoreHonest, AfterRestoreView
<1>9. SeenBy(x, batch) = SeenBy(old, batch) /\ x.wa = old.wa /\ x.wl = old.wl
  BY <1>3, <1>8 DEF SeenBy, Plain
<1>10. NoHand(req[r]) /\ req[r].pc # "idle"
  BY <1>2 DEF NoHand
<1> HIDE DEF x
<1> QED
  BY <1>6, <1>8, <1>9, <1>10, LocalAccounts

\* The batch of an allocation, and its entity with the units of the allocation added.
LEMMA ReadBatchAccounts ==
    ASSUME ProgressInv, SellInv, AccountInv, NEW r \in Requests, ReadBatch(r)
    PROVE  AccountInv'
<1> DEFINE old == req[r]
           ent(k) == [batch |-> allocs[k].batch, status |-> "ACTIVE",
                      avail |-> Sees(r)[allocs[k].batch].avail + allocs[k].qty,
                      qty |-> allocs[k].qty, alloc |-> k]
           next(k) == [old EXCEPT !.pc = "select", !.todo = @ \ {k}, !.ent = ent(k)]
<1>1. PICK k \in old.todo : Goto(r, next(k))
  BY DEF ReadBatch
<1> DEFINE e == ent(k)
           q == next(k)
<1>2. /\ Inv /\ old \in Request /\ Honest(old, batch, allocs) /\ old.pc = "batch"
      /\ SeenBy(old, batch) = Sees(r) /\ k \in DOMAIN allocs
  BY <1>1, RunnerAccounts DEF ReadBatch
<1>3. k # 0
  BY <1>2 DEF Inv, TypeOK
<1>4. /\ q.wb = old.wb /\ q.wa = old.wa /\ q.wl = old.wl /\ q.tx = old.tx /\ q.pc = "select"
      /\ q.todo = old.todo \ {k} /\ q.ent = e
  BY <1>2 DEF Request
<1>5. /\ e.batch = allocs[k].batch /\ e.qty = allocs[k].qty /\ e.alloc = k
      /\ e.avail = Sees(r)[e.batch].avail + e.qty
  OBVIOUS
<1>6. req' = [req EXCEPT ![r] = q] /\ UNCHANGED <<batch, ledger, allocs, used>>
  BY <1>1 DEF ReadBatch, Goto
<1> HIDE DEF q, e
<1>7. SeenBy(q, batch) = SeenBy(old, batch)
  BY <1>4 DEF SeenBy, Writes
<1>8. FreshUnits(q, SeenBy(q, batch))
  BY <1>2, <1>3, <1>4, <1>5, <1>7 DEF FreshUnits, Change
<1>9. GivesBack(q, allocs)
  BY <1>1, <1>2, <1>4, <1>5 DEF Honest, GivesBack, Restoring
<1>10. TakesSmall(q) /\ PostsAtOnce(q)
  BY <1>2, <1>4 DEF Honest, TakesSmall, PostsAtOnce, InItem
<1>11. NoHand(q) /\ NoHand(req[r]) /\ req[r].pc # "idle"
  BY <1>2, <1>4 DEF NoHand
<1> QED
  BY <1>4, <1>6, <1>7, <1>8, <1>9, <1>10, <1>11, LocalAccounts DEF Honest

\* The SELECT of its save.
LEMMA SelectBatchAccounts ==
    ASSUME ProgressInv, SellInv, AccountInv, NEW r \in Requests, SelectBatch(r)
    PROVE  AccountInv'
<1> DEFINE old == req[r]
           d == Differs(old.ent, Sees(r)[old.ent.batch])
           q == [old EXCEPT !.pc = "update", !.cols = d]
<1>1. /\ old \in Request /\ Honest(old, batch, allocs) /\ old.pc = "select" /\ Owner(old)
  BY RunnerAccounts DEF SelectBatch
<1>2. req' = [req EXCEPT ![r] = q] /\ UNCHANGED <<batch, ledger, allocs, used>>
  BY DEF SelectBatch, Goto
<1> HIDE DEF d
<1>3. /\ q.pc = "update" /\ q.ent = old.ent /\ q.wb = old.wb /\ q.wa = old.wa /\ q.wl = old.wl
      /\ q.tx = old.tx /\ q.todo = old.todo
  BY <1>1 DEF Request
<1> HIDE DEF q
<1>4. SeenBy(q, batch) = SeenBy(old, batch)
  BY <1>3 DEF SeenBy, Writes
<1>5. q.ent.alloc # 0
  BY <1>1, <1>3 DEF Owner, Restores
<1>6. Honest(q, batch, allocs)
  BY <1>1, <1>3, <1>4, <1>5
  DEF Honest, TakesSmall, InItem, FreshUnits, Change, GivesBack, Restoring, InSave, PostsAtOnce
<1>7. NoHand(q) /\ NoHand(req[r]) /\ req[r].pc # "idle"
  BY <1>1, <1>3 DEF NoHand
<1> QED
  BY <1>2, <1>3, <1>4, <1>6, <1>7, LocalAccounts

\* The SELECT of the order's save.
LEMMA SelectOrderAccounts ==
    ASSUME ProgressInv, SellInv, AccountInv, NEW r \in Requests, SelectOrder(r)
    PROVE  AccountInv'
<1> DEFINE old == req[r]
<1>1. /\ old \in Request /\ Honest(old, batch, allocs) /\ old.pc = "selectOrder"
  BY RunnerAccounts DEF SelectOrder
<1>2. PICK d : Goto(r, [old EXCEPT !.pc = "updateOrder", !.cols = d])
  BY DEF SelectOrder
<1> DEFINE q == [old EXCEPT !.pc = "updateOrder", !.cols = d]
<1>3. /\ q.pc = "updateOrder" /\ q.wb = old.wb /\ q.wa = old.wa /\ q.wl = old.wl
      /\ q.tx = old.tx /\ q.todo = old.todo
  BY <1>1 DEF Request
<1>4. req' = [req EXCEPT ![r] = q] /\ UNCHANGED <<batch, ledger, allocs, used>>
  BY <1>2 DEF SelectOrder, Goto
<1> HIDE DEF q
<1>5. Honest(q, batch, allocs)
  BY <1>1, <1>3, QuietHonest
  DEF Honest, TakesSmall, InItem, InSave, GivesBack, Restoring, PostsAtOnce
<1>6. SeenBy(q, batch) = SeenBy(old, batch) /\ NoHand(q) /\ NoHand(req[r]) /\ req[r].pc # "idle"
  BY <1>1, <1>3 DEF SeenBy, Writes, NoHand
<1> QED
  BY <1>3, <1>4, <1>5, <1>6, LocalAccounts

\* A request that waits for a row has nothing in hand.
LEMMA DeadlockVictimAccounts ==
    ASSUME ProgressInv, SellInv, AccountInv, NEW r \in Requests, DeadlockVictim(r)
    PROVE  AccountInv'
<1>1. \E s \in Requests : s \in WaitsFor(r)
  BY DEF DeadlockVictim
<1>2. req[r].pc = "update"
  BY <1>1 DEF WaitsFor
<1> QED
  BY <1>2, ThrowAccounts DEF NoHand, DeadlockVictim

-----------------------------------------------------------------------------
(* Statements that write a batch *)

\* After the write of a row, the request sees that row and otherwise what it saw.
LEMMA WriteView ==
    ASSUME Inv, NEW r \in Requests, Buffers(req[r]), NEW y \in Request, y.tx = req[r].tx,
           y.wb = req[r].wb, NEW b \in Batches, NEW row, row.status # "ABSENT",
           WriteBatch(r, b, row), NEW q,
           q = OverlayBatch(y, b, row) \/ (q = y /\ Sees(r)[b] = row)
    PROVE  /\ \A c \in Batches : SeenBy(q, batch')[c] = IF c = b THEN row ELSE Sees(r)[c]
           /\ q.tx = y.tx /\ q.pc = y.pc /\ q.ent = y.ent /\ q.wa = y.wa /\ q.wl = y.wl
           /\ q.todo = y.todo /\ q.need = y.need /\ q.order = y.order /\ q.line = y.line
           /\ req[r].tx => UNCHANGED batch
<1> DEFINE old == req[r]
<1>1. /\ q.tx = y.tx /\ q.pc = y.pc /\ q.ent = y.ent /\ q.wa = y.wa /\ q.wl = y.wl
      /\ q.todo = y.todo /\ q.need = y.need /\ q.order = y.order /\ q.line = y.line
  BY DEF OverlayBatch, Request
<1>2. /\ \A c \in Batches \ {b} : q.wb[c] = old.wb[c]
      /\ old.tx => q.wb[b] = row \/ (q.wb[b] = old.wb[b] /\ Sees(r)[b] = row)
      /\ ~old.tx => q.wb = old.wb
  BY DEF OverlayBatch, Request
<1>3. \A c \in Batches : batch'[c] = IF c = b /\ ~old.tx THEN row ELSE batch[c]
  BY DEF WriteBatch, Inv, TypeOK
<1>4. ~old.tx => \A c \in Batches : ~Writes(old, c) /\ ~Writes(q, c)
  BY <1>2 DEF Buffers, Writes
<1>5. ASSUME NEW c \in Batches
      PROVE  SeenBy(q, batch')[c] = IF c = b THEN row ELSE Sees(r)[c]
  <2>1. SeenBy(q, batch')[c] = IF Writes(q, c) THEN q.wb[c] ELSE batch'[c]
    BY DEF SeenBy
  <2>2. Sees(r)[c] = IF Writes(old, c) THEN old.wb[c] ELSE batch[c]
    BY DEF Sees
  <2>3. CASE ~old.tx
    BY <1>3, <1>4, <2>1, <2>2, <2>3
  <2>4. CASE old.tx /\ c # b
    BY <1>2, <1>3, <2>1, <2>2, <2>4 DEF Writes
  <2>5. CASE old.tx /\ c = b /\ q.wb[b] = row
    BY <2>1, <2>5 DEF Writes
  <2>6. CASE old.tx /\ c = b /\ q.wb[b] = old.wb[b] /\ Sees(r)[b] = row
    BY <1>3, <2>1, <2>2, <2>6 DEF Writes
  <2> QED
    BY <1>2, <2>3, <2>4, <2>5, <2>6
<1> QED
  BY <1>1, <1>5 DEF WriteBatch

\* The units that leave the row are in hand, or the other way round.
LEMMA UpdateBatchAccounts ==
    ASSUME ProgressInv, SellInv, AccountInv, NEW r \in Requests, UpdateBatch(r)
    PROVE  AccountInv'
<1> DEFINE old == req[r]
           e == old.ent
           seen == Sees(r)
           row == Merged(e, seen[e.batch], old.cols)
           pc == IF e.alloc = 0 THEN "alloc" ELSE "mark"
           next == [old EXCEPT !.pc = pc, !.cols = {}]
           q == IF old.cols = {} THEN next ELSE OverlayBatch(next, e.batch, row)
           f == used.faults
<1>1. /\ Inv /\ Alone(r) /\ old \in Request /\ Buffers(old) /\ old.pc = "update"
      /\ Honest(old, batch, allocs) /\ Small(allocs)
      /\ Accounts(old, batch, ledger, allocs, f)
      /\ (old.tx => Accounts(Idle, batch, ledger, allocs, f))
      /\ SeenBy(old, batch) = seen /\ Sells(old, batch, expired)
      /\ e.batch \in Batches
  BY RunnerAccounts, ReqSells DEF UpdateBatch, Sound, HasBatch, InSave
<1>2. seen \in [Batches -> BatchRow] /\ \A c \in Batches : seen[c].avail \in Int
  BY <1>1, SeesSound DEF BatchRow
<1>3. old.cols = Differs(e, seen[e.batch])
  BY <1>1 DEF Sells, FreshSave
<1>4. /\ row = [avail |-> e.avail, status |-> e.status] /\ row.status # "ABSENT"
      /\ row.avail = e.avail /\ e.avail \in Int /\ e.qty \in Nat
  <2>1. row = [avail |-> e.avail, status |-> e.status]
    BY <1>3 DEF Merged, Differs
  <2>2. e.avail \in Int /\ e.status \in {"ACTIVE", "DEPLETED"} /\ e.qty \in Nat
    BY <1>1 DEF Request
  <2> QED
    BY <2>1, <2>2
<1>5. old.cols = {} => seen[e.batch] = row
  <2> SUFFICES ASSUME old.cols = {}
               PROVE  seen[e.batch] = row
    OBVIOUS
  <2>1. seen[e.batch].avail = e.avail /\ seen[e.batch].status = e.status
    BY <1>3 DEF Differs
  <2> QED
    BY <1>1, <1>2, <1>4, <2>1 DEF BatchRow
<1>6. /\ WriteBatch(r, e.batch, row) /\ req' = [req EXCEPT ![r] = q]
      /\ UNCHANGED <<ledger, allocs, used>>
  BY DEF UpdateBatch, Goto
<1> HIDE DEF row
<1>7. /\ next \in Request /\ next.tx = old.tx /\ next.wb = old.wb /\ next.pc = pc
      /\ next.ent = e /\ next.wa = old.wa /\ next.wl = old.wl /\ next.todo = old.todo
      /\ next.need = old.need /\ next.order = old.order /\ next.line = old.line
  <2>1. pc \in Pcs
    BY DEF Pcs
  <2> QED
    BY <1>1, <2>1 DEF Request
<1>8. q = OverlayBatch(next, e.batch, row) \/ (q = next /\ seen[e.batch] = row)
  BY <1>5
<1> HIDE DEF next, q
<1>9. /\ \A c \in Batches : SeenBy(q, batch')[c] = IF c = e.batch THEN row ELSE seen[c]
      /\ q.tx = old.tx /\ q.pc = pc /\ q.ent = e /\ q.wa = old.wa /\ q.wl = old.wl
      /\ q.todo = old.todo /\ q.need = old.need /\ q.order = old.order /\ q.line = old.line
      /\ (old.tx => UNCHANGED batch)
  BY <1>1, <1>4, <1>6, <1>7, <1>8, WriteView
<1>10. e.avail = seen[e.batch].avail + Change(old)
  BY <1>1 DEF Honest, FreshUnits
<1>11. ASSUME NEW K \in SUBSET Batches
       PROVE  DriftOf(q, batch', allocs, K) = DriftOf(old, batch, allocs, K)
  <2> DEFINE seen1 == SeenBy(q, batch')
  <2>1. \A c \in Batches : seen1[c].avail = IF c = e.batch THEN e.avail ELSE seen[c].avail
    BY <1>4, <1>9
  <2> HIDE DEF seen1
  <2>2. \A c \in Batches : seen1[c].avail \in Int
    BY <1>2, <1>4, <2>1
  <2>3. SumOver(seen1, K) = SumOver(seen, K) + (IF e.batch \in K THEN seen1[e.batch].avail
                                                - seen[e.batch].avail ELSE 0)
    BY <1>1, <1>2, <2>1, <2>2, UnitsChange
  <2>4. Change(old) = IF e.alloc = 0 THEN -e.qty ELSE e.qty
    BY DEF Change
  <2>5. HandOf(old, K) = 0
    BY <1>1 DEF HandOf
  <2>6. HandOf(q, K) = IF e.batch \in K THEN (IF e.alloc = 0 THEN e.qty ELSE -e.qty) ELSE 0
    BY <1>9 DEF HandOf
  <2>7. SumOver(seen, K) \in Int
    BY <1>2, UnitsType
  <2>8. seen1[e.batch].avail = e.avail /\ seen[e.batch].avail \in Int
    BY <1>1, <1>2, <2>1
  <2>9. HeldOf(allocs \o old.wa, K) \in Int /\ SupplyOf(K) \in Int
    BY <1>1, ViewType DEF Inv, TypeOK
  <2> DEFINE h == HeldOf(allocs \o old.wa, K)
             s == SupplyOf(K)
  <2>10. DriftOf(old, batch, allocs, K) = SumOver(seen, K) + h + 0 - s
    BY <1>1, <2>5 DEF DriftOf
  <2>11. DriftOf(q, batch', allocs, K) = SumOver(seen1, K) + h + HandOf(q, K) - s
    BY <1>9 DEF DriftOf, seen1
  <2> HIDE DEF h, s
  <2>12. h \in Int /\ s \in Int
    BY <2>9 DEF h, s
  <2> HIDE DEF e, seen
  <2> QED
    BY <1>4, <1>10, <2>3, <2>4, <2>6, <2>7, <2>8, <2>10, <2>11, <2>12
<1>12. \A p \in Products : GapOf(q, ledger, allocs, p) = GapOf(old, ledger, allocs, p)
  BY <1>9 DEF GapOf
<1>13. Accounts(q, batch', ledger, allocs, f)
  BY <1>1, <1>11, <1>12, ShiftAccounts
<1>14. q.pc \in {"alloc", "mark"} /\ (q.pc = "alloc" <=> e.alloc = 0)
  BY <1>9
<1>e. q.pc = "mark" => q.ent.qty <= SeenBy(q, batch')[q.ent.batch].avail
  <2> SUFFICES ASSUME q.pc = "mark"
               PROVE  q.ent.qty <= SeenBy(q, batch')[q.ent.batch].avail
    OBVIOUS
  <2>1. q.ent = e /\ SeenBy(q, batch')[e.batch].avail = e.avail /\ e.alloc # 0
    BY <1>1, <1>4, <1>9, <1>14
  <2>2. Change(old) = e.qty
    BY <2>1 DEF Change
  <2>3. seen[e.batch].avail \in Int /\ seen[e.batch].avail >= 0
    BY <1>1, <1>2, SeesSound
  <2> HIDE DEF e, seen
  <2> QED
    BY <1>4, <1>10, <2>1, <2>2, <2>3
<1>15. Honest(q, batch', allocs)
  BY <1>1, <1>9, <1>14, <1>e
  DEF Honest, TakesSmall, InItem, InHandNow, FreshUnits, GivesBack, Restoring, InSave, PostsAtOnce
<1>16. q.tx => Accounts(Idle, batch', ledger, allocs, f)
  BY <1>1, <1>9
<1>17. UNCHANGED <<ledger, allocs>> /\ used'.faults = f
  BY <1>6
<1> QED
  BY <1>1, <1>6, <1>13, <1>15, <1>16, <1>17, IdleHonest, StepAccounts

\* The units a LEGACY batch is created with: with no units in the batches, they are what
\* the movements say; that differs from nothing only after a crash.
LEMMA CreateLegacyAccounts ==
    ASSUME ProgressInv, SellInv, AccountInv, NEW r \in Requests, CreateLegacy(r)
    PROVE  AccountInv'
<1> DEFINE old == req[r]
           seen == Sees(r)
           p == Product(old)
           n == SeesLedger(r, p)
           row == [avail |-> n, status |-> "ACTIVE"]
           f == used.faults
<1>1. /\ Inv /\ Alone(r) /\ old \in Request /\ Buffers(old) /\ old.pc = "read"
      /\ Honest(old, batch, allocs) /\ Small(allocs) /\ Owner(old) /\ old.order \in Orders
      /\ Accounts(old, batch, ledger, allocs, f)
      /\ (old.tx => Accounts(Idle, batch, ledger, allocs, f))
      /\ SeenBy(old, batch) = seen
  BY RunnerAccounts DEF CreateLegacy, Sound, HasOrder
<1>2. CASE Throw(r)
  BY <1>1, <1>2, ThrowAccounts DEF CreateLegacy, NoHand
<1>3. CASE ~Throw(r)
  <2>1. PICK b \in BatchesOf(p) \cap LegacyBatches :
          WriteBatch(r, b, row) /\ Goto(r, OverlayBatch(old, b, row))
    BY <1>3 DEF CreateLegacy
  <2> DEFINE q == OverlayBatch(old, b, row)
  <2>2. UNCHANGED <<ledger, allocs, used>> /\ req' = [req EXCEPT ![r] = q]
    BY <1>3, <2>1 DEF CreateLegacy, Goto
  <2>3. b \in Batches /\ ProductOf[b] = p /\ p \in Products
    BY <2>1, ConstantsAssumption DEF BatchesOf
  <2>4. seen[b].status = "ABSENT" /\ \A c \in BatchesOf(p) : seen[c].status # "ACTIVE"
    BY <2>1 DEF CreateLegacy, NeedsLegacy, ActiveBatches
  <2>5. seen \in [Batches -> BatchRow] /\ \A c \in Batches : seen[c].avail \in Int
    BY <1>1, SeesSound DEF BatchRow
  <2>6. \A c \in BatchesOf(p) : seen[c].avail = 0
    <3>1. \A c \in Batches : GoodRow(c, seen[c]) /\ seen[c].avail >= 0
      BY <1>1, ReqSells, SeesSound
    <3> QED
      BY <2>4, <2>5, <3>1 DEF GoodRow, BatchesOf
  <2>7. n \in Int /\ n > 0 /\ n = ledger[p] + old.wl[p]
    <3>1. ledger[p] \in Int /\ old.wl[p] \in Int
      BY <1>1, <2>3 DEF Inv, TypeOK, Request
    <3> QED
      BY <3>1 DEF SeesLedger, CreateLegacy, NeedsLegacy
  <2> HIDE DEF n
  <2>8. row.status # "ABSENT" /\ row.avail = n
    OBVIOUS
  <2> HIDE DEF row, q
  <2>9. /\ \A c \in Batches : SeenBy(q, batch')[c] = IF c = b THEN row ELSE seen[c]
        /\ q.tx = old.tx /\ q.pc = old.pc /\ q.ent = old.ent /\ q.wa = old.wa /\ q.wl = old.wl
        /\ q.todo = old.todo /\ q.need = old.need /\ q.order = old.order /\ q.line = old.line
        /\ (old.tx => UNCHANGED batch)
    BY <1>1, <2>1, <2>3, <2>8, WriteView DEF q
  <2> DEFINE seen1 == SeenBy(q, batch')
  <2>10. \A c \in Batches : seen1[c].avail = IF c = b THEN n ELSE seen[c].avail
    BY <2>8, <2>9
  <2>11. \A c \in Batches : seen1[c].avail \in Int
    BY <2>5, <2>7, <2>10
  <2>12. \A K \in SUBSET Batches : HandOf(q, K) = 0 /\ HandOf(old, K) = 0
    BY <1>1, <2>9 DEF HandOf
  <2> DEFINE h(K) == HeldOf(allocs \o old.wa, K)
  <2>13. \A K \in SUBSET Batches : /\ DriftOf(old, batch, allocs, K)
                                        = SumOver(seen, K) + h(K) + 0 - SupplyOf(K)
                                   /\ DriftOf(q, batch', allocs, K)
                                        = SumOver(seen1, K) + h(K) + 0 - SupplyOf(K)
    BY <1>1, <2>9, <2>12 DEF DriftOf
  <2>14. \A K \in SUBSET Batches : h(K) \in Int /\ SupplyOf(K) \in Int
    BY <1>1, ViewType DEF Inv, TypeOK
  <2>15. \A s \in Products : GapOf(q, ledger, allocs, s) = GapOf(old, ledger, allocs, s)
    BY <2>9 DEF GapOf
  <2>16. GapOf(old, ledger, allocs, p) = n + h(BatchesOf(p)) - SupplyOf(BatchesOf(p))
    BY <2>7 DEF GapOf
  <2> HIDE DEF seen1, h, seen, p
  <2>17. SumOver(seen, BatchesOf(p)) = 0
    BY <2>5, <2>6, SomeBatches, UnitsType
  <2>18. SumOver(seen1, BatchesOf(p)) = n
    <3>1. BatchesOf(p) \in SUBSET Batches /\ b \in BatchesOf(p)
      BY <2>1, SomeBatches
    <3>2. SumOver(seen1, BatchesOf(p)) = SumOver(seen, BatchesOf(p))
                                         + (seen1[b].avail - seen[b].avail)
      BY <2>3, <2>5, <2>10, <2>11, <3>1, UnitsChange
    <3> QED
      BY <2>3, <2>6, <2>7, <2>10, <2>17, <3>1, <3>2
  <2>19. DriftOf(q, batch', allocs, BatchesOf(p)) = GapOf(old, ledger, allocs, p)
    BY <2>7, <2>13, <2>14, <2>16, <2>18, SomeBatches
  <2>20. ASSUME NEW s \in Products, s # p
         PROVE  DriftOf(q, batch', allocs, BatchesOf(s)) = DriftOf(old, batch, allocs, BatchesOf(s))
    <3>1. \A c \in BatchesOf(s) : seen1[c].avail = seen[c].avail
      BY <2>3, <2>10, <2>20 DEF BatchesOf
    <3>2. SumOver(seen1, BatchesOf(s)) = SumOver(seen, BatchesOf(s))
      BY <3>1, SomeBatches, UnitsSame
    <3> QED
      BY <2>13, <3>2, SomeBatches
  <2>21. f # 0
    <3> SUFFICES ASSUME f = 0
                 PROVE  FALSE
      OBVIOUS
    <3>1. DriftOf(old, batch, allocs, BatchesOf(p)) = 0
      BY <1>1, SomeBatches DEF Accounts
    <3>2. Within(GapOf(old, ledger, allocs, p), f * Cost(f, p))
      BY <1>1, <2>3 DEF Accounts
    <3>3. GapOf(old, ledger, allocs, p) \in Int
      BY <2>7, <2>14, <2>16, SomeBatches
    <3>4. GapOf(old, ledger, allocs, p) = 0
      <4>1. 0 <= LargestLine(p) /\ 0 <= LargestBatch(p)
        BY LargestKnown
      <4> QED
        BY <3>2, <3>3, <4>1, CostOfCrash
    <3>5. h(BatchesOf(p)) \in Int /\ SupplyOf(BatchesOf(p)) \in Int
      BY <2>14, SomeBatches
    <3>6. 0 + h(BatchesOf(p)) + 0 - SupplyOf(BatchesOf(p)) = 0
      BY <2>13, <2>17, <3>1, SomeBatches
    <3> QED
      BY <2>7, <2>16, <3>4, <3>5, <3>6
  <2>22. Accounts(q, batch', ledger, allocs, f)
    <3>1. ASSUME NEW s \in Products
          PROVE  /\ Within(DriftOf(q, batch', allocs, BatchesOf(s)), f * Cost(f, s))
                 /\ Within(GapOf(q, ledger, allocs, s), f * Cost(f, s))
      <4>1. /\ Within(DriftOf(old, batch, allocs, BatchesOf(s)), f * Cost(f, s))
            /\ Within(GapOf(old, ledger, allocs, s), f * Cost(f, s))
        BY <1>1 DEF Accounts
      <4>2. CASE s = p
        BY <2>15, <2>19, <4>1, <4>2
      <4>3. CASE s # p
        BY <2>15, <2>20, <4>1, <4>3
      <4> QED
        BY <4>2, <4>3
    <3> QED
      BY <2>21, <3>1 DEF Accounts
  <2>23. Honest(q, batch', allocs)
    BY <1>1, <2>9
    DEF Honest, TakesSmall, InItem, InHandNow, FreshUnits, GivesBack, Restoring, InSave,
        PostsAtOnce
  <2>24. q.tx => Accounts(Idle, batch', ledger, allocs, f)
    BY <1>1, <2>9
  <2>25. UNCHANGED <<ledger, allocs>> /\ used'.faults = f
    BY <2>2
  <2> QED
    BY <1>1, <2>2, <2>22, <2>23, <2>24, <2>25, IdleHonest, StepAccounts
<1> QED
  BY <1>2, <1>3

-----------------------------------------------------------------------------
(* Statements that write an allocation and a movement *)

\* The units in hand are of one line of an order; if nothing died yet, of one batch, too.
LEMMA MovesFew ==
    ASSUME ProgressInv, SellInv, AccountInv, NEW r \in Requests, req[r].pc \in {"alloc", "mark"}
    PROVE  LET e == req[r].ent
           IN  /\ e.qty \in Nat /\ e.batch \in Batches /\ e.qty <= LargestLine(ProductOf[e.batch])
               /\ used.faults = 0 => e.qty <= Received[e.batch]
<1> DEFINE q == req[r]
           e == q.ent
           n == e.qty
           b == e.batch
           seen == Sees(r)
<1>1. /\ Inv /\ q \in Request /\ Sound(q) /\ Owner(q) /\ Honest(q, batch, allocs) /\ Small(allocs)
      /\ Accounts(q, batch, ledger, allocs, used.faults) /\ SeenBy(q, batch) = seen
      /\ NoOrphanAllocation
  BY RunnerAccounts DEF ProgressInv, OwnInv
<1>2. /\ n \in Nat /\ b \in Batches /\ q.order \in Orders /\ q.need \in Nat
  BY <1>1 DEF Sound, HasBatch, HasOrder, InSave, Request
<1>3. n <= LargestLine(ProductOf[b])
  <2>1. CASE q.pc = "alloc"
    <3>1. q.line \in DOMAIN Cart[q.order] /\ ProductOf[b] = Cart[q.order][q.line].product
      BY <1>1, <2>1 DEF Owner, AtItem, TakesProduct, InItem, Product
    <3>2. q.need + n <= Cart[q.order][q.line].qty
      BY <1>1, <2>1 DEF Honest, TakesSmall, InItem, InHandNow
    <3>3. Cart[q.order][q.line].qty \in Nat
      BY <1>2, <3>1, ItemOfCart
    <3>4. Cart[q.order][q.line].qty <= LargestLine(ProductOf[b]) /\ LargestLine(ProductOf[b]) \in Nat
      BY <1>2, <3>1, LargestKnown
    <3> HIDE DEF n, b
    <3> QED
      BY <1>2, <3>2, <3>3, <3>4
  <2>2. CASE q.pc = "mark"
    <3>1. PICK k \in DOMAIN allocs : b = allocs[k].batch /\ n = allocs[k].qty
      BY <1>1, <2>2 DEF Honest, GivesBack, Restoring, InSave
    <3> DEFINE o == allocs[k].order
               i == allocs[k].line
    <3>a. allocs[k] \in AllocationRow
      BY <1>1, <3>1 DEF Inv, TypeOK
    <3>2. o \in Orders /\ i \in DOMAIN Cart[o] /\ ProductOf[b] = Cart[o][i].product
      <4>1. o \in Orders
        BY <3>a DEF AllocationRow
      <4> QED
        BY <1>1, <3>1, <4>1 DEF NoOrphanAllocation
    <3>3. n <= Cart[o][i].qty
      BY <1>1, <3>1 DEF Small
    <3> HIDE DEF n, b, o, i
    <3>4. Cart[o][i].qty \in Nat
      BY <3>2, ItemOfCart
    <3>5. Cart[o][i].qty <= LargestLine(ProductOf[b]) /\ LargestLine(ProductOf[b]) \in Nat
      BY <3>2, LargestKnown
    <3> QED
      BY <1>2, <3>3, <3>4, <3>5
  <2> QED
    BY <2>1, <2>2
<1>4. ASSUME used.faults = 0
      PROVE  n <= Received[b]
  <2> DEFINE K == {b}
             u == SumOver(seen, K)
             h == HeldOf(allocs \o q.wa, K)
  <2>1. K \in SUBSET Batches /\ DriftOf(q, batch, allocs, K) = 0
    BY <1>1, <1>2, <1>4 DEF Accounts
  <2>2. \A c \in Batches : seen[c].avail \in Int /\ seen[c].avail >= 0
    BY <1>1, SeesSound DEF BatchRow
  <2>3. u \in Int /\ u >= 0 /\ seen[b].avail <= u
    BY <2>1, <2>2, UnitsType
  <2>4. allocs \in Seq(AllocationRow) /\ q.wa \in Seq(AllocationRow)
    BY <1>1 DEF Inv, TypeOK, Request
  <2>5. h \in Nat /\ (q.pc = "mark" => n <= h)
    <3> DEFINE w == allocs \o q.wa
    <3>1. w \in Seq(AllocationRow) /\ DOMAIN allocs \subseteq DOMAIN w
          /\ \A k \in DOMAIN allocs : w[k] = allocs[k]
      BY <2>4
    <3> HIDE DEF w
    <3>2. HeldOf(w, K) \in Nat
          /\ \A k \in DOMAIN w : ~w[k].restored /\ w[k].batch \in K => w[k].qty <= HeldOf(w, K)
      BY <3>1, HeldSum
    <3>3. q.pc = "mark" => \E k \in DOMAIN allocs :
                             b = allocs[k].batch /\ n = allocs[k].qty /\ ~allocs[k].restored
      BY <1>1 DEF Honest, GivesBack, Restoring, InSave
    <3> QED
      BY <3>1, <3>2, <3>3 DEF w
  <2>6. SupplyOf(K) = Received[b] /\ Received[b] \in Nat
    <3>1. IsFiniteSet(K) /\ Received[b] \in Nat /\ IsFiniteSet({})
      BY <2>1, SomeBatches, FS_EmptySet
    <3>2. SumOf(Received, {} \cup {b}) = Received[b] + SumOf(Received, {})
      BY <3>1, SumInsert, SMTT(30)
    <3>3. {} \cup {b} = K
      OBVIOUS
    <3> QED
      BY <3>1, <3>2, <3>3, SumEmpty DEF SupplyOf
  <2>7. u + h + HandOf(q, K) - SupplyOf(K) = 0
    BY <1>1, <2>1 DEF DriftOf
  <2>8. HandOf(q, K) = IF q.pc = "alloc" THEN n ELSE -n
    BY DEF HandOf
  <2>9. q.pc = "mark" => n <= seen[b].avail
    BY <1>1 DEF Honest, FreshUnits
  <2>10. seen[b].avail \in Int
    BY <1>2, <2>2
  <2> HIDE DEF u, h, K, n, b, seen
  <2>11. CASE q.pc = "alloc"
    BY <1>2, <2>3, <2>5, <2>6, <2>7, <2>8, <2>11
  <2>12. CASE q.pc = "mark"
    BY <1>2, <2>3, <2>5, <2>6, <2>7, <2>8, <2>9, <2>10, <2>12
  <2> QED
    BY <2>11, <2>12
<1> QED
  BY <1>2, <1>3, <1>4

\* A request that dies with nothing uncommitted in hand costs nothing.
LEMMA LaterAccounts ==
    ASSUME NEW q \in Request, NEW rows \in [Batches -> BatchRow], NEW led \in [Products -> Int],
           NEW a \in Seq(AllocationRow), NEW f \in Nat, Accounts(q, rows, led, a, f)
    PROVE  Accounts(q, rows, led, a, f + 1)
<1>1. ASSUME NEW p \in Products, NEW y \in Int, Within(y, f * Cost(f, p))
      PROVE  Within(y, (f + 1) * Cost(f + 1, p))
  <2>1. 0 <= LargestLine(p) /\ 0 <= LargestBatch(p)
    BY LargestKnown
  <2>2. Within(y + 0, (f + 1) * Cost(f + 1, p))
    BY <1>1, <2>1, CostOfCrash
  <2> QED
    BY <2>2
<1>2. \A p \in Products : DriftOf(q, rows, a, BatchesOf(p)) \in Int /\ GapOf(q, led, a, p) \in Int
  BY ViewType, SomeBatches
<1>3. f + 1 # 0
  OBVIOUS
<1> QED
  BY <1>1, <1>2, <1>3 DEF Accounts

\* The movement that follows the save of an allocation, or the death that prevents it.
\* The allocations of the request now say what it had in hand.
LEMMA PostAccounts ==
    ASSUME ProgressInv, SellInv, AccountInv, NEW r \in Requests, req[r].pc \in {"alloc", "mark"},
           NEW done \in Request, NoHand(done), ~InSave(done), done.tx = req[r].tx,
           SeenBy(done, batch) = SeenBy(req[r], batch), done.wl = req[r].wl,
           Post(r, done), UNCHANGED batch, allocs' \in Seq(AllocationRow), Small(allocs'),
           req[r].tx => UNCHANGED allocs, ~req[r].tx => done.wa = <<>>,
           Honest(done, batch, allocs'),
           \A K \in SUBSET Batches :
             HeldOf(allocs' \o done.wa, K) = HeldOf(allocs \o req[r].wa, K) + HandOf(req[r], K)
    PROVE  AccountInv'
<1> DEFINE q == req[r]
           e == q.ent
           n == e.qty
           p == ProductOf[e.batch]
           delta == IF e.alloc = 0 THEN -n ELSE n
           f == used.faults
<1>1. /\ Inv /\ Alone(r) /\ q \in Request /\ Owner(q) /\ Honest(q, batch, allocs)
      /\ Accounts(q, batch, ledger, allocs, f)
      /\ (q.tx => Accounts(Idle, batch, ledger, allocs, f))
      /\ (~q.tx => Plain(q))
  BY RunnerAccounts
<1>2. /\ n \in Nat /\ e.batch \in Batches /\ n <= LargestLine(p)
      /\ (f = 0 => n <= Received[e.batch]) /\ p \in Products
  BY MovesFew, ConstantsAssumption
<1>3. e.alloc = 0 <=> q.pc = "alloc"
  <2>1. q.pc = "mark" => e.alloc # 0
    BY <1>1 DEF Owner, Restores
  <2>2. q.pc = "alloc" => e.alloc = 0
    BY <1>1 DEF Honest, FreshUnits
  <2> QED
    BY <2>1, <2>2
<1>4. \A K \in SUBSET Batches :
        HandOf(q, K) = IF e.batch \in K THEN (IF q.pc = "alloc" THEN n ELSE -n) ELSE 0
  BY DEF HandOf
<1>5. delta = (IF q.pc = "alloc" THEN -n ELSE n) /\ delta \in {0, n, -n} /\ delta \in Int
      /\ -delta \in {0, n, -n}
  BY <1>2, <1>3
<1>6. \A s \in Products : HandOf(q, BatchesOf(s)) = IF s = p THEN -delta ELSE 0
  <2> SUFFICES ASSUME NEW s \in Products
               PROVE  HandOf(q, BatchesOf(s)) = IF s = p THEN -delta ELSE 0
    OBVIOUS
  <2>1. BatchesOf(s) \in SUBSET Batches /\ (e.batch \in BatchesOf(s) <=> s = p)
    BY <1>2 DEF BatchesOf
  <2>2. HandOf(q, BatchesOf(s))
          = IF s = p THEN (IF q.pc = "alloc" THEN n ELSE -n) ELSE 0
    BY <1>4, <2>1
  <2>3. -delta = IF q.pc = "alloc" THEN n ELSE -n
    BY <1>2, <1>5
  <2> QED
    BY <2>2, <2>3
<1> DEFINE held(K) == HeldOf(allocs \o q.wa, K)
           next(K) == HeldOf(allocs' \o done.wa, K)
           units(K) == SumOver(SeenBy(q, batch), K)
<1>7. /\ \A K \in SUBSET Batches :
           /\ units(K) \in Int /\ held(K) \in Int /\ HandOf(q, K) \in Int /\ SupplyOf(K) \in Int
           /\ DriftOf(q, batch, allocs, K) \in Int
           /\ next(K) = held(K) + HandOf(q, K)
      /\ \A s \in Products : ledger[s] \in Int /\ q.wl[s] \in Int /\ GapOf(q, ledger, allocs, s) \in Int
  BY <1>1, ViewType DEF Inv, TypeOK, Request
<1>8. /\ \A K \in SUBSET Batches :
           DriftOf(q, batch, allocs, K) = units(K) + held(K) + HandOf(q, K) - SupplyOf(K)
      /\ \A s \in Products :
           GapOf(q, ledger, allocs, s)
             = ledger[s] + q.wl[s] + held(BatchesOf(s)) - SupplyOf(BatchesOf(s))
  BY DEF DriftOf, GapOf
<1> DEFINE x == [done EXCEPT !.ent = NoEntity, !.wl[p] = IF q.tx THEN @ + delta ELSE @]
<1>9. \/ /\ ledger' = [ledger EXCEPT ![p] = IF q.tx THEN @ ELSE @ + delta]
         /\ req' = [req EXCEPT ![r] = x] /\ UNCHANGED used
      \/ /\ used' = [used EXCEPT !.faults = @ + 1] /\ req' = [req EXCEPT ![r] = Idle]
         /\ UNCHANGED ledger
  BY DEF Post, Goto
<1>10. /\ x.pc = done.pc /\ x.wb = done.wb /\ x.wa = done.wa /\ x.tx = done.tx
       /\ x.todo = done.todo /\ x.need = done.need /\ x.order = done.order
       /\ x.line = done.line
       /\ x.wl = [q.wl EXCEPT ![p] = IF q.tx THEN @ + delta ELSE @]
  BY DEF Request
<1>11. q.wl \in [Products -> Int] /\ ledger \in [Products -> Int] /\ f \in Nat
  <2>1. q.wl \in [Products -> Int]
    BY <1>1 DEF Request
  <2>2. ledger \in [Products -> Int] /\ used.faults \in 0..MaxFaults /\ MaxFaults \in Nat
    BY <1>1, ConstantsAssumption DEF Inv, TypeOK
  <2> QED
    BY <2>1, <2>2
<1>12. UNCHANGED batch
  OBVIOUS
<1> HIDE DEF held, next, units, x, delta, p, n
<1>13. CASE ledger' = [ledger EXCEPT ![p] = IF q.tx THEN @ ELSE @ + delta]
            /\ req' = [req EXCEPT ![r] = x] /\ UNCHANGED used
  <2>1. SeenBy(x, batch') = SeenBy(q, batch)
    BY <1>10, <1>12 DEF SeenBy, Writes
  <2>2. \A K \in SUBSET Batches : HandOf(x, K) = 0
    BY <1>10 DEF HandOf, NoHand
  <2>3. \A K \in SUBSET Batches : DriftOf(x, batch', allocs', K) = DriftOf(q, batch, allocs, K)
    <3> SUFFICES ASSUME NEW K \in SUBSET Batches
                 PROVE  DriftOf(x, batch', allocs', K) = DriftOf(q, batch, allocs, K)
      OBVIOUS
    <3>1. DriftOf(x, batch', allocs', K) = units(K) + next(K) + 0 - SupplyOf(K)
      BY <1>10, <2>1, <2>2 DEF DriftOf, units, next
    <3> QED
      BY <1>7, <1>8, <3>1
  <2>4. \A s \in Products : GapOf(x, ledger', allocs', s) = GapOf(q, ledger, allocs, s)
    <3> SUFFICES ASSUME NEW s \in Products
                 PROVE  GapOf(x, ledger', allocs', s) = GapOf(q, ledger, allocs, s)
      OBVIOUS
    <3> DEFINE B == BatchesOf(s)
    <3>1. B \in SUBSET Batches
      BY SomeBatches
    <3>2. GapOf(x, ledger', allocs', s) = ledger'[s] + x.wl[s] + next(B) - SupplyOf(B)
      BY <1>10 DEF GapOf, next
    <3>3. ledger'[s] + x.wl[s] = ledger[s] + q.wl[s] + (IF s = p THEN delta ELSE 0)
      <4>1. ledger[s] \in Int /\ q.wl[s] \in Int
        BY <1>11
      <4>2. CASE s # p
        BY <1>10, <1>11, <1>13, <4>1, <4>2
      <4>3. CASE s = p /\ q.tx
        <5>1. ledger'[s] = ledger[s] /\ x.wl[s] = q.wl[s] + delta
          BY <1>10, <1>11, <1>13, <4>3
        <5> QED
          BY <1>5, <4>1, <4>3, <5>1
      <4>4. CASE s = p /\ ~q.tx
        <5>1. ledger'[s] = ledger[s] + delta /\ x.wl[s] = q.wl[s]
          BY <1>10, <1>11, <1>13, <4>4
        <5> QED
          BY <1>5, <4>1, <4>4, <5>1
      <4> QED
        BY <4>2, <4>3, <4>4
    <3>4. next(B) = held(B) + (IF s = p THEN -delta ELSE 0)
      BY <1>6, <1>7, <3>1
    <3>5. /\ GapOf(q, ledger, allocs, s) = ledger[s] + q.wl[s] + held(B) - SupplyOf(B)
          /\ ledger[s] \in Int /\ q.wl[s] \in Int /\ held(B) \in Int /\ SupplyOf(B) \in Int
      BY <1>7, <1>8, <3>1
    <3> HIDE DEF B
    <3> QED
      BY <1>5, <3>2, <3>3, <3>4, <3>5, SMTT(30)
  <2>5. Accounts(x, batch', ledger', allocs', f)
    BY <1>1, <2>3, <2>4, ShiftAccounts
  <2>6. Honest(x, batch', allocs')
    <3>1. ~InSave(x) /\ (InItem(x) <=> InItem(done)) /\ (Restoring(x) <=> Restoring(done))
          /\ InHandNow(x) = InHandNow(done)
      BY <1>10 DEF InSave, InItem, Restoring, InHandNow
    <3>2. TakesSmall(x)
      BY <1>10, <3>1 DEF Honest, TakesSmall
    <3>3. FreshUnits(x, SeenBy(x, batch'))
      BY <3>1 DEF FreshUnits, InSave
    <3>4. GivesBack(x, allocs')
      BY <1>10, <3>1 DEF Honest, GivesBack
    <3>5. ~x.tx => x.wl = q.wl
      BY <1>10, <1>11
    <3>6. PostsAtOnce(x)
      BY <1>1, <1>10, <3>5 DEF Honest, PostsAtOnce
    <3> QED
      BY <3>2, <3>3, <3>4, <3>6 DEF Honest
  <2>7. x.tx => ledger' = ledger /\ allocs' = allocs /\ q.tx
    BY <1>10, <1>11, <1>13
  <2>8. used'.faults = f
    BY <1>13
  <2> QED
    BY <1>1, <1>12, <1>13, <2>5, <2>6, <2>7, <2>8, IdleHonest, StepAccounts
<1>14. CASE used' = [used EXCEPT !.faults = @ + 1] /\ req' = [req EXCEPT ![r] = Idle]
            /\ UNCHANGED ledger
  <2>1. used'.faults = f + 1
    BY <1>1, <1>14 DEF Inv, TypeOK
  <2>2. Accounts(Idle, batch, ledger, allocs', f + 1)
    <3>1. CASE q.tx
      <4>1. Idle \in Request /\ batch \in [Batches -> BatchRow] /\ allocs \in Seq(AllocationRow)
        BY <1>1, IdleType DEF Inv, TypeOK
      <4> QED
        BY <1>1, <1>11, <3>1, <4>1, LaterAccounts
    <3>2. CASE ~q.tx
      <4>1. Plain(q) /\ done.wa = <<>> /\ Plain(Idle) /\ NoHand(Idle)
        BY <1>1, <3>2, IdlePlain
      <4>2. SeenBy(Idle, batch) = SeenBy(q, batch)
        BY <4>1 DEF SeenBy, Plain
      <4>3. \A K \in SUBSET Batches : HeldOf(allocs' \o Idle.wa, K) = next(K)
        BY <4>1 DEF Plain, next
      <4>4. PICK lost \in {0, n, -n}, more \in {0, n, -n} : lost = 0 /\ more = -delta
        BY <1>5
      <4>5. \A K \in SUBSET Batches :
              DriftOf(Idle, batch, allocs', K)
                = DriftOf(q, batch, allocs, K) + (IF e.batch \in K THEN lost ELSE 0)
        <5> SUFFICES ASSUME NEW K \in SUBSET Batches
                     PROVE  DriftOf(Idle, batch, allocs', K) = DriftOf(q, batch, allocs, K)
          BY <1>7, <4>4
        <5>1. HandOf(Idle, K) = 0
          BY <4>1 DEF HandOf, NoHand
        <5>2. DriftOf(Idle, batch, allocs', K) = units(K) + next(K) + 0 - SupplyOf(K)
          BY <4>2, <4>3, <5>1 DEF DriftOf, units
        <5> QED
          BY <1>7, <1>8, <5>2
      <4>6. \A s \in Products :
              GapOf(Idle, ledger, allocs', s)
                = GapOf(q, ledger, allocs, s) + (IF ProductOf[e.batch] = s THEN more ELSE 0)
        <5> SUFFICES ASSUME NEW s \in Products
                     PROVE  GapOf(Idle, ledger, allocs', s)
                              = GapOf(q, ledger, allocs, s) + (IF p = s THEN more ELSE 0)
          BY DEF p
        <5> DEFINE B == BatchesOf(s)
        <5>1. B \in SUBSET Batches
          BY SomeBatches
        <5>2. Idle.wl = q.wl
          BY <4>1 DEF Plain
        <5>3. GapOf(Idle, ledger, allocs', s) = ledger[s] + q.wl[s] + next(B) - SupplyOf(B)
          BY <4>3, <5>1, <5>2 DEF GapOf
        <5>4. next(B) = held(B) + (IF p = s THEN more ELSE 0)
          BY <1>6, <1>7, <4>4, <5>1
        <5>5. /\ GapOf(q, ledger, allocs, s) = ledger[s] + q.wl[s] + held(B) - SupplyOf(B)
              /\ ledger[s] \in Int /\ q.wl[s] \in Int /\ held(B) \in Int /\ SupplyOf(B) \in Int
          BY <1>7, <1>8, <5>1
        <5>6. more \in Int
          BY <1>2
        <5> HIDE DEF B, q
        <5>7. CASE p = s
          BY <5>3, <5>4, <5>5, <5>6, <5>7
        <5>8. CASE p # s
          BY <5>3, <5>4, <5>5, <5>8
        <5> QED
          BY <5>7, <5>8
      <4>7. n <= LargestLine(ProductOf[e.batch]) /\ (f = 0 => n <= Received[e.batch])
            /\ e.batch \in Batches /\ n \in Nat
        BY <1>2 DEF p
      <4>8. /\ \A K \in SUBSET Batches : DriftOf(q, batch, allocs, K) \in Int
            /\ \A s \in Products : GapOf(q, ledger, allocs, s) \in Int
            /\ Accounts(q, batch, ledger, allocs, f) /\ f \in Nat
        BY <1>1, <1>7, <1>11
      <4> HIDE DEF e, q, f
      <4> QED
        BY <4>5, <4>6, <4>7, <4>8, CrashAccounts
    <3> QED
      BY <3>1, <3>2
  <2>3. /\ Accounts(Idle, batch', ledger', allocs', used'.faults)
    BY <1>12, <1>14, <2>1, <2>2
  <2> QED
    BY <1>1, <1>14, <2>3, IdleHonest, StepAccounts
<1> QED
  BY <1>9, <1>13, <1>14

\* A row that is appended to the rows of a transaction stands last in the table, too.
LEMMA AppendsLast ==
    ASSUME NEW S, NEW a \in Seq(S), NEW w \in Seq(S), NEW e \in S
    PROVE  a \o Append(w, e) = Append(a \o w, e)
<1> DEFINE v == Append(w, e)
           x == a \o v
           y == Append(a \o w, e)
           n == Len(a) + Len(w) + 1
<1>1. /\ v \in Seq(S) /\ Len(v) = Len(w) + 1 /\ v[Len(w) + 1] = e
      /\ \A i \in 1..Len(w) : v[i] = w[i]
  OBVIOUS
<1>2. /\ y \in Seq(S) /\ Len(y) = n /\ y[n] = e
      /\ \A i \in 1..(n - 1) : y[i] = IF i <= Len(a) THEN a[i] ELSE w[i - Len(a)]
  OBVIOUS
<1> HIDE DEF v
<1>3. /\ x \in Seq(S) /\ Len(x) = n
      /\ \A i \in 1..n : x[i] = IF i <= Len(a) THEN a[i] ELSE v[i - Len(a)]
  BY <1>1
<1>4. Len(a) \in Nat /\ Len(w) \in Nat
  OBVIOUS
<1>5. ASSUME NEW i \in 1..n
      PROVE  x[i] = y[i]
  <2>1. CASE i <= Len(a)
    BY <1>2, <1>3, <1>4, <2>1
  <2>2. CASE i > Len(a) /\ i < n
    <3>1. i - Len(a) \in 1..Len(w)
      BY <1>4, <2>2
    <3> QED
      BY <1>1, <1>2, <1>3, <1>4, <2>2, <3>1
  <2>3. CASE i = n
    BY <1>1, <1>2, <1>3, <1>4, <2>3
  <2>4. i <= Len(a) \/ (i > Len(a) /\ i < n) \/ i = n
    <3> HIDE DEF x, y
    <3>1. i \in Nat /\ i <= n /\ n \in Nat
      BY <1>4
    <3> HIDE DEF n
    <3> QED
      BY <1>4, <3>1
  <2> QED
    BY <2>1, <2>2, <2>3, <2>4
<1> HIDE DEF x, y
<1>6. x = y
  BY <1>2, <1>3, <1>5
<1> QED
  BY <1>6 DEF x, y, v

\* A new row of allocations is as small as the line it is for.
LEMMA InsertAllocationAccounts ==
    ASSUME ProgressInv, SellInv, AccountInv, NEW r \in Requests, InsertAllocation(r)
    PROVE  AccountInv'
<1> DEFINE q == req[r]
           row == [order |-> q.order, line |-> q.line, batch |-> q.ent.batch,
                   qty |-> q.ent.qty, restored |-> FALSE]
           w == IF q.tx THEN Append(q.wa, row) ELSE q.wa
           x == [q EXCEPT !.wa = w]
           done == AfterConsume(x)
<1>1. /\ Inv /\ q \in Request /\ Sound(q) /\ Owner(q) /\ q.pc = "alloc" /\ Small(allocs)
      /\ Honest(q, batch, allocs) /\ (~q.tx => Plain(q)) /\ q.todo \subseteq DOMAIN allocs
      /\ q.order \in Orders
  BY RunnerAccounts DEF InsertAllocation, Sound, HasOrder
<1>2. Post(r, done) /\ UNCHANGED batch
  BY <1>1 DEF InsertAllocation, Request
<1>3. row \in AllocationRow
  BY <1>1
  DEF Sound, HasOrder, HasBatch, MovesUnits, InSave, Owner, AtItem, InItem, AllocationRow,
      Request
<1>4. q.wa \in Seq(AllocationRow) /\ allocs \in Seq(AllocationRow)
  BY <1>1 DEF Request, Inv, TypeOK
<1>5. allocs' = IF q.tx THEN allocs ELSE Append(allocs, row)
  BY DEF InsertAllocation
<1>6. /\ row.batch = q.ent.batch /\ row.qty = q.ent.qty /\ row.order = q.order
      /\ row.line = q.line /\ row.restored = FALSE
  OBVIOUS
<1> HIDE DEF row
<1>7. /\ q.line \in DOMAIN Cart[q.order] /\ q.need \in Nat /\ q.ent.qty \in Nat
      /\ q.need + q.ent.qty <= Cart[q.order][q.line].qty
      /\ Cart[q.order][q.line].qty \in Nat
  <2>1. q.line \in DOMAIN Cart[q.order]
    BY <1>1 DEF Owner, AtItem, InItem
  <2>2. q.need + q.ent.qty <= Cart[q.order][q.line].qty
    BY <1>1 DEF Honest, TakesSmall, InItem, InHandNow
  <2>3. q.need \in Nat /\ q.ent.qty \in Nat
    BY <1>1 DEF Request
  <2> QED
    BY <1>1, <2>1, <2>2, <2>3, ItemOfCart
<1>8. row.qty <= Cart[row.order][row.line].qty /\ q.need <= Cart[q.order][q.line].qty
  BY <1>6, <1>7
<1>9. Small(allocs') /\ allocs' \in Seq(AllocationRow) /\ \A k \in DOMAIN allocs : allocs'[k] = allocs[k]
  <2>1. CASE q.tx
    BY <1>1, <1>4, <1>5, <2>1
  <2>2. CASE ~q.tx
    <3> DEFINE v == Append(allocs, row)
    <3>1. v \in Seq(AllocationRow) /\ DOMAIN v = 1..(Len(allocs) + 1) /\ v[Len(allocs) + 1] = row
          /\ \A k \in DOMAIN allocs : v[k] = allocs[k]
      BY <1>3, <1>4
    <3>2. DOMAIN allocs = 1..Len(allocs) /\ Len(allocs) \in Nat
      BY <1>4
    <3>3. allocs' = v
      BY <1>5, <2>2
    <3> HIDE DEF v
    <3>4. \A k \in DOMAIN v : k \in DOMAIN allocs \/ k = Len(allocs) + 1
      BY <3>1, <3>2
    <3>5. Small(v)
      BY <1>1, <1>8, <3>1, <3>4 DEF Small
    <3> QED
      BY <3>1, <3>3, <3>5
  <2> QED
    BY <2>1, <2>2
<1>10. w \in Seq(AllocationRow) /\ Small(w)
  <2>1. Small(q.wa)
    BY <1>1 DEF Honest, TakesSmall
  <2>2. CASE ~q.tx
    BY <1>4, <2>1, <2>2
  <2>3. CASE q.tx
    <3> DEFINE v == Append(q.wa, row)
    <3>1. v \in Seq(AllocationRow) /\ DOMAIN v = 1..(Len(q.wa) + 1) /\ v[Len(q.wa) + 1] = row
          /\ \A k \in 1..Len(q.wa) : k \in DOMAIN q.wa /\ v[k] = q.wa[k]
      BY <1>3, <1>4
    <3> HIDE DEF v
    <3>2. \A k \in DOMAIN v : k \in 1..Len(q.wa) \/ k = Len(q.wa) + 1
      BY <1>4, <3>1
    <3>3. Small(v)
      BY <1>8, <2>1, <3>1, <3>2 DEF Small
    <3> QED
      BY <2>3, <3>1, <3>3 DEF v
  <2> QED
    BY <2>2, <2>3
<1>11. \A k \in q.todo : ~allocs'[k].restored
  BY <1>1, <1>9 DEF Honest, GivesBack
<1>12. w = IF q.tx THEN Append(q.wa, row) ELSE q.wa
  OBVIOUS
<1> HIDE DEF w
<1>13. /\ x \in Request /\ x.pc = q.pc /\ x.order = q.order /\ x.need = q.need
       /\ x.ent = q.ent /\ x.wb = q.wb /\ x.wa = w /\ x.line = q.line /\ x.tx = q.tx
       /\ x.wl = q.wl /\ x.todo = q.todo
  BY <1>1, <1>10 DEF Request
<1> HIDE DEF x
<1>14. PostsAtOnce(x)
  BY <1>1, <1>13 DEF Honest, PostsAtOnce
<1>15. /\ Honest(done, batch, allocs') /\ done.wb = x.wb /\ done.wa = w /\ done.wl = x.wl
       /\ done.tx = x.tx /\ NoHand(done)
  BY <1>1, <1>7, <1>8, <1>10, <1>11, <1>13, <1>14, AfterConsumeHonest
<1>16. Sound(x)
  BY <1>1, <1>13 DEF Sound, HasOrder, HasNeed, HasBatch, MovesUnits, InSave, WritesNoDebt
<1>17. done \in Request /\ ~InSave(done)
  BY <1>1, <1>13, <1>16, AfterConsumeSound DEF Sound, HasOrder
<1> HIDE DEF done
<1>18. SeenBy(done, batch) = SeenBy(q, batch)
  BY <1>13, <1>15 DEF SeenBy, Writes
<1>19. allocs' \o done.wa = Append(allocs \o q.wa, row)
  <2>1. CASE q.tx
    <3>1. allocs' = allocs /\ done.wa = Append(q.wa, row)
      BY <1>5, <1>12, <1>15, <2>1
    <3>2. allocs \o Append(q.wa, row) = Append(allocs \o q.wa, row)
      BY <1>3, <1>4, AppendsLast, SMTT(40)
    <3> QED
      BY <3>1, <3>2
  <2>2. CASE ~q.tx
    <3>1. allocs' = Append(allocs, row) /\ done.wa = <<>> /\ q.wa = <<>>
      BY <1>1, <1>5, <1>12, <1>15, <2>2 DEF Plain
    <3>2. Append(allocs, row) \o <<>> = Append(allocs \o <<>>, row)
      BY <1>3, <1>4
    <3> QED
      BY <3>1, <3>2
  <2> QED
    BY <2>1, <2>2
<1>20. \A K \in SUBSET Batches :
         HeldOf(allocs' \o done.wa, K) = HeldOf(allocs \o q.wa, K) + HandOf(q, K)
  <2> SUFFICES ASSUME NEW K \in SUBSET Batches
               PROVE  HeldOf(Append(allocs \o q.wa, row), K)
                        = HeldOf(allocs \o q.wa, K) + HandOf(q, K)
    BY <1>19
  <2> DEFINE a == allocs \o q.wa
  <2>1. a \in Seq(AllocationRow)
    BY <1>4
  <2> HIDE DEF a
  <2>2. HeldOf(Append(a, row), K)
          = HeldOf(a, K) + (IF ~row.restored /\ row.batch \in K THEN row.qty ELSE 0)
    BY <1>3, <2>1, HeldAppend
  <2>3. HandOf(q, K) = IF ~row.restored /\ row.batch \in K THEN row.qty ELSE 0
    BY <1>1, <1>6 DEF HandOf
  <2> QED
    BY <2>2, <2>3 DEF a
<1>21. (q.tx => UNCHANGED allocs) /\ (~q.tx => done.wa = <<>>)
  BY <1>1, <1>5, <1>12, <1>15 DEF Plain
<1> QED
  BY <1>1, <1>2, <1>9, <1>13, <1>15, <1>17, <1>18, <1>20, <1>21, PostAccounts

\* A row that is marked restored holds no more.
LEMMA MarkRestoredAccounts ==
    ASSUME ProgressInv, SellInv, AccountInv, NEW r \in Requests, MarkRestored(r)
    PROVE  AccountInv'
<1> DEFINE q == req[r]
           k == q.ent.alloc
           done == AfterRestore(q)
<1>1. /\ Inv /\ q \in Request /\ Sound(q) /\ q.pc = "mark" /\ Small(allocs)
      /\ Honest(q, batch, allocs) /\ (~q.tx => Plain(q)) /\ q.order \in Orders
      /\ allocs \in Seq(AllocationRow)
  BY RunnerAccounts DEF MarkRestored, Sound, HasOrder, Inv, TypeOK
<1>2. /\ ~q.tx /\ Plain(q) /\ k \in DOMAIN allocs \ q.todo /\ ~allocs[k].restored
      /\ q.ent.batch = allocs[k].batch /\ q.ent.qty = allocs[k].qty
      /\ \A j \in q.todo : ~allocs[j].restored
      /\ q.todo \subseteq DOMAIN allocs
  <2>1. Restoring(q) /\ InSave(q)
    BY <1>1 DEF Restoring, InSave
  <2>2. q.todo \subseteq DOMAIN allocs
    BY <1>1 DEF Inv
  <2> QED
    BY <1>1, <2>1, <2>2 DEF Honest, GivesBack
<1>3. /\ allocs' = [allocs EXCEPT ![k] = [@ EXCEPT !.restored = TRUE]]
      /\ Post(r, done) /\ UNCHANGED batch
  BY DEF MarkRestored
<1> DEFINE a == [allocs EXCEPT ![k] = [@ EXCEPT !.restored = TRUE]]
<1>4. /\ a \in Seq(AllocationRow) /\ DOMAIN a = DOMAIN allocs
      /\ a[k] = [allocs[k] EXCEPT !.restored = TRUE]
      /\ \A j \in DOMAIN allocs \ {k} : a[j] = allocs[j]
      /\ \A K \in SUBSET Batches :
           HeldOf(a, K) = HeldOf(allocs, K) - (IF allocs[k].batch \in K THEN allocs[k].qty ELSE 0)
  <2>1. ASSUME NEW K
        PROVE  /\ a \in Seq(AllocationRow) /\ DOMAIN a = DOMAIN allocs
               /\ a[k] = [allocs[k] EXCEPT !.restored = TRUE]
               /\ \A j \in DOMAIN allocs \ {k} : a[j] = allocs[j]
               /\ HeldOf(a, K)
                    = HeldOf(allocs, K) - (IF allocs[k].batch \in K THEN allocs[k].qty ELSE 0)
    <3>1. allocs \in Seq(AllocationRow) /\ k \in DOMAIN allocs /\ ~allocs[k].restored
      BY <1>1, <1>2
    <3> HIDE DEF k
    <3> QED
      BY <3>1, HeldMarked
  <2> HIDE DEF a
  <2> QED
    BY <2>1
<1>5. allocs' = a
  BY <1>3
<1> HIDE DEF a
<1>6. allocs[k] \in AllocationRow
  BY <1>1, <1>2
<1>7. Small(a)
  <2>1. a[k].qty = allocs[k].qty /\ a[k].order = allocs[k].order /\ a[k].line = allocs[k].line
    BY <1>4, <1>6 DEF AllocationRow
  <2> QED
    BY <1>1, <1>2, <1>4, <2>1 DEF Small
<1>8. \A j \in q.todo : ~a[j].restored
  BY <1>2, <1>4
<1>9. Honest(done, batch, a)
  BY <1>1, <1>2, <1>8, AfterRestoreHonest
<1>10. ~done.tx /\ Plain(done) /\ NoHand(done) /\ ~InSave(done)
  BY <1>1, <1>2, AfterRestoreView
<1>11. done \in Request
  BY <1>1, AfterRestoreSound DEF Sound
<1> HIDE DEF done
<1>12. done.wa = <<>> /\ done.wl = q.wl /\ SeenBy(done, batch) = SeenBy(q, batch) /\ q.wa = <<>>
  BY <1>2, <1>10 DEF Plain, SeenBy
<1>13. \A K \in SUBSET Batches :
         HeldOf(a \o done.wa, K) = HeldOf(allocs \o q.wa, K) + HandOf(q, K)
  <2> SUFFICES ASSUME NEW K \in SUBSET Batches
               PROVE  HeldOf(a, K) = HeldOf(allocs, K) + HandOf(q, K)
    <3>1. a \o <<>> = a /\ allocs \o <<>> = allocs
      BY <1>1, <1>4
    <3> QED
      BY <1>12, <3>1
  <2>1. HandOf(q, K) = IF allocs[k].batch \in K THEN -allocs[k].qty ELSE 0
    BY <1>1, <1>2 DEF HandOf
  <2>2. HeldOf(allocs, K) \in Nat /\ allocs[k].qty \in Nat
    BY <1>1, <1>2, <1>6, HeldSum DEF AllocationRow
  <2>3. HeldOf(a, K) = HeldOf(allocs, K) - (IF allocs[k].batch \in K THEN allocs[k].qty ELSE 0)
    BY <1>4
  <2> HIDE DEF k, q
  <2> QED
    BY <2>1, <2>2, <2>3
<1>14. done.tx = q.tx /\ q.tx = FALSE
  BY <1>1, <1>2, <1>10, <1>11 DEF Request
<1> QED
  BY <1>1, <1>3, <1>4, <1>5, <1>7, <1>9, <1>10, <1>11, <1>12, <1>13, <1>14, PostAccounts

-----------------------------------------------------------------------------
(* Commits, deaths and what happens around the requests *)

\* The end of a transaction: what the request saw is what the tables say.
LEMMA FlushAccounts ==
    ASSUME ProgressInv, SellInv, AccountInv, NEW r \in Requests, req[r].pc # "idle",
           NoHand(req[r]), Flush(r), UNCHANGED used,
           NEW x, Plain(x), NoHand(x), ~InItem(x), ~InSave(x), x.todo = {}, ~x.tx,
           req' = [req EXCEPT ![r] = x]
    PROVE  AccountInv'
<1> DEFINE q == req[r]
           f == used.faults
<1>1. /\ Inv /\ Alone(r) /\ q \in Request /\ Honest(q, batch, allocs) /\ Small(allocs)
      /\ Accounts(q, batch, ledger, allocs, f) /\ SeenBy(q, batch) = Sees(r)
  BY RunnerAccounts
<1>2. /\ batch' = Sees(r) /\ ledger' = [p \in Products |-> SeesLedger(r, p)]
      /\ allocs' = allocs \o q.wa
  BY DEF Flush
<1>3. allocs \in Seq(AllocationRow) /\ q.wa \in Seq(AllocationRow)
  BY <1>1 DEF Inv, TypeOK, Request
<1>4. x.wa = <<>> /\ x.wl = [p \in Products |-> 0] /\ \A b \in Batches : ~Writes(x, b)
  BY DEF Plain, Idle
<1>5. SeenBy(x, batch') = SeenBy(q, batch)
  <2>1. SeenBy(x, batch') = [b \in Batches |-> batch'[b]]
    BY <1>4 DEF SeenBy
  <2>2. [b \in Batches |-> batch'[b]] = batch'
    BY <1>2 DEF Sees
  <2> QED
    BY <1>1, <1>2, <2>1, <2>2
<1>6. allocs' \o x.wa = allocs \o q.wa
  BY <1>2, <1>3, <1>4
<1>7. ASSUME NEW p \in Products
      PROVE  ledger'[p] + x.wl[p] = ledger[p] + q.wl[p]
  <2>1. ledger[p] \in Int /\ q.wl[p] \in Int
    BY <1>1 DEF Inv, TypeOK, Request
  <2>2. ledger'[p] = ledger[p] + q.wl[p] /\ x.wl[p] = 0
    BY <1>2, <1>4 DEF SeesLedger
  <2> QED
    BY <2>1, <2>2
<1>8. \A K \in SUBSET Batches : HandOf(x, K) = HandOf(q, K)
  BY DEF HandOf, NoHand
<1>9. Accounts(x, batch', ledger', allocs', f)
  BY <1>1, <1>5, <1>6, <1>7, <1>8, SameAccounts
<1>10. Small(allocs')
  <2>1. Small(q.wa)
    BY <1>1 DEF Honest, TakesSmall
  <2>2. ASSUME NEW k \in DOMAIN allocs'
        PROVE  \/ k \in DOMAIN allocs /\ allocs'[k] = allocs[k]
               \/ \E j \in DOMAIN q.wa : allocs'[k] = q.wa[j]
    <3>1. k \in 1..(Len(allocs) + Len(q.wa))
      BY <1>2, <1>3
    <3>2. CASE k \in 1..Len(allocs)
      BY <1>2, <1>3, <3>2
    <3>3. CASE k > Len(allocs)
      <4>1. k - Len(allocs) \in DOMAIN q.wa /\ allocs'[k] = q.wa[k - Len(allocs)]
        BY <1>2, <1>3, <3>1, <3>3
      <4> QED
        BY <4>1
    <3> QED
      BY <1>3, <3>1, <3>2, <3>3
  <2> QED
    BY <1>1, <2>1, <2>2 DEF Small
<1>11. Honest(x, batch', allocs')
  <2>1. Small(x.wa)
    BY <1>4 DEF Small
  <2>2. PostsAtOnce(x)
    BY DEF PostsAtOnce, Plain
  <2>3. \A k \in x.todo : ~allocs'[k].restored
    OBVIOUS
  <2> QED
    BY <2>1, <2>2, <2>3, QuietHonest
<1>12. used'.faults = f
  OBVIOUS
<1> QED
  BY <1>1, <1>9, <1>10, <1>11, <1>12, IdleHonest, StepAccounts

\* A request that dies with units in hand and no transaction costs them.
LEMMA DieAccounts ==
    ASSUME ProgressInv, SellInv, AccountInv, NEW r \in Requests, Die(r)
    PROVE  AccountInv'
<1> DEFINE q == req[r]
           e == q.ent
           n == e.qty
           f == used.faults
<1>1. q # Idle /\ used' = [used EXCEPT !.faults = @ + 1] /\ UNCHANGED <<batch, ledger, allocs>>
      /\ req' = [req EXCEPT ![r] = Idle]
  BY DEF Die, Throw, Goto, db
<1>2. /\ Inv /\ q \in Request /\ Alone(r) /\ Small(allocs)
      /\ Accounts(q, batch, ledger, allocs, f)
      /\ (q.tx => Accounts(Idle, batch, ledger, allocs, f))
  <2>1. Alone(r)
    BY <1>1 DEF SellInv, AloneInv, Alone
  <2>2. q.tx => Settled
    BY <2>1 DEF Alone, Settled
  <2> QED
    BY <1>1, <2>1, <2>2 DEF AccountInv, ProgressInv, OwnInv, Inv, TypeOK
<1>3. ~q.tx => Plain(q)
  <2>1. Buffers(q) /\ Progress(q) /\ Honest(q, batch, allocs)
    BY ReqSells DEF ProgressInv, AccountInv
  <2> QED
    BY <2>1 DEF Plain, Buffers, Honest, PostsAtOnce, Progress
<1>4. /\ f \in Nat /\ batch \in [Batches -> BatchRow] /\ ledger \in [Products -> Int]
      /\ allocs \in Seq(AllocationRow) /\ Idle \in Request
  <2>1. used.faults \in 0..MaxFaults /\ MaxFaults \in Nat
    BY <1>2, ConstantsAssumption DEF Inv, TypeOK
  <2> QED
    BY <1>2, <2>1, IdleType DEF Inv, TypeOK
<1>5. used'.faults = f + 1
  BY <1>1, <1>2 DEF Inv, TypeOK
<1>6. Accounts(Idle, batch, ledger, allocs, f + 1)
  <2>1. CASE q.tx
    BY <1>2, <1>4, <2>1, LaterAccounts
  <2>2. CASE ~q.tx /\ NoHand(q)
    <3>1. Accounts(Idle, batch, ledger, allocs, f)
      BY <1>2, <1>3, <2>2, IdlePlain, PlainAccounts
    <3> QED
      BY <1>4, <3>1, LaterAccounts
  <2>3. CASE ~q.tx /\ ~NoHand(q)
    <3>1. q.pc \in {"alloc", "mark"} /\ Plain(q) /\ Plain(Idle) /\ NoHand(Idle)
      BY <1>3, <2>3, IdlePlain DEF NoHand
    <3>2. /\ n \in Nat /\ e.batch \in Batches /\ n <= LargestLine(ProductOf[e.batch])
          /\ (f = 0 => n <= Received[e.batch])
      BY <3>1, MovesFew
    <3>3. PICK lost \in {0, n, -n}, more \in {0, n, -n} :
            lost = (IF q.pc = "alloc" THEN -n ELSE n) /\ more = 0
      OBVIOUS
    <3>4. /\ \A K \in SUBSET Batches : DriftOf(q, batch, allocs, K) \in Int
          /\ \A s \in Products : GapOf(q, ledger, allocs, s) \in Int
      BY <1>2, <1>4, ViewType
    <3>5. SeenBy(Idle, batch) = SeenBy(q, batch) /\ Idle.wa = q.wa /\ Idle.wl = q.wl
      BY <3>1 DEF SeenBy, Plain
    <3>6. \A K \in SUBSET Batches :
            DriftOf(Idle, batch, allocs, K)
              = DriftOf(q, batch, allocs, K) + (IF e.batch \in K THEN lost ELSE 0)
      <4> SUFFICES ASSUME NEW K \in SUBSET Batches
                   PROVE  DriftOf(Idle, batch, allocs, K)
                            = DriftOf(q, batch, allocs, K) + (IF e.batch \in K THEN lost ELSE 0)
        OBVIOUS
      <4> DEFINE u == SumOver(SeenBy(q, batch), K)
                 h == HeldOf(allocs \o q.wa, K)
                 s == SupplyOf(K)
      <4>1. u \in Int /\ h \in Int /\ s \in Int
        BY <1>2, <1>4, ViewType
      <4>2. HandOf(Idle, K) = 0
        BY <3>1 DEF HandOf, NoHand
      <4>3. HandOf(q, K) = IF e.batch \in K THEN (IF q.pc = "alloc" THEN n ELSE -n) ELSE 0
        BY <3>1 DEF HandOf
      <4>4. DriftOf(Idle, batch, allocs, K) = u + h + 0 - s
        BY <3>5, <4>2 DEF DriftOf
      <4>5. DriftOf(q, batch, allocs, K) = u + h + HandOf(q, K) - s
        BY DEF DriftOf
      <4> HIDE DEF u, h, s, n
      <4> QED
        BY <3>2, <3>3, <4>1, <4>3, <4>4, <4>5
    <3>7. \A s \in Products :
            GapOf(Idle, ledger, allocs, s)
              = GapOf(q, ledger, allocs, s) + (IF ProductOf[e.batch] = s THEN more ELSE 0)
      <4> SUFFICES ASSUME NEW s \in Products
                   PROVE  GapOf(Idle, ledger, allocs, s) = GapOf(q, ledger, allocs, s)
        BY <3>3, <3>4
      <4> QED
        BY <3>5 DEF GapOf
    <3>8. Accounts(q, batch, ledger, allocs, f) /\ f \in Nat
      BY <1>2, <1>4
    <3> HIDE DEF e, q, f, n
    <3> QED
      BY <3>2, <3>4, <3>6, <3>7, <3>8, CrashAccounts
  <2> QED
    BY <2>1, <2>2, <2>3
<1> QED
  BY <1>1, <1>2, <1>5, <1>6, IdleHonest, StepAccounts

\* A handler begins when no other runs, with nothing in hand.
LEMMA StartAccounts ==
    ASSUME MaxInFlight = 1, Inv, SellInv, AccountInv, NEW r \in Requests, NEW q, Start(r, q),
           UNCHANGED used.faults, Plain(q), NoHand(q), Honest(q, batch, allocs)
    PROVE  AccountInv'
<1>1. Alone(r)
  <2> SUFFICES ASSUME NEW s \in Requests \ {r}, req[s] # Idle
               PROVE  FALSE
    BY DEF Alone
  <2>1. Others(r) = {s}
    BY DEF Others, SellInv, AloneInv
  <2>2. Cardinality({s}) = 1
    BY FS_Singleton
  <2> QED
    BY <2>1, <2>2 DEF Start
<1>2. req[r] = Idle /\ req' = [req EXCEPT ![r] = q] /\ UNCHANGED <<batch, ledger, allocs>>
  BY DEF Start
<1>3. Settled
  BY <1>1, <1>2 DEF Alone, Settled
<1>4. Accounts(Idle, batch, ledger, allocs, used.faults) /\ Small(allocs)
  BY <1>3 DEF AccountInv
<1>5. Accounts(q, batch, ledger, allocs, used.faults)
  BY <1>4, IdlePlain, PlainAccounts
<1> QED
  BY <1>1, <1>2, <1>4, <1>5, IdleHonest, StepAccounts

\* A request begins before its first statement that moves units.
LEMMA BeginAccounts ==
    ASSUME MaxInFlight = 1, Inv, SellInv, AccountInv, NEW r \in Requests, Begin(r)
    PROVE  AccountInv'
<1> DEFINE Blank(q) == q.wa = <<>> /\ q.wl = Idle.wl /\ q.wb = Idle.wb /\ q.todo = {}
<1>0. Blank(Idle) /\ Idle.pc = "idle" /\ Plain(Idle)
  <2>1. Idle.todo = {} /\ Idle.wa = <<>>
    BY IdleSound, IdlePlain DEF Plain
  <2> QED
    BY <2>1, IdleType, IdlePlain
<1>1. used \in Used
  BY UsedType
<1>2. \A q : Blank(q) => Plain(q)
  BY <1>0 DEF Plain, Writes
<1>3. \A q : Call(r, q) => Start(r, q) /\ UNCHANGED used.faults
  BY <1>1 DEF Call, Used
<1>4. \A q : Tick(r, q) => (Start(r, q) \/ Start(r, Idle)) /\ UNCHANGED used.faults
  BY <1>1 DEF Tick, Used
<1>5. ASSUME NEW o \in Orders, BeginCreate(r, o)
      PROVE  AccountInv'
  <2> DEFINE q == [Idle EXCEPT !.op = "create", !.tx = TRUE, !.order = o,
                               !.rows = Loaded(o, NewOrder)]
  <2>1. Start(r, FirstItem(q)) /\ UNCHANGED used.faults
    BY <1>3, <1>5 DEF BeginCreate
  <2>2. Blank(q) /\ q.order = o
    BY <1>0 DEF Idle
  <2>3. q \in Request
    <3>1. Loaded(o, NewOrder) \in [Orders -> OrderRow]
      BY LoadedType DEF NewOrder, OrderRow, OrderStatus, PaymentStatus
    <3> QED
      BY <3>1, IdleType DEF Request, Ops
  <2> HIDE DEF q
  <2>4. Small(q.wa) /\ PostsAtOnce(q) /\ \A k \in q.todo : ~allocs[k].restored
    BY <2>2 DEF Small, PostsAtOnce
  <2> DEFINE x == FirstItem(q)
  <2>5. Honest(x, batch, allocs) /\ NoHand(x) /\ x.wb = q.wb /\ x.wa = q.wa /\ x.wl = q.wl
    BY <2>2, <2>3, <2>4, FirstItemHonest
  <2> HIDE DEF x
  <2>6. Plain(x)
    BY <1>0, <2>2, <2>5 DEF Plain, Writes
  <2> QED
    BY <2>1, <2>5, <2>6, StartAccounts DEF x
<1>6. ASSUME NEW q, q.pc \in {"idle", "has", "find", "selectOrder"}, Blank(q), Start(r, q),
             UNCHANGED used.faults, q.pc = "find" => ~q.tx
      PROVE  AccountInv'
  <2>1. Plain(q) /\ NoHand(q)
    BY <1>2, <1>6 DEF NoHand
  <2>2. Honest(q, batch, allocs)
    <3>1. ~InItem(q) /\ ~InSave(q) /\ (Restoring(q) => ~q.tx)
      BY <1>6 DEF InItem, InSave, Restoring
    <3>2. Small(q.wa) /\ PostsAtOnce(q) /\ \A k \in q.todo : ~allocs[k].restored
      BY <1>6 DEF Small, PostsAtOnce
    <3> QED
      BY <3>1, <3>2, QuietHonest
  <2> QED
    BY <1>6, <2>1, <2>2, StartAccounts
<1>7. ASSUME NEW o \in Orders, BeginSubmit(r, o)
      PROVE  AccountInv'
  <2> DEFINE begins(row) == [Idle EXCEPT !.op = "submit", !.pc = "selectOrder",
                                         !.order = o, !.rows = Loaded(o, row)]
  <2>1. PICK row : Start(r, begins(row)) /\ UNCHANGED used.faults
    BY <1>3, <1>7 DEF BeginSubmit
  <2>2. Blank(begins(row)) /\ begins(row).pc = "selectOrder"
    BY <1>0 DEF Idle
  <2> HIDE DEF begins
  <2> QED
    BY <2>1, <2>2, <1>6
<1>8. ASSUME NEW o \in Orders, BeginConfirm(r, o)
      PROVE  AccountInv'
  <2> DEFINE begins(row) == [Idle EXCEPT !.op = "confirm", !.pc = "has", !.tx = TRUE,
                                         !.order = o, !.rows = Loaded(o, row)]
  <2>1. PICK row : Start(r, begins(row)) /\ UNCHANGED used.faults
    BY <1>3, <1>8 DEF BeginConfirm
  <2>2. Blank(begins(row)) /\ begins(row).pc = "has"
    BY <1>0 DEF Idle
  <2> HIDE DEF begins
  <2> QED
    BY <2>1, <2>2, <1>6
<1>9. ASSUME NEW o \in Orders, NEW to \in Targets, BeginUpdate(r, o, to)
      PROVE  AccountInv'
  <2> DEFINE rows == Loaded(o, [order[o] EXCEPT !.status = to])
             begins(pc) == [Idle EXCEPT !.op = "update", !.pc = pc, !.order = o,
                                        !.rows = rows]
  <2>1. PICK pc \in {"find", "has", "selectOrder"} :
          Start(r, begins(pc)) /\ UNCHANGED used.faults
    BY <1>3, <1>9 DEF BeginUpdate
  <2>2. Blank(begins(pc)) /\ begins(pc).pc = pc /\ ~begins(pc).tx
    BY <1>0 DEF Idle
  <2> HIDE DEF begins
  <2> QED
    BY <2>1, <2>2, <1>6
<1>10. ASSUME NEW op, NEW rows, Tick(r, [Idle EXCEPT !.op = op, !.pc = "find", !.rows = rows])
       PROVE  AccountInv'
  <2> DEFINE q == [Idle EXCEPT !.op = op, !.pc = "find", !.rows = rows]
  <2>1. Blank(q) /\ q.pc = "find" /\ ~q.tx
    BY <1>0 DEF Idle
  <2>2. (Start(r, Idle) \/ Start(r, q)) /\ UNCHANGED used.faults
    BY <1>4, <1>10
  <2> HIDE DEF q
  <2> QED
    BY <1>0, <1>6, <2>1, <2>2
<1>11. CASE BeginAutoCancel(r)
  BY <1>10, <1>11 DEF BeginAutoCancel
<1>12. CASE BeginRelease(r)
  BY <1>10, <1>12 DEF BeginRelease
<1> QED
  BY <1>5, <1>7, <1>8, <1>9, <1>11, <1>12 DEF Begin

\* Every statement of a request keeps the accounts.
LEMMA RunAccounts ==
    ASSUME ProgressInv, SellInv, AccountInv, NEW r \in Requests, Run(r) \/ Die(r)
    PROVE  AccountInv'
<1>1. CASE CommitCreate(r)
  <2>1. Flush(r) /\ UNCHANGED used /\ req' = [req EXCEPT ![r] = Idle] /\ req[r].pc = "commit"
    BY <1>1 DEF CommitCreate, Goto
  <2>2. /\ Plain(Idle) /\ NoHand(Idle) /\ ~InItem(Idle) /\ ~InSave(Idle) /\ Idle.todo = {}
        /\ ~Idle.tx
    BY IdlePlain, IdleType DEF InItem, InSave
  <2> QED
    BY <2>1, <2>2, FlushAccounts DEF NoHand
<1>2. CASE UpdateOrder(r)
  <2> DEFINE x == DoneWithOrder(req[r])
  <2>1. Flush(r) /\ UNCHANGED used /\ req' = [req EXCEPT ![r] = x]
        /\ req[r].pc = "updateOrder"
    BY <1>2 DEF UpdateOrder, Goto
  <2>2. ~x.tx /\ Plain(x) /\ NoHand(x) /\ ~InItem(x) /\ ~InSave(x) /\ x.todo = {}
    BY DoneView
  <2> HIDE DEF x
  <2> QED
    BY <2>1, <2>2, FlushAccounts DEF NoHand
<1> QED
  BY <1>1, <1>2, CheckAllocationsAccounts, CreateLegacyAccounts,
     ReadCandidatesAccounts, TakeOldestAccounts, FindAllocationsAccounts, ReadBatchAccounts,
     SelectBatchAccounts, UpdateBatchAccounts, InsertAllocationAccounts, MarkRestoredAccounts,
     SelectOrderAccounts, DeadlockVictimAccounts, DieAccounts
  DEF Run

-----------------------------------------------------------------------------
(* What the tables add up to *)

\* What a request at rest sees is what the tables say.
LEMMA RestingView ==
    ASSUME NEW rows \in [Batches -> BatchRow], NEW a \in Seq(AllocationRow)
    PROVE  SeenBy(Idle, rows) = rows /\ a \o Idle.wa = a /\ \A K : HandOf(Idle, K) = 0
           /\ \A p \in Products : Idle.wl[p] = 0
<1>1. Plain(Idle) /\ NoHand(Idle)
  BY IdlePlain
<1>2. SeenBy(Idle, rows) = [b \in Batches |-> rows[b]]
  BY <1>1 DEF SeenBy, Plain
<1>3. a \o <<>> = a
  OBVIOUS
<1>4. Idle.wl = [p \in Products |-> 0]
  BY DEF Idle
<1> QED
  BY <1>1, <1>2, <1>3, <1>4 DEF Plain, HandOf, NoHand

\* The accounts of a request at rest are what the property speaks of.
LEMMA DriftIs ==
    ASSUME Inv, NEW p \in Products
    PROVE  Drift(p) = DriftOf(Idle, batch, allocs, BatchesOf(p)) /\ Drift(p) \in Int
<1> DEFINE B == BatchesOf(p)
           S == {k \in DOMAIN allocs : ~allocs[k].restored /\ ProductOf[allocs[k].batch] = p}
           T == {k \in DOMAIN allocs : ~allocs[k].restored /\ allocs[k].batch \in B}
<1>1. batch \in [Batches -> BatchRow] /\ allocs \in Seq(AllocationRow)
  BY DEF Inv, TypeOK
<1>2. S = T
  <2>1. ASSUME NEW k \in DOMAIN allocs
        PROVE  allocs[k].batch \in Batches
    <3>1. allocs[k] \in AllocationRow
      BY <1>1
    <3> QED
      BY <3>1 DEF AllocationRow
  <2> QED
    BY <2>1 DEF BatchesOf
<1>3. Supplied(p) = SupplyOf(B)
  BY DEF Supplied, SupplyOf, SumOf
<1>4. MapThenSumSet(LAMBDA k : allocs[k].qty, T) = HeldOf(allocs, B)
  BY DEF HeldOf, Qty
<1>5. DriftOf(Idle, batch, allocs, B) = SumOver(batch, B) + HeldOf(allocs, B) + 0 - SupplyOf(B)
  BY <1>1, RestingView DEF DriftOf
<1>6. Drift(p) = SumOver(batch, B) - SupplyOf(B) + HeldOf(allocs, B)
  <2>1. Drift(p) = SumOver(batch, B) - Supplied(p)
                   + MapThenSumSet(LAMBDA k : allocs[k].qty, S)
    BY DEF Drift
  <2> QED
    BY <1>2, <1>3, <1>4, <2>1
<1>7. SumOver(batch, B) \in Int /\ HeldOf(allocs, B) \in Int /\ SupplyOf(B) \in Int
  <2>1. B \in SUBSET Batches /\ \A b \in Batches : batch[b].avail \in Int
    BY <1>1, SomeBatches DEF BatchRow
  <2>2. HeldOf(allocs, B) \in Nat
    BY <1>1, HeldSum
  <2> QED
    BY <2>1, <2>2, UnitsType, SupplyType
<1> HIDE DEF B
<1>8. Drift(p) = DriftOf(Idle, batch, allocs, B) /\ Drift(p) \in Int
  BY <1>5, <1>6, <1>7
<1> QED
  BY <1>8 DEF B

\* At first the batches hold what they were received with, and so do the movements.
LEMMA InitAccounts ==
    ASSUME \A p \in Products : Moved[p] = Supplied(p), Init
    PROVE  AccountInv
<1>1. Inv
  BY InitInv
<1>2. /\ allocs = <<>> /\ ledger = Moved /\ \A r \in Requests : req[r] = Idle
      /\ \A b \in Batches : batch[b].avail = Received[b]
  BY DEF Init
<1>3. used.faults = 0
  BY DEF Init
<1>4. batch \in [Batches -> BatchRow] /\ allocs \in Seq(AllocationRow)
  BY <1>1 DEF Inv, TypeOK
<1>5. ASSUME NEW K \in SUBSET Batches
      PROVE  DriftOf(Idle, batch, allocs, K) = 0
  <2> DEFINE f == [b \in K |-> batch[b].avail]
  <2>1. SumOver(batch, K) = SumOf(f, K) /\ IsFiniteSet(K)
    BY SomeBatches, UnitsSum
  <2>2. \A b \in K : f[b] = Received[b]
    BY <1>2
  <2> HIDE DEF f
  <2>3. SumOver(batch, K) = SupplyOf(K)
    BY <2>1, <2>2, SumSame DEF SupplyOf
  <2>4. HeldOf(allocs, K) = 0
    BY <1>2, HeldNone
  <2>5. DriftOf(Idle, batch, allocs, K) = SumOver(batch, K) + HeldOf(allocs, K) + 0 - SupplyOf(K)
    BY <1>4, RestingView DEF DriftOf
  <2>6. SupplyOf(K) \in Nat
    BY SupplyType
  <2> QED
    BY <2>3, <2>4, <2>5, <2>6
<1>6. ASSUME NEW p \in Products
      PROVE  GapOf(Idle, ledger, allocs, p) = 0
  <2> DEFINE B == BatchesOf(p)
  <2>1. ledger[p] = SupplyOf(B)
    BY <1>2 DEF Supplied, SupplyOf, SumOf
  <2>2. HeldOf(allocs, B) = 0
    BY <1>2, HeldNone
  <2>3. GapOf(Idle, ledger, allocs, p) = ledger[p] + 0 + HeldOf(allocs, B) - SupplyOf(B)
    BY <1>4, RestingView DEF GapOf
  <2>4. SupplyOf(B) \in Nat
    BY SomeBatches, SupplyType
  <2> HIDE DEF B
  <2> QED
    BY <2>1, <2>2, <2>3, <2>4
<1>7. \A p : Within(0, 0 * Cost(0, p))
  <2>1. ASSUME NEW p
        PROVE  Within(0, 0 * Cost(0, p))
    <3>1. LargestLine(p) \in Nat /\ LargestBatch(p) \in Nat
      BY LargestKnown
    <3>2. Cost(0, p) \in Nat
      BY <3>1, MinOfTwo DEF Cost
    <3> QED
      BY <3>2 DEF Within
  <2> QED
    BY <2>1
<1>8. Accounts(Idle, batch, ledger, allocs, 0)
  BY <1>5, <1>6, <1>7, SomeBatches DEF Accounts
<1>9. Small(allocs)
  BY <1>2 DEF Small
<1> QED
  BY <1>2, <1>3, <1>8, <1>9, IdleHonest DEF AccountInv

\* Every step keeps the accounts, when no request begins while another runs.
LEMMA NextAccounts ==
    ASSUME MaxInFlight = 1, ProgressInv, SellInv, AccountInv, [Next]_vars
    PROVE  AccountInv'
<1>1. CASE UNCHANGED <<batch, ledger, allocs, req, used>>
  BY <1>1 DEF AccountInv, Settled
<1>2. ASSUME NEW r \in Requests, Begin(r)
      PROVE  AccountInv'
  BY <1>2, BeginAccounts DEF ProgressInv, OwnInv
<1>3. ASSUME NEW r \in Requests, Run(r) \/ Die(r)
      PROVE  AccountInv'
  BY <1>3, RunAccounts
<1> QED
  BY <1>1, <1>2, <1>3 DEF Next, GrowOld, Expire, vars

\* When nothing runs, the units on sale and those held by allocations that were not
\* restored add up to what was received, but for what died: per death at most the
\* largest line of an order for the product, and no more than a batch if only one died.
\* So consumeStock and restoreStockFromAllocations lose and double units only where
\* a death separates the save of a batch from the save of its allocation or movement.
THEOREM CrashesHold ==
    ASSUME MaxInFlight = 1, \A p \in Products : Moved[p] = Supplied(p)
    PROVE  Spec => []CrashCostsOneLine
<1>1. ProgressInv /\ AccountInv => CrashCostsOneLine
  <2> SUFFICES ASSUME ProgressInv, AccountInv, Quiet, NEW p \in Products
               PROVE  /\ Drift(p) <= used.faults * CrashCost(p)
                      /\ -Drift(p) <= used.faults * CrashCost(p)
    BY DEF CrashCostsOneLine
  <2>1. Accounts(Idle, batch, ledger, allocs, used.faults)
    BY DEF AccountInv, Settled, Quiet
  <2>2. Within(DriftOf(Idle, batch, allocs, BatchesOf(p)), used.faults * Cost(used.faults, p))
    BY <2>1 DEF Accounts
  <2>3. Drift(p) = DriftOf(Idle, batch, allocs, BatchesOf(p))
    BY DriftIs DEF ProgressInv, OwnInv
  <2>4. CrashCost(p) = Cost(used.faults, p)
    BY DEF CrashCost, Cost
  <2> QED
    BY <2>2, <2>3, <2>4 DEF Within
<1>2. Init => ProgressInv /\ SellInv /\ AccountInv
  BY InitProgress, InitSells, InitAccounts
<1>3. ProgressInv /\ SellInv /\ AccountInv /\ [Next]_vars => (ProgressInv /\ SellInv /\ AccountInv)'
  BY NextProgress, NextSells, NextAccounts DEF ProgressInv
<1> QED
  BY <1>1, <1>2, <1>3, PTL DEF Spec
=============================================================================
