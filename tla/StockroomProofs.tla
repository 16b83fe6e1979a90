--------------------------- MODULE StockroomProofs ---------------------------
(***************************************************************************)
(* Proofs about Stockroom for every set of products, purchases and         *)
(* overlapping requests, every quantity and every bound.                   *)
(***************************************************************************)
EXTENDS Stockroom, Sums, TLAPS

(* What a handler holds between two of its statements, with which the types of the  *)
(* tables are inductive: n and k are the numbers of batches and allocations, which  *)
(* are never removed.                                                               *)

OpsAt(pc) ==
    CASE pc = "idle" -> {"none"}
      [] pc \in {"select", "write"} -> {"update", "pay"}
      [] pc = "receipt" -> {"pay"}
      [] pc \in {"load", "block"} -> {"cancel"}
      [] pc \in {"find", "insert"} -> {"adjust", "consume", "backfill"}
      [] pc = "adjust" -> {"adjust"}
      [] pc = "move" -> {"entry", "adjust"}
      [] pc \in {"plan", "take", "alloc"} -> {"consume"}
      [] pc \in {"give", "mark"} -> {"restore"}
HoldsPurchase(q) ==
    /\ q.op \in {"update", "pay", "cancel"} => q.purchase \in Purchases
    /\ q.op = "pay" => q.qty \in Amounts
HoldsProduct(q) ==
    /\ q.op \in {"adjust", "consume", "backfill"} => q.product \in Products
    /\ q.op = "adjust" => q.qty \in Deltas
    /\ q.op = "entry" => q.moving \in Entries
    /\ q.pc = "insert" => q.moving \in Nat /\ q.product \notin Perishable
HoldsBatch(q, n, k) ==
    /\ q.pc \in {"adjust", "move", "alloc", "give", "mark"} => q.ent \in 1..n
    /\ q.op = "restore" => q.alloc \in 1..k /\ q.moving \in Nat \ {0}
HoldsPlan(q, n) ==
    /\ q.op = "consume" => q.qty \in Nat /\ (q.pc # "alloc" => q.qty > 0)
    /\ q.pc = "alloc" => q.moving \in Nat \ {0}
    /\ q.pc \in {"take", "alloc"} =>
         /\ SumOf(q.plan, BatchIds) >= q.qty
         /\ \A c \in BatchIds : q.plan[c] > 0 => c \in 1..n
Holding(q, n, k) ==
    /\ q \in Request /\ q.op \in OpsAt(q.pc)
    /\ HoldsPurchase(q) /\ HoldsProduct(q) /\ HoldsBatch(q, n, k) /\ HoldsPlan(q, n)

TablesOK ==
    /\ purchase \in [Purchases -> PurchaseRow] /\ payments \in [Purchases -> Seq(Nat \ {0})]
    /\ batch \in Seq(BatchRow) /\ moved \in Seq(MovementSums) /\ Len(moved) = Len(batch)
    /\ allocs \in Seq(AllocationRow)
    /\ \A k \in DOMAIN allocs : allocs[k].batch \in DOMAIN batch /\ allocs[k].qty > 0
UsedOK == used \in [calls : 0..MaxCalls, overlaps : 0..MaxOverlaps, faults : 0..MaxFaults]
RequestsHold ==
    /\ req \in [Requests -> Request]
    /\ \A r \in Requests : Holding(req[r], Len(batch), Len(allocs))
TypeInv == TablesOK /\ UsedOK /\ RequestsHold

-----------------------------------------------------------------------------
(* Sums *)

\* The sums of the model are sums of columns.
LEMMA SumsAreColumns ==
    ASSUME NEW S
    PROVE  /\ Units(S) = SumOfColumn(batch, "avail", S)
           /\ MapThenSumSet(LAMBDA b : moved[b].sum, S) = SumOfColumn(moved, "sum", S)
           /\ MapThenSumSet(LAMBDA r : req[r].qty, S) = SumOfColumn(req, "qty", S)
  BY DEF SumOfColumn, Units, MapThenSumSet, MapThenFoldSet

\* What a purchase costs is the sum of a function.
LEMMA TotalIsSum ==
    ASSUME NEW u \in Purchases
    PROVE  Total(u) = SumOf([i \in DOMAIN Lines[u] |-> Lines[u][i].qty * Lines[u][i].cost],
                            DOMAIN Lines[u])
<1> DEFINE S == DOMAIN Lines[u]
           f == [i \in S |-> Lines[u][i].qty * Lines[u][i].cost]
           iter(g) == g = [s \in SUBSET S |-> IF s = {} THEN 0
                             ELSE Lines[u][First(s)].qty * Lines[u][First(s)].cost
                                    + g[s \ {First(s)}]]
<1>0. IsFiniteSet(S)
  <2>1. S = 1..Len(Lines[u]) /\ Len(Lines[u]) \in Nat
    BY StockroomAssumption
  <2>2. 1 \in Int /\ Len(Lines[u]) \in Int
    BY <2>1
  <2>3. IsFiniteSet(1..Len(Lines[u]))
    BY <2>2, FS_Interval
  <2> QED
    BY ONLY <2>1, <2>3
<1>1. Total(u) = (CHOOSE g : iter(g))[S]
  BY DEF Total, MapThenSumSet, MapThenFoldSet, First
<1>2. ASSUME NEW s \in SUBSET S, s # {}
      PROVE  f[First(s)] = Lines[u][First(s)].qty * Lines[u][First(s)].cost
  BY <1>2, FirstIsIn
<1> HIDE DEF f, S
<1>3. ASSUME NEW g
      PROVE  iter(g) <=> Adds(g, f, S)
  <2>1. [s \in SUBSET S |-> IF s = {} THEN 0 ELSE Lines[u][First(s)].qty * Lines[u][First(s)].cost
                                                    + g[s \ {First(s)}]]
          = [s \in SUBSET S |-> IF s = {} THEN 0 ELSE f[First(s)] + g[s \ {First(s)}]]
    BY <1>2
  <2> QED
    BY <2>1 DEF Adds
<1>4. \E g : Adds(g, f, S)
  BY <1>0, AddsExists
<1> HIDE DEF iter
<1>5. Adds(CHOOSE g : iter(g), f, S) /\ Adds(CHOOSE g : Adds(g, f, S), f, S)
  BY <1>3, <1>4
<1>6. (CHOOSE g : iter(g))[S] = (CHOOSE g : Adds(g, f, S))[S]
  BY <1>0, <1>5, AddsUnique
<1> QED
  BY <1>1, <1>6, SumUnfolds DEF f, S

\* A purchase costs a whole number that is not negative.
LEMMA TotalType ==
    ASSUME NEW u \in Purchases
    PROVE  Total(u) \in Nat
<1> DEFINE S == DOMAIN Lines[u]
           f == [i \in S |-> Lines[u][i].qty * Lines[u][i].cost]
<1>1. S = 1..Len(Lines[u]) /\ Len(Lines[u]) \in Nat /\ Lines[u] \in Seq(Line)
  BY StockroomAssumption
<1>2. IsFiniteSet(S)
  BY <1>1, FS_Interval
<1>3. ASSUME NEW i \in S
      PROVE  f[i] \in Nat
  <2>1. Lines[u][i] \in Line
    BY <1>1
  <2>2. Lines[u][i].qty \in Nat /\ Lines[u][i].cost \in Nat
    BY <2>1 DEF Line
  <2> QED
    BY <2>2
<1>4. Total(u) = SumOf(f, S)
  BY TotalIsSum
<1> HIDE DEF f, S
<1> QED
  BY <1>2, <1>3, <1>4, SumOfNats

\* What was received for a purchase is the sum of its payments.
LEMMA ReceivedIsSum ==
    ASSUME NEW u
    PROVE  Received(u) = SumOf(payments[u], DOMAIN payments[u])
  BY DEF Received, FoldFunction, FoldFunctionOnSet, SumOf, MapThenSumSet, MapThenFoldSet

\* The larger of zero and another integer.
LEMMA MaxOfZero ==
    ASSUME NEW n \in Int
    PROVE  Max({0, n}) = IF n > 0 THEN n ELSE 0
<1>1. IsFiniteSet({0, n}) /\ {0, n} # {} /\ {0, n} \subseteq Int
  <2>1. {0, n} = {0} \cup {n} /\ IsFiniteSet({0})
    BY FS_Singleton
  <2>2. IsFiniteSet({0} \cup {n})
    BY <2>1, FS_AddElement
  <2> QED
    BY <2>1, <2>2
<1> DEFINE m == Max({0, n})
<1>2. m \in {0, n} /\ \A y \in {0, n} : y <= m
  BY <1>1, MaxIsLargest
<1> HIDE DEF m
<1>3. m = IF n > 0 THEN n ELSE 0
  BY <1>2
<1> QED
  BY <1>3 DEF m

\* A finite set of integers that is not empty has a smallest element, which Min returns.
LEMMA MinIsSmallest ==
    ASSUME NEW S, IsFiniteSet(S), S # {}, S \subseteq Int
    PROVE  Min(S) \in S /\ \A y \in S : Min(S) <= y
<1> DEFINE T == {-x : x \in S}
           m == Max(T)
<1>1. IsFiniteSet(T) /\ T # {} /\ T \subseteq Int
  <2> DEFINE f == [x \in S |-> -x]
  <2>1. f \in Surjection(S, T)
    BY DEF Surjection
  <2> HIDE DEF f, T
  <2>2. IsFiniteSet(T)
    BY <2>1, FS_Surjection
  <2>3. T # {}
    BY DEF T
  <2>4. T \subseteq Int
    <3>1. \A x \in S : -x \in Int
      OBVIOUS
    <3> QED
      BY <3>1 DEF T
  <2> QED
    BY <2>2, <2>3, <2>4
<1>2. m \in T /\ \A y \in T : y <= m
  <2> HIDE DEF T
  <2> QED
    BY <1>1, MaxIsLargest
<1>3. \E x \in S : \A y \in S : x <= y
  <2>1. PICK x \in S : m = -x
    BY <1>2
  <2>2. ASSUME NEW y \in S
        PROVE  x <= y
    <3>1. -y \in T
      OBVIOUS
    <3>2. -y <= -x /\ x \in Int /\ y \in Int
      BY <1>2, <2>1, <3>1
    <3> QED
      BY <3>2
  <2> QED
    BY <2>2
<1> QED
  BY <1>3 DEF Min

\* The smaller of two integers.
LEMMA MinOfTwo ==
    ASSUME NEW a \in Int, NEW b \in Int
    PROVE  Min({a, b}) = IF a < b THEN a ELSE b
<1> DEFINE x == IF a < b THEN a ELSE b
<1>1. x \in {a, b} /\ \A y \in {a, b} : x <= y
  OBVIOUS
<1>2. \A z \in {a, b} : (\A y \in {a, b} : z <= y) => z = x
  OBVIOUS
<1> HIDE DEF x
<1>3. Min({a, b}) = x
  BY <1>1, <1>2 DEF Min
<1> QED
  BY <1>3 DEF x

-----------------------------------------------------------------------------
(* Requests *)

\* The fields of a slot in which nothing runs.
LEMMA IdleTyped ==
    /\ Idle \in Request /\ Idle.op = "none" /\ Idle.pc = "idle" /\ Idle.ent = 0 /\ Idle.qty = 0
    /\ Idle.product = "none" /\ Idle.purchase = "none" /\ Idle.plan = NoPlan /\ Idle.moving = 0
    /\ Idle.todo = {} /\ Idle.cols = {}
<1>1. NoPurchase \in PurchaseRow
  BY DEF NoPurchase, PurchaseRow, PurchaseStatus
<1>2. NoPlan \in [BatchIds -> Nat]
  BY DEF NoPlan
<1>3. "idle" \in Pc /\ "none" \in Op
  BY DEF Pc, Op
<1> QED
  BY <1>1, <1>2, <1>3 DEF Idle, Request

\* A slot in which nothing runs holds nothing.
LEMMA IdleHolds ==
    ASSUME NEW n, NEW k
    PROVE  Holding(Idle, n, k)
  BY IdleTyped DEF Holding, HoldsPurchase, HoldsProduct, HoldsBatch, HoldsPlan, OpsAt

\* What a request holds it still holds when there are more batches and allocations.
LEMMA HoldingLonger ==
    ASSUME NEW q, NEW n \in Nat, NEW m \in Nat, n <= m, NEW k \in Nat, NEW j \in Nat, k <= j,
           Holding(q, n, k)
    PROVE  Holding(q, m, j)
<1>1. HoldsBatch(q, m, j)
  BY DEF Holding, HoldsBatch
<1>2. HoldsPlan(q, m)
  BY DEF Holding, HoldsPlan
<1> QED
  BY <1>1, <1>2 DEF Holding

\* What the tables and a request hold.
LEMMA RowsTyped ==
    ASSUME TypeInv
    PROVE  /\ Len(batch) \in Nat /\ DOMAIN batch = 1..Len(batch) /\ Len(moved) = Len(batch)
           /\ DOMAIN moved = 1..Len(batch) /\ Len(allocs) \in Nat /\ DOMAIN allocs = 1..Len(allocs)
           /\ \A b \in DOMAIN batch : b \in Nat \ {0} /\ batch[b] \in BatchRow
                                      /\ moved[b] \in MovementSums
           /\ \A k \in DOMAIN allocs : /\ k \in Nat \ {0} /\ allocs[k] \in AllocationRow
                                       /\ allocs[k].batch \in DOMAIN batch /\ allocs[k].qty > 0
           /\ \A u \in Purchases : purchase[u] \in PurchaseRow /\ payments[u] \in Seq(Nat \ {0})
           /\ \A r \in Requests : req[r] \in Request /\ Holding(req[r], Len(batch), Len(allocs))
           /\ used.calls \in Nat /\ used.overlaps \in Nat /\ used.faults \in Nat
<1>1. /\ Len(batch) \in Nat /\ DOMAIN batch = 1..Len(batch) /\ Len(moved) = Len(batch)
      /\ DOMAIN moved = 1..Len(batch) /\ Len(allocs) \in Nat /\ DOMAIN allocs = 1..Len(allocs)
  BY DEF TypeInv, TablesOK
<1>2. \A b \in DOMAIN batch : b \in Nat \ {0} /\ batch[b] \in BatchRow /\ moved[b] \in MovementSums
  BY <1>1 DEF TypeInv, TablesOK
<1>3. \A k \in DOMAIN allocs : /\ k \in Nat \ {0} /\ allocs[k] \in AllocationRow
                               /\ allocs[k].batch \in DOMAIN batch /\ allocs[k].qty > 0
  BY <1>1 DEF TypeInv, TablesOK
<1>4. \A u \in Purchases : purchase[u] \in PurchaseRow /\ payments[u] \in Seq(Nat \ {0})
  BY DEF TypeInv, TablesOK
<1>5. \A r \in Requests : req[r] \in Request /\ Holding(req[r], Len(batch), Len(allocs))
  BY DEF TypeInv, RequestsHold
<1>6. used.calls \in Nat /\ used.overlaps \in Nat /\ used.faults \in Nat
  BY StockroomAssumption DEF TypeInv, UsedOK
<1> QED
  BY <1>1, <1>2, <1>3, <1>4, <1>5, <1>6

\* What may be asked for.
LEMMA InputsTyped ==
    /\ \A amount \in Amounts : amount \in Nat \ {0}
    /\ \A n \in Entries : n \in Nat \ {0}
    /\ \A delta \in Deltas : delta \in Int \ {0}
  BY StockroomAssumption

\* A request goes on to hold q; no batch and no allocation is removed.
LEMMA GoesOn ==
    ASSUME TypeInv, TablesOK', Len(batch) <= Len(batch'), Len(allocs) <= Len(allocs'),
           NEW r \in Requests, NEW q, req' = [req EXCEPT ![r] = q],
           Holding(q, Len(batch'), Len(allocs'))
    PROVE  RequestsHold'
<1>1. Len(batch) \in Nat /\ Len(batch') \in Nat /\ Len(allocs) \in Nat /\ Len(allocs') \in Nat
  BY DEF TypeInv, TablesOK
<1>2. \A s \in Requests : Holding(req[s], Len(batch'), Len(allocs'))
  BY <1>1, HoldingLonger DEF TypeInv, RequestsHold
<1>3. \A s \in Requests : req'[s] \in Request /\ Holding(req'[s], Len(batch'), Len(allocs'))
  BY <1>2 DEF TypeInv, RequestsHold, Holding
<1> QED
  BY <1>3 DEF TypeInv, RequestsHold

\* A call that starts a request.
LEMMA CallTypes ==
    ASSUME TypeInv, TablesOK', Len(batch) <= Len(batch'), Len(allocs) <= Len(allocs'),
           NEW r \in Requests, Free(r), NEW q, Call(r, q), Holding(q, Len(batch'), Len(allocs'))
    PROVE  TypeInv'
<1>1. used.calls \in Nat /\ used.overlaps \in Nat /\ used.calls < MaxCalls
  BY RowsTyped DEF Free
<1>2. /\ used'.calls = used.calls + 1
      /\ used'.overlaps = IF Overlaps(r) THEN used.overlaps + 1 ELSE used.overlaps
      /\ used' = [calls |-> used'.calls, overlaps |-> used'.overlaps, faults |-> used.faults]
  BY DEF Call, TypeInv, UsedOK
<1>3. UsedOK'
  BY <1>1, <1>2, StockroomAssumption DEF Free, TypeInv, UsedOK
<1>4. RequestsHold'
  BY GoesOn DEF Call
<1> QED
  BY <1>3, <1>4 DEF TypeInv

\* A call that reads and writes nothing yet.
LEMMA ReadingCallTypes ==
    ASSUME TypeInv, UNCHANGED <<purchase, payments, batch, moved, allocs>>,
           NEW r \in Requests, Free(r), NEW q, Call(r, q), Holding(q, Len(batch), Len(allocs))
    PROVE  TypeInv'
<1>1. TablesOK'
  BY DEF TypeInv, TablesOK
<1>2. Len(batch) <= Len(batch') /\ Len(allocs) <= Len(allocs')
  BY RowsTyped
<1>3. Holding(q, Len(batch'), Len(allocs'))
  OBVIOUS
<1> QED
  BY <1>1, <1>2, <1>3, CallTypes

\* A statement of a running request.
LEMMA GotoTypes ==
    ASSUME TypeInv, TablesOK', UNCHANGED used, Len(batch) <= Len(batch'),
           Len(allocs) <= Len(allocs'), NEW r \in Requests, NEW q, Goto(r, q),
           Holding(q, Len(batch'), Len(allocs'))
    PROVE  TypeInv'
<1>1. UsedOK' /\ req' = [req EXCEPT ![r] = q]
  BY DEF TypeInv, UsedOK, Goto
<1>2. RequestsHold'
  BY <1>1, GoesOn
<1> QED
  BY <1>1, <1>2 DEF TypeInv

\* A statement that writes nothing.
LEMMA ReadTypes ==
    ASSUME TypeInv, UNCHANGED <<purchase, payments, batch, moved, allocs, used>>,
           NEW r \in Requests, NEW q, Goto(r, q), Holding(q, Len(batch), Len(allocs))
    PROVE  TypeInv'
<1>1. TablesOK'
  BY DEF TypeInv, TablesOK
<1>2. Len(batch) <= Len(batch') /\ Len(allocs) <= Len(allocs') /\ UNCHANGED used
  BY RowsTyped
<1>3. Holding(q, Len(batch'), Len(allocs'))
  OBVIOUS
<1> QED
  BY <1>1, <1>2, <1>3, GotoTypes

\* A handler that throws.
LEMMA ThrowTypes ==
    ASSUME TypeInv, NEW r \in Requests, Throw(r), UNCHANGED used
    PROVE  TypeInv'
  BY ReadTypes, IdleHolds DEF Throw

-----------------------------------------------------------------------------
(* Calls keep the types *)

\* A batch that was just created.
LEMMA NewBatchType ==
    ASSUME NEW p \in Products, NEW u \in Purchases \cup {"none"}, NEW legacy \in BOOLEAN,
           NEW dated \in BOOLEAN, NEW n \in Int
    PROVE  NewBatch(p, u, legacy, dated, n) \in BatchRow
  BY DEF NewBatch, BatchRow, BatchStatus, Expiry

\* The status of a purchase that is not cancelled.
LEMMA ResolveStatusType ==
    ASSUME NEW total, NEW paid
    PROVE  ResolveStatus(total, paid) \in PurchaseStatus
  BY DEF ResolveStatus, PurchaseStatus

\* A line of a purchase.
LEMMA LineTyped ==
    ASSUME NEW u \in Purchases
    PROVE  /\ Lines[u] \in Seq(Line) /\ Len(Lines[u]) \in Nat /\ DOMAIN Lines[u] = 1..Len(Lines[u])
           /\ \A i \in DOMAIN Lines[u] :
                /\ Lines[u][i].product \in Products /\ Lines[u][i].qty \in Nat \ {0}
                /\ Lines[u][i].dated \in BOOLEAN
<1>1. Lines[u] \in Seq(Line) /\ Len(Lines[u]) \in Nat /\ DOMAIN Lines[u] = 1..Len(Lines[u])
  BY StockroomAssumption
<1>2. ASSUME NEW i \in DOMAIN Lines[u]
      PROVE  /\ Lines[u][i].product \in Products /\ Lines[u][i].qty \in Nat \ {0}
             /\ Lines[u][i].dated \in BOOLEAN
  <2>1. Lines[u][i] \in Line
    BY <1>1
  <2> QED
    BY <2>1 DEF Line
<1> QED
  BY <1>1, <1>2

\* One sequence after another.
LEMMA Concatenated ==
    ASSUME NEW S, NEW s \in Seq(S), NEW t \in Seq(S)
    PROVE  /\ s \o t \in Seq(S) /\ Len(s \o t) = Len(s) + Len(t)
           /\ DOMAIN (s \o t) = 1..(Len(s) + Len(t))
           /\ \A i \in 1..Len(s) : (s \o t)[i] = s[i]
           /\ \A i \in 1..(Len(s) + Len(t)) : i > Len(s) => (s \o t)[i] = t[i - Len(s)]
  OBVIOUS

\* PurchasesService.create: the lots of the purchase come after the batches that exist.
LEMMA CreateRows ==
    ASSUME TypeInv, NEW r \in Requests, NEW u \in Purchases, CreatePurchase(r, u)
    PROVE  /\ Len(batch') = Len(batch) + Len(Lines[u]) /\ Len(moved') = Len(batch')
           /\ DOMAIN batch' = 1..Len(batch') /\ DOMAIN batch \subseteq DOMAIN batch'
           /\ batch' \in Seq(BatchRow) /\ moved' \in Seq(MovementSums)
           /\ \A b \in DOMAIN batch : batch'[b] = batch[b] /\ moved'[b] = moved[b]
           /\ \A b \in DOMAIN batch' \ DOMAIN batch :
                \E i \in DOMAIN Lines[u] :
                  /\ b = Len(batch) + i
                  /\ batch'[b] = NewBatch(Lines[u][i].product, u, FALSE, Lines[u][i].dated,
                                          Lines[u][i].qty)
                  /\ moved'[b] = [sum |-> Lines[u][i].qty, raised |-> Lines[u][i].qty]
<1> DEFINE n == Len(batch)
           m == Len(Lines[u])
           rows == [i \in DOMAIN Lines[u] |->
                      NewBatch(Lines[u][i].product, u, FALSE, Lines[u][i].dated, Lines[u][i].qty)]
           sums == [i \in DOMAIN Lines[u] |-> [sum |-> Lines[u][i].qty, raised |-> Lines[u][i].qty]]
<1>1. batch' = batch \o rows /\ moved' = moved \o sums
  BY DEF CreatePurchase
<1>2. m \in Nat /\ DOMAIN Lines[u] = 1..m
  BY LineTyped
<1>3. rows \in Seq(BatchRow) /\ Len(rows) = m /\ DOMAIN rows = 1..m
  <2>1. \A i \in 1..m : rows[i] \in BatchRow
    <3> SUFFICES ASSUME NEW i \in 1..m
                 PROVE  rows[i] \in BatchRow
      OBVIOUS
    <3>1. /\ Lines[u][i].product \in Products /\ Lines[u][i].qty \in Int
          /\ Lines[u][i].dated \in BOOLEAN
      BY <1>2, LineTyped
    <3>2. NewBatch(Lines[u][i].product, u, FALSE, Lines[u][i].dated, Lines[u][i].qty) \in BatchRow
      BY <3>1, NewBatchType
    <3> QED
      BY <1>2, <3>2
  <2>2. rows \in [1..m -> BatchRow]
    BY <1>2, <2>1
  <2> HIDE DEF rows, m
  <2> QED
    BY <1>2, <2>2
<1>4. sums \in Seq(MovementSums) /\ Len(sums) = m /\ DOMAIN sums = 1..m
  <2>1. \A i \in 1..m : sums[i] \in MovementSums
    BY <1>2, LineTyped DEF MovementSums
  <2>2. sums \in [1..m -> MovementSums]
    BY <1>2, <2>1
  <2> HIDE DEF sums, m
  <2> QED
    BY <1>2, <2>2
<1>5. /\ n \in Nat /\ batch \in Seq(BatchRow) /\ moved \in Seq(MovementSums) /\ Len(moved) = n
      /\ DOMAIN batch = 1..n
  BY RowsTyped DEF TypeInv, TablesOK
<1>6. \A i \in 1..m : /\ rows[i] = NewBatch(Lines[u][i].product, u, FALSE, Lines[u][i].dated,
                                          Lines[u][i].qty)
                      /\ sums[i] = [sum |-> Lines[u][i].qty, raised |-> Lines[u][i].qty]
  BY <1>2
<1> HIDE DEF rows, sums, m, n
<1>6a. Len(batch) = n
  BY DEF n
<1>6b. /\ batch' \in Seq(BatchRow) /\ Len(batch') = n + m /\ DOMAIN batch' = 1..(n + m)
       /\ \A b \in 1..n : batch'[b] = batch[b]
       /\ \A b \in 1..(n + m) : b > n => batch'[b] = rows[b - n]
  <2>1. /\ batch \o rows \in Seq(BatchRow) /\ Len(batch \o rows) = Len(batch) + Len(rows)
        /\ DOMAIN (batch \o rows) = 1..(Len(batch) + Len(rows))
        /\ \A i \in 1..Len(batch) : (batch \o rows)[i] = batch[i]
        /\ \A i \in 1..(Len(batch) + Len(rows)) :
             i > Len(batch) => (batch \o rows)[i] = rows[i - Len(batch)]
    BY ONLY <1>3, <1>5, Concatenated, Zenon
  <2> QED
    BY ONLY <1>1, <1>3, <1>6a, <2>1
<1>6c. /\ moved' \in Seq(MovementSums) /\ Len(moved') = n + m
       /\ \A b \in 1..n : moved'[b] = moved[b]
       /\ \A b \in 1..(n + m) : b > n => moved'[b] = sums[b - n]
  <2>1. /\ moved \o sums \in Seq(MovementSums) /\ Len(moved \o sums) = Len(moved) + Len(sums)
        /\ \A i \in 1..Len(moved) : (moved \o sums)[i] = moved[i]
        /\ \A i \in 1..(Len(moved) + Len(sums)) :
             i > Len(moved) => (moved \o sums)[i] = sums[i - Len(moved)]
    BY ONLY <1>4, <1>5, Concatenated, Zenon
  <2> QED
    BY ONLY <1>1, <1>4, <1>5, <2>1
<1>7. /\ Len(batch') = n + m /\ Len(moved') = n + m /\ DOMAIN batch' = 1..(n + m)
      /\ batch' \in Seq(BatchRow) /\ moved' \in Seq(MovementSums)
  BY <1>6b, <1>6c
<1>8. \A b \in 1..n : batch'[b] = batch[b] /\ moved'[b] = moved[b]
  BY <1>6b, <1>6c
<1>9. \A b \in 1..(n + m) : b > n => batch'[b] = rows[b - n] /\ moved'[b] = sums[b - n]
  BY <1>6b, <1>6c
<1>10. ASSUME NEW b \in DOMAIN batch' \ DOMAIN batch
       PROVE  \E i \in DOMAIN Lines[u] :
                /\ b = n + i
                /\ batch'[b] = NewBatch(Lines[u][i].product, u, FALSE, Lines[u][i].dated,
                                        Lines[u][i].qty)
                /\ moved'[b] = [sum |-> Lines[u][i].qty, raised |-> Lines[u][i].qty]
  <2>1. b \in 1..(n + m) /\ b > n /\ b - n \in 1..m /\ b = n + (b - n)
    BY <1>2, <1>5, <1>7
  <2>2. batch'[b] = rows[b - n] /\ moved'[b] = sums[b - n]
    BY <1>9, <2>1
  <2>3. /\ batch'[b] = NewBatch(Lines[u][b - n].product, u, FALSE, Lines[u][b - n].dated,
                                Lines[u][b - n].qty)
        /\ moved'[b] = [sum |-> Lines[u][b - n].qty, raised |-> Lines[u][b - n].qty]
    BY <1>6, <2>1, <2>2
  <2> QED
    BY <1>2, <2>1, <2>3
<1>11. DOMAIN batch \subseteq DOMAIN batch'
  BY <1>2, <1>5, <1>7
<1>12. \A b \in DOMAIN batch : batch'[b] = batch[b] /\ moved'[b] = moved[b]
  BY <1>5, <1>8
<1>13. Len(batch') = Len(batch) + Len(Lines[u])
  BY <1>7 DEF n, m
<1> QED
  BY <1>6a, <1>7, <1>10, <1>11, <1>12, <1>13

\* PurchasesService.create.
LEMMA CreateTypes ==
    ASSUME TypeInv, NEW r \in Requests, Free(r), NEW u \in Purchases, CreatePurchase(r, u)
    PROVE  TypeInv'
<1> DEFINE row == [status |-> ResolveStatus(Total(u), PaidUpFront[u]),
                   paid |-> PaidUpFront[u], balance |-> Total(u) - PaidUpFront[u]]
<1>1. purchase' = [purchase EXCEPT ![u] = row] /\ Call(r, Idle) /\ UNCHANGED <<payments, allocs>>
  BY DEF CreatePurchase
<1>2. row \in PurchaseRow
  <2>1. Total(u) \in Int /\ PaidUpFront[u] \in Int
    BY TotalType, StockroomAssumption
  <2> QED
    BY <2>1, ResolveStatusType DEF PurchaseRow
<1> HIDE DEF row
<1>3. purchase' \in [Purchases -> PurchaseRow]
  BY <1>1, <1>2 DEF TypeInv, TablesOK
<1>4. /\ batch' \in Seq(BatchRow) /\ moved' \in Seq(MovementSums) /\ Len(moved') = Len(batch')
      /\ DOMAIN batch \subseteq DOMAIN batch' /\ Len(batch) <= Len(batch')
  <2>1. Len(batch') = Len(batch) + Len(Lines[u]) /\ Len(Lines[u]) \in Nat /\ Len(batch) \in Nat
    BY CreateRows, LineTyped, RowsTyped
  <2>2. /\ batch' \in Seq(BatchRow) /\ moved' \in Seq(MovementSums) /\ Len(moved') = Len(batch')
        /\ DOMAIN batch \subseteq DOMAIN batch'
    BY CreateRows, Zenon
  <2> QED
    BY ONLY <2>1, <2>2
<1>5. TablesOK'
  BY <1>1, <1>3, <1>4 DEF TypeInv, TablesOK
<1>6. Len(allocs) <= Len(allocs') /\ Holding(Idle, Len(batch'), Len(allocs'))
  BY <1>1, RowsTyped, IdleHolds
<1> QED
  BY <1>1, <1>4, <1>5, <1>6, CallTypes

\* update, registerPayment and cancel of PurchasesService.
LEMMA PurchaseCallTypes ==
    ASSUME TypeInv, NEW r \in Requests, Free(r), NEW u \in Purchases,
           \/ BeginUpdate(r, u) \/ BeginCancel(r, u) \/ \E amount \in Amounts : BeginPay(r, u, amount)
    PROVE  TypeInv'
<1>1. purchase[u] \in PurchaseRow /\ payments[u] \in Seq(Nat \ {0}) /\ Len(payments[u]) \in Nat
  BY RowsTyped
<1>2. ASSUME NEW op \in {"update", "cancel"}, NEW pc \in {"select", "load"}, op \in OpsAt(pc),
             NEW row \in PurchaseRow, Call(r, Loaded(op, u, pc, row)),
             UNCHANGED <<purchase, payments, batch, moved, allocs>>
      PROVE  TypeInv'
  <2> DEFINE q == Loaded(op, u, pc, row)
  <2>1. q = [Idle EXCEPT !.op = op, !.pc = pc, !.purchase = u, !.row = row,
                         !.seen = Len(payments[u])]
    BY DEF Loaded
  <2>2. op \in Op /\ pc \in Pc
    BY DEF Op, Pc
  <2>3. q \in Request /\ q.op = op /\ q.pc = pc /\ q.purchase = u
    BY <1>1, <2>1, <2>2, IdleTyped, ZenonT(40) DEF Request
  <2> HIDE DEF q
  <2>4. Holding(q, Len(batch), Len(allocs))
    BY <1>2, <2>3 DEF Holding, HoldsPurchase, HoldsProduct, HoldsBatch, HoldsPlan
  <2> QED
    BY <1>2, <2>4, ReadingCallTypes DEF q
<1>3. CASE BeginUpdate(r, u)
  BY <1>1, <1>2, <1>3 DEF BeginUpdate, OpsAt
<1>4. CASE BeginCancel(r, u)
  <2> DEFINE row == [purchase[u] EXCEPT !.status = "CANCELLED", !.balance = 0]
  <2>1. row \in PurchaseRow
    <3> PICK p \in PurchaseRow : p = purchase[u]
      BY <1>1
    <3>1. [p EXCEPT !.status = "CANCELLED", !.balance = 0] \in PurchaseRow
      <4>1. 0 \in Int /\ "CANCELLED" \in PurchaseStatus \cup {"ABSENT"}
        BY DEF PurchaseStatus
      <4> QED
        BY <4>1 DEF PurchaseRow
    <3> QED
      BY <3>1
  <2>2. /\ Call(r, Loaded("cancel", u, "load", row))
        /\ UNCHANGED <<purchase, payments, batch, moved, allocs>>
    BY <1>4 DEF BeginCancel
  <2> HIDE DEF row
  <2>3. "cancel" \in {"update", "cancel"} /\ "load" \in {"select", "load"}
        /\ "cancel" \in OpsAt("load")
    BY DEF OpsAt
  <2> QED
    BY <1>2, <2>1, <2>2, <2>3
<1>5. ASSUME NEW amount \in Amounts, BeginPay(r, u, amount)
      PROVE  TypeInv'
  <2> DEFINE row == Paid(purchase[u], Total(u), amount)
             q == [Loaded("pay", u, "select", row) EXCEPT !.qty = amount]
  <2>1. row \in PurchaseRow
    <3>1. /\ amount \in Nat /\ Total(u) \in Int /\ purchase[u].paid \in Int
          /\ purchase[u].paid + amount \in Int
      BY <1>1, InputsTyped, TotalType DEF PurchaseRow
    <3>2. Max({0, Total(u) - (purchase[u].paid + amount)}) \in Int
      BY <3>1, MaxOfZero
    <3> QED
      BY <3>1, <3>2, ResolveStatusType DEF Paid, PurchaseRow
  <2>2. Call(r, q) /\ UNCHANGED <<purchase, payments, batch, moved, allocs>>
    BY <1>5 DEF BeginPay
  <2> HIDE DEF row
  <2>3. amount \in Int
    BY InputsTyped
  <2>4. "pay" \in Op /\ "select" \in Pc
    BY DEF Op, Pc
  <2>5. q \in Request /\ q.op = "pay" /\ q.pc = "select" /\ q.purchase = u /\ q.qty = amount
    BY <1>1, <2>1, <2>3, <2>4, IdleTyped DEF Loaded, Request
  <2> HIDE DEF q
  <2>6. Holding(q, Len(batch), Len(allocs))
    BY <2>5 DEF Holding, HoldsPurchase, HoldsProduct, HoldsBatch, HoldsPlan, OpsAt
  <2> QED
    BY <2>2, <2>6, ReadingCallTypes
<1> QED
  BY <1>3, <1>4, <1>5

\* A batch is inserted.
LEMMA AppendsBatch ==
    ASSUME TypeInv, NEW row \in BatchRow, batch' = Append(batch, row),
           moved' = Append(moved, [sum |-> 0, raised |-> 0]), UNCHANGED <<purchase, payments, allocs>>
    PROVE  /\ TablesOK' /\ Len(batch') = Len(batch) + 1 /\ DOMAIN batch' = 1..Len(batch) + 1
           /\ \A b \in DOMAIN batch : batch'[b] = batch[b] /\ moved'[b] = moved[b]
           /\ batch'[Len(batch) + 1] = row /\ moved'[Len(batch) + 1] = [sum |-> 0, raised |-> 0]
<1> DEFINE n == Len(batch)
           zero == [sum |-> 0, raised |-> 0]
<1>1. /\ batch \in Seq(BatchRow) /\ moved \in Seq(MovementSums) /\ Len(moved) = n /\ n \in Nat
      /\ DOMAIN batch = 1..n
  BY RowsTyped DEF TypeInv, TablesOK
<1>2. zero \in MovementSums
  BY DEF MovementSums
<1> HIDE DEF zero
<1>3. /\ batch' \in Seq(BatchRow) /\ Len(batch') = n + 1 /\ DOMAIN batch' = 1..n + 1
      /\ \A b \in 1..n : batch'[b] = batch[b]
      /\ batch'[n + 1] = row
  BY <1>1
<1>4. /\ moved' \in Seq(MovementSums) /\ Len(moved') = n + 1
      /\ \A b \in 1..n : moved'[b] = moved[b]
      /\ moved'[n + 1] = zero
  BY <1>1, <1>2 DEF zero
<1>5. DOMAIN batch \subseteq DOMAIN batch'
  BY <1>1, <1>3
<1>6. TablesOK'
  BY <1>3, <1>4, <1>5 DEF TypeInv, TablesOK
<1> QED
  BY <1>1, <1>3, <1>4, <1>6 DEF zero

\* The sums over batches are whole numbers.
LEMMA StockTyped ==
    ASSUME TypeInv
    PROVE  /\ IsFiniteSet(DOMAIN batch)
           /\ \A S \in SUBSET DOMAIN batch : IsFiniteSet(S) /\ Units(S) \in Int
           /\ \A p \in Products : Ledger(p) \in Int /\ CurrentStock(p) \in Int
<1>1. DOMAIN batch = 1..Len(batch) /\ Len(batch) \in Int /\ 1 \in Int
  BY RowsTyped
<1>2. IsFiniteSet(DOMAIN batch)
  BY ONLY <1>1, FS_Interval
<1>3. ASSUME NEW S \in SUBSET DOMAIN batch
      PROVE  IsFiniteSet(S) /\ Units(S) \in Int /\ SumOfColumn(moved, "sum", S) \in Int
  <2>1. IsFiniteSet(S)
    BY <1>2, FS_Subset
  <2>2. \A b \in S : batch[b].avail \in Int /\ moved[b].sum \in Int
    BY RowsTyped DEF BatchRow, MovementSums
  <2>3. \A b \in S : batch[b]["avail"] \in Int /\ moved[b]["sum"] \in Int
    BY <2>2
  <2>4. SumOfColumn(batch, "avail", S) \in Int /\ SumOfColumn(moved, "sum", S) \in Int
    BY <2>1, <2>3, ColumnType
  <2> QED
    BY <2>1, <2>4, SumsAreColumns
<1>4. ASSUME NEW p \in Products
      PROVE  Ledger(p) \in Int /\ CurrentStock(p) \in Int
  <2>1. BatchesOf(p) \in SUBSET DOMAIN batch
    BY DEF BatchesOf
  <2>2. Units(BatchesOf(p)) \in Int /\ SumOfColumn(moved, "sum", BatchesOf(p)) \in Int
    BY <1>3, <2>1
  <2>3. Moved[p] \in Int
    BY StockroomAssumption
  <2>4. Ledger(p) = Moved[p] + SumOfColumn(moved, "sum", BatchesOf(p))
    BY SumsAreColumns DEF Ledger
  <2> QED
    BY <2>2, <2>3, <2>4 DEF CurrentStock
<1> QED
  BY <1>2, <1>3, <1>4

\* registerEntry, registerMovement, adjustments and the migration of legacy stock.
LEMMA InventoryCallTypes ==
    ASSUME TypeInv, NEW r \in Requests, Free(r), InventoryController(r)
    PROVE  TypeInv'
<1>1. ASSUME NEW p \in Products, NEW n \in Entries, NEW dated \in BOOLEAN, BeginEntry(r, p, n, dated)
      PROVE  TypeInv'
  <2> DEFINE q == [Idle EXCEPT !.op = "entry", !.pc = "move", !.ent = Len(batch) + 1, !.moving = n]
  <2>1. /\ batch' = Append(batch, NewBatch(p, "none", FALSE, dated, n))
        /\ moved' = Append(moved, [sum |-> 0, raised |-> 0])
        /\ Call(r, q) /\ UNCHANGED <<purchase, payments, allocs>>
    BY <1>1 DEF BeginEntry
  <2>2. n \in Int /\ Len(batch) \in Nat /\ Len(batch) + 1 \in Nat
    BY InputsTyped, RowsTyped
  <2>3. NewBatch(p, "none", FALSE, dated, n) \in BatchRow
    <3>1. "none" \in Purchases \cup {"none"} /\ FALSE \in BOOLEAN
      OBVIOUS
    <3> QED
      BY <2>2, <3>1, NewBatchType
  <2>4. TablesOK' /\ Len(batch') = Len(batch) + 1
    BY <2>1, <2>3, AppendsBatch
  <2>5. "entry" \in Op /\ "move" \in Pc
    BY DEF Op, Pc
  <2>6. /\ q \in Request /\ q.op = "entry" /\ q.pc = "move" /\ q.ent = Len(batch) + 1
        /\ q.moving = n
    BY <2>2, <2>5, IdleTyped DEF Request
  <2> HIDE DEF q
  <2>7. Holding(q, Len(batch'), Len(allocs'))
    BY <2>2, <2>4, <2>6 DEF Holding, HoldsPurchase, HoldsProduct, HoldsBatch, HoldsPlan, OpsAt
  <2>8. Len(batch) <= Len(batch') /\ Len(allocs) <= Len(allocs')
    BY <2>1, <2>2, <2>4, RowsTyped
  <2> QED
    BY <2>1, <2>4, <2>7, <2>8, CallTypes
<1>2. ASSUME NEW p \in Products, NEW delta \in Deltas, BeginAdjust(r, p, delta)
      PROVE  TypeInv'
  <2> DEFINE stock == CurrentStock(p) + delta
             q == [Idle EXCEPT !.op = "adjust", !.pc = "find", !.product = p, !.qty = delta,
                               !.next = stock]
  <2>1. stock \in Int /\ delta \in Int
    BY StockTyped, InputsTyped
  <2>2. Call(r, q) /\ UNCHANGED <<purchase, payments, batch, moved, allocs>>
    BY <1>2 DEF BeginAdjust
  <2> HIDE DEF stock
  <2>3. "adjust" \in Op /\ "find" \in Pc
    BY DEF Op, Pc
  <2>4. q \in Request /\ q.op = "adjust" /\ q.pc = "find" /\ q.product = p /\ q.qty = delta
    BY <2>1, <2>3, IdleTyped DEF Request
  <2> HIDE DEF q
  <2>5. Holding(q, Len(batch), Len(allocs))
    BY <2>4 DEF Holding, HoldsPurchase, HoldsProduct, HoldsBatch, HoldsPlan, OpsAt
  <2> QED
    BY <2>2, <2>5, ReadingCallTypes
<1>3. ASSUME BeginBackfill(r)
      PROVE  TypeInv'
  <2> PICK p \in Products :
             Call(r, [Idle EXCEPT !.op = "backfill", !.pc = "find", !.product = p,
                                  !.todo = Products \ {p}])
    BY <1>3 DEF BeginBackfill
  <2> DEFINE q == [Idle EXCEPT !.op = "backfill", !.pc = "find", !.product = p,
                               !.todo = Products \ {p}]
  <2>1. Call(r, q) /\ UNCHANGED <<purchase, payments, batch, moved, allocs>>
    BY <1>3 DEF BeginBackfill
  <2>2. "backfill" \in Op /\ "find" \in Pc
    BY DEF Op, Pc
  <2>3. q \in Request /\ q.op = "backfill" /\ q.pc = "find" /\ q.product = p
    BY <2>2, IdleTyped DEF Request
  <2> HIDE DEF q
  <2>4. Holding(q, Len(batch), Len(allocs))
    BY <2>3 DEF Holding, HoldsPurchase, HoldsProduct, HoldsBatch, HoldsPlan, OpsAt
  <2> QED
    BY <2>1, <2>4, ReadingCallTypes
<1> QED
  BY <1>1, <1>2, <1>3 DEF InventoryController

\* What orders ask of the inventory.
LEMMA OrderCallTypes ==
    ASSUME TypeInv, NEW r \in Requests, Free(r), Orders(r)
    PROVE  TypeInv'
<1>1. ASSUME NEW p \in Products, NEW n \in Entries, BeginConsume(r, p, n)
      PROVE  TypeInv'
  <2> PICK pc \in {"find", "plan"} : pc = IF OnSale(p) = {} THEN "find" ELSE "plan"
    OBVIOUS
  <2> DEFINE q == [Idle EXCEPT !.op = "consume", !.product = p, !.qty = n, !.pc = pc]
  <2>1. Call(r, q) /\ UNCHANGED <<purchase, payments, batch, moved, allocs>>
    BY <1>1 DEF BeginConsume
  <2>2. n \in Int /\ n \in Nat /\ n > 0
    BY InputsTyped
  <2>3. "consume" \in Op /\ pc \in Pc
    BY DEF Op, Pc
  <2>4. q \in Request /\ q.op = "consume" /\ q.pc = pc /\ q.product = p /\ q.qty = n
    BY <2>2, <2>3, IdleTyped DEF Request
  <2> HIDE DEF q
  <2>5. Holding(q, Len(batch), Len(allocs))
    BY <2>2, <2>4 DEF Holding, HoldsPurchase, HoldsProduct, HoldsBatch, HoldsPlan, OpsAt
  <2> QED
    BY <2>1, <2>5, ReadingCallTypes
<1>2. ASSUME NEW k \in DOMAIN allocs, BeginRestore(r, k)
      PROVE  TypeInv'
  <2> PICK a \in AllocationRow : a = allocs[k] /\ a.batch \in DOMAIN batch /\ a.qty > 0
    BY RowsTyped
  <2> DEFINE units == batch[a.batch].avail + a.qty
             q == [Idle EXCEPT !.op = "restore", !.pc = "give", !.alloc = k, !.ent = a.batch,
                               !.moving = a.qty, !.avail = units]
  <2>1. Call(r, q) /\ UNCHANGED <<purchase, payments, batch, moved, allocs>>
    BY <1>2 DEF BeginRestore
  <2>2. /\ a.batch \in 1..Len(batch) /\ a.batch \in Nat /\ a.qty \in Nat \ {0} /\ a.qty \in Int
        /\ k \in 1..Len(allocs) /\ k \in Nat
    BY RowsTyped DEF AllocationRow
  <2>3. units \in Int
    <3>1. batch[a.batch] \in BatchRow
      BY RowsTyped
    <3> QED
      BY <2>2, <3>1 DEF BatchRow
  <2> HIDE DEF units
  <2>4. "restore" \in Op /\ "give" \in Pc
    BY DEF Op, Pc
  <2>5. /\ q \in Request /\ q.op = "restore" /\ q.pc = "give" /\ q.alloc = k /\ q.ent = a.batch
        /\ q.moving = a.qty
    BY <2>2, <2>3, <2>4, IdleTyped DEF Request
  <2> HIDE DEF q
  <2>6. Holding(q, Len(batch), Len(allocs))
    BY <2>2, <2>5 DEF Holding, HoldsPurchase, HoldsProduct, HoldsBatch, HoldsPlan, OpsAt
  <2> QED
    BY <2>1, <2>6, ReadingCallTypes
<1> QED
  BY <1>1, <1>2 DEF Orders

\* No call breaks the types.
LEMMA BeginTypes ==
    ASSUME TypeInv, NEW r \in Requests, Begin(r)
    PROVE  TypeInv'
<1>1. ASSUME PurchasesController(r)
      PROVE  TypeInv'
  BY <1>1, CreateTypes, PurchaseCallTypes DEF Begin, PurchasesController
<1> QED
  BY <1>1, InventoryCallTypes, OrderCallTypes DEF Begin

-----------------------------------------------------------------------------
(* Statements keep the types *)

\* The statements of update and registerPayment.
LEMMA PurchaseStepTypes ==
    ASSUME TypeInv, NEW r \in Requests, SelectPurchase(r) \/ WritePurchase(r) \/ InsertPayment(r)
    PROVE  TypeInv'
<1> PICK p : p = req[r]
  OBVIOUS
<1>0. p \in Request /\ Holding(p, Len(batch), Len(allocs))
  BY RowsTyped
<1>1. CASE SelectPurchase(r)
  <2>1. CASE MissesPayment(p)
    BY <1>1, <2>1, ThrowTypes DEF SelectPurchase
  <2>2. CASE ~MissesPayment(p)
    <3> PICK cols \in SUBSET Columns :
          cols = {c \in Columns :
                    \/ c = "status" /\ p.row.status # purchase[p.purchase].status
                    \/ c = "paid" /\ p.row.paid # purchase[p.purchase].paid
                    \/ c = "balance" /\ p.row.balance # purchase[p.purchase].balance}
      OBVIOUS
    <3> DEFINE q == [p EXCEPT !.pc = "write", !.cols = cols]
    <3>1. p.pc = "select" /\ Goto(r, q)
          /\ UNCHANGED <<purchase, payments, batch, moved, allocs, used>>
      BY <1>1, <2>2 DEF SelectPurchase
    <3>2. "write" \in Pc
      BY DEF Pc
    <3>3. /\ q \in Request /\ q.pc = "write" /\ q.op = p.op /\ q.purchase = p.purchase
          /\ q.qty = p.qty /\ q.product = p.product /\ q.ent = p.ent /\ q.moving = p.moving
          /\ q.alloc = p.alloc
      BY <1>0, <3>2 DEF Request
    <3> HIDE DEF q
    <3>4. Holding(q, Len(batch), Len(allocs))
      BY <1>0, <3>1, <3>3
      DEF Holding, HoldsPurchase, HoldsProduct, HoldsBatch, HoldsPlan, OpsAt
    <3> QED
      BY <3>1, <3>4, ReadTypes
  <2> QED
    BY <2>1, <2>2
<1>2. CASE WritePurchase(r)
  <2> DEFINE old == purchase[p.purchase]
             row == [status  |-> IF "status" \in p.cols THEN p.row.status ELSE old.status,
                     paid    |-> IF "paid" \in p.cols THEN p.row.paid ELSE old.paid,
                     balance |-> IF "balance" \in p.cols THEN p.row.balance ELSE old.balance]
             q == IF p.op = "pay" THEN [p EXCEPT !.pc = "receipt", !.cols = {}] ELSE Idle
  <2>1. /\ p.pc = "write" /\ purchase' = [purchase EXCEPT ![p.purchase] = row] /\ Goto(r, q)
        /\ UNCHANGED <<payments, batch, moved, allocs, used>>
    BY <1>2 DEF WritePurchase
  <2>2. p.op \in {"update", "pay"} /\ p.purchase \in Purchases
    BY <1>0, <2>1 DEF Holding, HoldsPurchase, OpsAt
  <2>3. old \in PurchaseRow /\ p.row \in PurchaseRow
    BY <1>0, <2>2, RowsTyped DEF Request
  <2>4. row \in PurchaseRow
    BY <2>3 DEF PurchaseRow
  <2> HIDE DEF row, old
  <2>5. TablesOK'
    BY <2>1, <2>2, <2>4 DEF TypeInv, TablesOK
  <2>6. Holding(q, Len(batch'), Len(allocs'))
    <3>1. CASE p.op = "pay"
      <4> DEFINE next == [p EXCEPT !.pc = "receipt", !.cols = {}]
      <4>1. "receipt" \in Pc
        BY DEF Pc
      <4>2. /\ next \in Request /\ next.pc = "receipt" /\ next.op = p.op
            /\ next.purchase = p.purchase /\ next.qty = p.qty
        BY <1>0, <4>1 DEF Request
      <4> HIDE DEF next
      <4>3. Holding(next, Len(batch), Len(allocs))
        BY <1>0, <2>1, <3>1, <4>2
        DEF Holding, HoldsPurchase, HoldsProduct, HoldsBatch, HoldsPlan, OpsAt
      <4> QED
        BY <2>1, <3>1, <4>3 DEF next
    <3>2. CASE p.op # "pay"
      BY <3>2, IdleHolds
    <3> QED
      BY <3>1, <3>2
  <2>7. Len(batch) <= Len(batch') /\ Len(allocs) <= Len(allocs') /\ UNCHANGED used
    BY <2>1, RowsTyped
  <2> QED
    BY <2>1, <2>5, <2>6, <2>7, GotoTypes
<1>3. CASE InsertPayment(r)
  <2>1. /\ p.pc = "receipt" /\ Goto(r, Idle)
        /\ payments' = [payments EXCEPT ![p.purchase] = Append(@, p.qty)]
        /\ UNCHANGED <<purchase, batch, moved, allocs, used>>
    BY <1>3 DEF InsertPayment
  <2>2. p.purchase \in Purchases /\ p.qty \in Nat \ {0}
    BY <1>0, <2>1, InputsTyped DEF Holding, HoldsPurchase, OpsAt
  <2>3. Append(payments[p.purchase], p.qty) \in Seq(Nat \ {0})
    BY <2>2, RowsTyped
  <2>4. TablesOK'
    BY <2>1, <2>2, <2>3 DEF TypeInv, TablesOK
  <2>5. Len(batch) <= Len(batch') /\ Len(allocs) <= Len(allocs') /\ UNCHANGED used
    BY <2>1, RowsTyped
  <2> QED
    BY <2>1, <2>4, <2>5, IdleHolds, GotoTypes
<1> QED
  BY <1>1, <1>2, <1>3

\* A batch is emptied and blocked.
LEMMA BlockedTyped ==
    ASSUME NEW row \in BatchRow
    PROVE  /\ Blocked(row) \in BatchRow /\ Blocked(row).avail = 0 /\ Blocked(row).status = "BLOCKED"
           /\ Blocked(row).product = row.product /\ Blocked(row).purchase = row.purchase
           /\ Blocked(row).legacy = row.legacy /\ Blocked(row).expires = row.expires
           /\ Blocked(row).initial = row.initial
<1>1. 0 \in Int /\ "BLOCKED" \in BatchStatus
  BY DEF BatchStatus
<1> QED
  BY <1>1 DEF Blocked, BatchRow

\* The statements of cancel.
LEMMA CancelStepTypes ==
    ASSUME TypeInv, DOMAIN batch \subseteq BatchIds, NEW r \in Requests, LoadBatches(r) \/ CommitCancel(r)
    PROVE  TypeInv'
<1> PICK p : p = req[r]
  OBVIOUS
<1>0. p \in Request /\ Holding(p, Len(batch), Len(allocs))
  BY RowsTyped
<1>1. CASE LoadBatches(r)
  <2> DEFINE units(b) == IF b \in BoughtWith(p.purchase) /\ batch[b].avail > 0
                         THEN batch[b].avail ELSE 0
             plan == [b \in BatchIds |-> units(b)]
             q == [p EXCEPT !.pc = "block", !.plan = plan]
  <2>1. /\ p.pc = "load" /\ Goto(r, q)
        /\ UNCHANGED <<purchase, payments, batch, moved, allocs, used>>
    BY <1>1 DEF LoadBatches
  <2>2. plan \in [BatchIds -> Nat]
    <3>1. \A b \in BoughtWith(p.purchase) : batch[b].avail \in Int
      BY RowsTyped DEF BoughtWith, BatchRow
    <3>2. \A b \in BatchIds : units(b) \in Nat
      BY <3>1
    <3> HIDE DEF units
    <3> QED
      BY <3>2
  <2> HIDE DEF plan
  <2>3. "block" \in Pc
    BY DEF Pc
  <2>4. /\ q \in Request /\ q.pc = "block" /\ q.op = p.op /\ q.purchase = p.purchase
        /\ q.qty = p.qty /\ q.product = p.product /\ q.moving = p.moving
    BY <1>0, <2>2, <2>3 DEF Request
  <2> HIDE DEF q
  <2>5. Holding(q, Len(batch), Len(allocs))
    BY <1>0, <2>1, <2>4
    DEF Holding, HoldsPurchase, HoldsProduct, HoldsBatch, HoldsPlan, OpsAt
  <2> QED
    BY <2>1, <2>5, ReadTypes
<1>2. CASE CommitCancel(r)
  <2>1. CASE MissesPayment(p)
    BY <1>2, <2>1, ThrowTypes DEF CommitCancel
  <2>2. CASE ~MissesPayment(p)
    <3> DEFINE row(b) == IF b \in BoughtWith(p.purchase) THEN Blocked(batch[b]) ELSE batch[b]
               sums(b) == [moved[b] EXCEPT !.sum = @ - p.plan[b]]
    <3>1. /\ p.pc = "block" /\ Goto(r, Idle) /\ UNCHANGED <<payments, allocs, used>>
          /\ batch' = [b \in DOMAIN batch |-> row(b)] /\ moved' = [b \in DOMAIN moved |-> sums(b)]
          /\ purchase' = [purchase EXCEPT ![p.purchase] = p.row]
      BY <1>2, <2>2 DEF CommitCancel
    <3>2. p.purchase \in Purchases /\ p.row \in PurchaseRow
      BY <1>0, <3>1 DEF Holding, HoldsPurchase, OpsAt, Request
    <3>3. \A b \in DOMAIN batch : row(b) \in BatchRow
      <4> SUFFICES ASSUME NEW b \in DOMAIN batch
                   PROVE  row(b) \in BatchRow
        OBVIOUS
      <4>1. batch[b] \in BatchRow
        BY RowsTyped
      <4>2. Blocked(batch[b]) \in BatchRow
        BY <4>1, BlockedTyped
      <4> QED
        BY <4>1, <4>2
    <3>4. \A b \in DOMAIN moved : sums(b) \in MovementSums
      <4> SUFFICES ASSUME NEW b \in DOMAIN moved
                   PROVE  sums(b) \in MovementSums
        OBVIOUS
      <4>1. moved[b] \in MovementSums
        BY RowsTyped
      <4>2. moved[b].sum - p.plan[b] \in Int
        <5>1. b \in BatchIds /\ moved[b].sum \in Int
          BY <4>1, RowsTyped DEF MovementSums
        <5>2. p.plan[b] \in Int
          BY <1>0, <5>1 DEF Request
        <5> QED
          BY <5>1, <5>2
      <4> QED
        BY <4>1, <4>2 DEF MovementSums
    <3> HIDE DEF row, sums
    <3>5. DOMAIN batch = 1..Len(batch) /\ DOMAIN moved = 1..Len(batch) /\ Len(batch) \in Nat
      BY RowsTyped
    <3>6. batch' \in Seq(BatchRow) /\ Len(batch') = Len(batch) /\ DOMAIN batch' = DOMAIN batch
      <4>1. batch' \in [1..Len(batch) -> BatchRow]
        BY <3>1, <3>3, <3>5
      <4> QED
        BY <3>5, <4>1
    <3>7. moved' \in Seq(MovementSums) /\ Len(moved') = Len(batch)
      <4>1. moved' \in [1..Len(batch) -> MovementSums]
        BY <3>1, <3>4, <3>5
      <4> QED
        BY <3>5, <4>1
    <3>8. TablesOK'
      BY <3>1, <3>2, <3>6, <3>7 DEF TypeInv, TablesOK
    <3>9. Len(batch) <= Len(batch') /\ Len(allocs) <= Len(allocs') /\ UNCHANGED used
      BY <3>1, <3>6, RowsTyped
    <3> QED
      BY <3>1, <3>8, <3>9, IdleHolds, GotoTypes
  <2> QED
    BY <2>1, <2>2
<1> QED
  BY <1>1, <1>2

\* One batch is saved.
LEMMA ReplacesBatch ==
    ASSUME TypeInv, NEW b \in DOMAIN batch, NEW row \in BatchRow, batch' = [batch EXCEPT ![b] = row]
    PROVE  /\ batch' \in Seq(BatchRow) /\ Len(batch') = Len(batch) /\ DOMAIN batch' = DOMAIN batch
           /\ batch'[b] = row /\ \A c \in DOMAIN batch : c # b => batch'[c] = batch[c]
  BY RowsTyped DEF TypeInv, TablesOK

\* A movement of one batch is inserted.
LEMMA ReplacesSums ==
    ASSUME TypeInv, NEW b \in DOMAIN batch, NEW sums \in MovementSums,
           moved' = [moved EXCEPT ![b] = sums]
    PROVE  /\ moved' \in Seq(MovementSums) /\ Len(moved') = Len(moved) /\ DOMAIN moved' = DOMAIN batch
           /\ moved'[b] = sums /\ \A c \in DOMAIN batch : c # b => moved'[c] = moved[c]
  BY RowsTyped DEF TypeInv, TablesOK

\* Where a request goes from the LEGACY batch of its product.
LEMMA AfterLegacyHolds ==
    ASSUME NEW q, NEW n, NEW k, Holding(q, n, k), q.pc \in {"find", "insert"},
           NEW b \in Nat, q.op = "adjust" => b \in 1..n, NEW next \in NextProduct(AfterLegacy(q, b))
    PROVE  Holding(next, n, k)
<1>0. q \in Request /\ q.op \in {"adjust", "consume", "backfill"} /\ q.product \in Products
  BY DEF Holding, HoldsProduct, OpsAt
<1>1. CASE q.op = "adjust"
  <2> DEFINE s == [q EXCEPT !.pc = "adjust", !.ent = b]
  <2>1. AfterLegacy(q, b) = s
    BY <1>1 DEF AfterLegacy
  <2>2. "adjust" \in Pc
    BY DEF Pc
  <2>3. /\ s \in Request /\ s.pc = "adjust" /\ s.op = q.op /\ s.ent = b /\ s.qty = q.qty
        /\ s.product = q.product
    BY <1>0, <2>2 DEF Request
  <2> HIDE DEF s
  <2>4. next = s
    BY <1>1, <2>1, <2>3 DEF NextProduct
  <2> QED
    BY <1>1, <2>3, <2>4
    DEF Holding, HoldsPurchase, HoldsProduct, HoldsBatch, HoldsPlan, OpsAt
<1>2. CASE q.op = "consume"
  <2> DEFINE s == [q EXCEPT !.pc = "plan"]
  <2>1. AfterLegacy(q, b) = s
    BY <1>2 DEF AfterLegacy
  <2>2. "plan" \in Pc
    BY DEF Pc
  <2>3. s \in Request /\ s.pc = "plan" /\ s.op = q.op /\ s.qty = q.qty /\ s.product = q.product
    BY <1>0, <2>2 DEF Request
  <2> HIDE DEF s
  <2>4. next = s
    BY <1>2, <2>1, <2>3 DEF NextProduct
  <2> QED
    BY <1>2, <2>3, <2>4
    DEF Holding, HoldsPurchase, HoldsProduct, HoldsBatch, HoldsPlan, OpsAt
<1>3. CASE q.op = "backfill" /\ q.todo = {}
  <2>1. AfterLegacy(q, b) = Idle
    BY <1>3 DEF AfterLegacy
  <2>2. next = Idle
    BY <2>1, IdleTyped DEF NextProduct
  <2> QED
    BY <2>2, IdleHolds
<1>4. CASE q.op = "backfill" /\ q.todo # {}
  <2>1. AfterLegacy(q, b) = q
    BY <1>4 DEF AfterLegacy
  <2>2. PICK p \in q.todo : next = [q EXCEPT !.pc = "find", !.product = p, !.todo = @ \ {p}]
    BY <1>4, <2>1 DEF NextProduct
  <2>3. p \in Products /\ q.todo \ {p} \in SUBSET Products /\ "find" \in Pc
    BY <1>0 DEF Request, Pc
  <2>4. next \in Request /\ next.pc = "find" /\ next.op = q.op /\ next.product = p
    BY <1>0, <2>2, <2>3 DEF Request
  <2> QED
    BY <1>4, <2>3, <2>4
    DEF Holding, HoldsPurchase, HoldsProduct, HoldsBatch, HoldsPlan, OpsAt
<1> QED
  BY <1>0, <1>1, <1>2, <1>3, <1>4

\* The statements of createLegacyBatchForProduct.
LEMMA LegacyStepTypes ==
    ASSUME TypeInv, NEW r \in Requests, FindLegacy(r) \/ InsertLegacy(r)
    PROVE  TypeInv'
<1> PICK p : p = req[r]
  OBVIOUS
<1>0. p \in Request /\ Holding(p, Len(batch), Len(allocs)) /\ Len(batch) \in Nat
  BY RowsTyped
<1>1. CASE FindLegacy(r)
  <2> DEFINE stock == Ledger(p.product)
  <2>0. p.pc = "find" /\ p.product \in Products /\ stock \in Int /\ UNCHANGED used
    BY <1>0, <1>1, StockTyped DEF FindLegacy, Holding, HoldsProduct, OpsAt
  <2>1. ASSUME NEW b \in FoundLegacy(p.product),
               NEW next \in NextProduct(AfterLegacy([p EXCEPT !.avail = batch[b].avail,
                                                     !.initial = batch[b].initial], b)),
               Goto(r, next), UNCHANGED <<purchase, payments, batch, moved, allocs>>
        PROVE  TypeInv'
    <3> DEFINE q == [p EXCEPT !.avail = batch[b].avail, !.initial = batch[b].initial]
    <3>1. b \in DOMAIN batch /\ b \in 1..Len(batch) /\ b \in Nat
      BY RowsTyped DEF FoundLegacy, LegacyOf, BatchesOf
    <3>2. batch[b].avail \in Int /\ batch[b].initial \in Int
      BY <3>1, RowsTyped DEF BatchRow
    <3>3. /\ q \in Request /\ q.pc = p.pc /\ q.op = p.op /\ q.product = p.product
          /\ q.qty = p.qty /\ q.moving = p.moving
      BY <1>0, <3>2 DEF Request
    <3> HIDE DEF q
    <3>4. Holding(q, Len(batch), Len(allocs)) /\ q.pc = "find"
      BY <1>0, <2>0, <3>3
      DEF Holding, HoldsPurchase, HoldsProduct, HoldsBatch, HoldsPlan, OpsAt
    <3>5. next \in NextProduct(AfterLegacy(q, b))
      BY <2>1 DEF q
    <3>6. Holding(next, Len(batch), Len(allocs))
      BY <3>1, <3>4, <3>5, AfterLegacyHolds
    <3> QED
      BY <2>0, <2>1, <3>6, ReadTypes
  <2>2. ASSUME p.op # "adjust", NEW next \in NextProduct(AfterLegacy(p, 0)), Goto(r, next),
               UNCHANGED <<purchase, payments, batch, moved, allocs>>
        PROVE  TypeInv'
    <3>1. Holding(next, Len(batch), Len(allocs))
      BY <1>0, <2>0, <2>2, AfterLegacyHolds
    <3> QED
      BY <2>0, <2>2, <3>1, ReadTypes
  <2>3. ASSUME NeedsDate(p.product, FALSE), Throw(r)
        PROVE  TypeInv'
    BY <2>0, <2>3, ThrowTypes
  <2>4. ASSUME ~NeedsDate(p.product, FALSE),
               Goto(r, [p EXCEPT !.pc = "insert", !.moving = Max({0, stock})]),
               UNCHANGED <<purchase, payments, batch, moved, allocs>>
        PROVE  TypeInv'
    <3> PICK n : n = Max({0, stock})
      OBVIOUS
    <3> DEFINE q == [p EXCEPT !.pc = "insert", !.moving = n]
    <3>1. n \in Nat /\ n \in Int
      BY <2>0, MaxOfZero
    <3>2. "insert" \in Pc
      BY DEF Pc
    <3>3. /\ q \in Request /\ q.pc = "insert" /\ q.op = p.op /\ q.product = p.product
          /\ q.qty = p.qty /\ q.moving = n
      BY <1>0, <3>1, <3>2 DEF Request
    <3>4. Goto(r, q)
      BY <2>4
    <3> HIDE DEF q
    <3>5. p.product \notin Perishable
      BY <2>4 DEF NeedsDate
    <3>6. Holding(q, Len(batch), Len(allocs))
      BY <1>0, <2>0, <3>1, <3>3, <3>5
      DEF Holding, HoldsPurchase, HoldsProduct, HoldsBatch, HoldsPlan, OpsAt
    <3> QED
      BY <2>0, <2>4, <3>4, <3>6, ReadTypes
  <2> QED
    BY <1>1, <2>1, <2>2, <2>3, <2>4 DEF FindLegacy
<1>2. CASE InsertLegacy(r)
  <2> DEFINE n == p.moving
             m == Len(batch) + 1
             row == NewBatch(p.product, "none", TRUE, FALSE, n)
             q == [p EXCEPT !.avail = n, !.initial = n, !.moving = 0]
  <2>0. p.pc = "insert" /\ p.product \in Products /\ n \in Nat /\ UNCHANGED used
    BY <1>0, <1>2 DEF InsertLegacy, Holding, HoldsProduct, OpsAt
  <2>1. /\ batch' = Append(batch, row) /\ moved' = Append(moved, [sum |-> 0, raised |-> 0])
        /\ UNCHANGED <<purchase, payments, allocs>>
        /\ \E next \in NextProduct(AfterLegacy(q, m)) : Goto(r, next)
    BY <1>2 DEF InsertLegacy
  <2>2. row \in BatchRow
    <3>1. "none" \in Purchases \cup {"none"} /\ FALSE \in BOOLEAN /\ TRUE \in BOOLEAN /\ n \in Int
      BY <2>0
    <3> QED
      BY <2>0, <3>1, NewBatchType
  <2> HIDE DEF row
  <2>3. TablesOK' /\ Len(batch') = m
    BY <2>1, <2>2, AppendsBatch
  <2>4. Len(batch) <= m /\ m \in Nat /\ m \in 1..m /\ Len(allocs) \in Nat /\ Len(allocs') = Len(allocs)
    BY <1>0, <2>1, RowsTyped
  <2>5. Holding(p, m, Len(allocs))
    BY <1>0, <2>4, HoldingLonger
  <2>6a. n \in Int /\ 0 \in Int /\ 0 \in Nat
    BY <2>0
  <2>6b. /\ q \in Request /\ q.pc = p.pc /\ q.op = p.op /\ q.product = p.product
         /\ q.qty = p.qty /\ q.moving = 0
    BY <1>0, <2>6a DEF Request
  <2> HIDE DEF q
  <2>6. Holding(q, m, Len(allocs)) /\ q.pc = "insert"
    BY <2>0, <2>5, <2>6a, <2>6b
    DEF Holding, HoldsPurchase, HoldsProduct, HoldsBatch, HoldsPlan, OpsAt
  <2>7. PICK next \in NextProduct(AfterLegacy(q, m)) : Goto(r, next)
    BY <2>1
  <2>8. Holding(next, m, Len(allocs))
    BY <2>4, <2>6, AfterLegacyHolds
  <2> QED
    BY <2>0, <2>3, <2>4, <2>7, <2>8, GotoTypes
<1> QED
  BY <1>1, <1>2

\* The last statements of an entry and of an adjustment.
LEMMA AdjustStepTypes ==
    ASSUME TypeInv, NEW r \in Requests, AdjustBatch(r) \/ InsertMovement(r)
    PROVE  TypeInv'
<1> PICK p : p = req[r]
  OBVIOUS
<1>0. p \in Request /\ Holding(p, Len(batch), Len(allocs)) /\ DOMAIN batch = 1..Len(batch)
  BY RowsTyped
<1>1. CASE AdjustBatch(r)
  <2> PICK avail : avail = p.avail + p.qty
    OBVIOUS
  <2> PICK initial : initial = p.initial + Raised(p.qty)
    OBVIOUS
  <2> DEFINE row == [batch[p.ent] EXCEPT !.avail = avail, !.initial = initial,
                                         !.status = StatusFor(avail)]
             q == [p EXCEPT !.pc = "move", !.moving = p.qty]
  <2>1. /\ p.pc = "adjust" /\ batch' = [batch EXCEPT ![p.ent] = row] /\ Goto(r, q)
        /\ UNCHANGED <<purchase, payments, moved, allocs, used>>
    BY <1>1 DEF AdjustBatch
  <2>2. p.ent \in DOMAIN batch /\ p.op = "adjust"
    BY <1>0, <2>1 DEF Holding, HoldsBatch, OpsAt
  <2>3. avail \in Int /\ initial \in Int /\ p.qty \in Int
    BY <1>0, SMTT(40) DEF Request, Raised
  <2>4. row \in BatchRow
    <3>1. batch[p.ent] \in BatchRow /\ StatusFor(avail) \in BatchStatus
      BY <2>2, RowsTyped DEF StatusFor, BatchStatus
    <3> QED
      BY <2>3, <3>1, ZenonT(40) DEF BatchRow
  <2> HIDE DEF row
  <2>5. TablesOK' /\ Len(batch') = Len(batch)
    BY <2>1, <2>2, <2>4, ReplacesBatch DEF TypeInv, TablesOK
  <2>6. "move" \in Pc
    BY DEF Pc
  <2>7. /\ q \in Request /\ q.pc = "move" /\ q.op = p.op /\ q.ent = p.ent /\ q.product = p.product
        /\ q.qty = p.qty
    BY <1>0, <2>3, <2>6 DEF Request
  <2> HIDE DEF q
  <2>8. Holding(q, Len(batch'), Len(allocs'))
    BY <1>0, <2>1, <2>2, <2>5, <2>7
    DEF Holding, HoldsPurchase, HoldsProduct, HoldsBatch, HoldsPlan, OpsAt
  <2>9. Len(batch) <= Len(batch') /\ Len(allocs) <= Len(allocs') /\ UNCHANGED used
    BY <2>1, <2>5, RowsTyped
  <2> QED
    BY <2>1, <2>5, <2>8, <2>9, GotoTypes
<1>2. CASE InsertMovement(r)
  <2> DEFINE sums == [sum |-> moved[p.ent].sum + p.moving,
                      raised |-> moved[p.ent].raised + Raised(p.moving)]
  <2>1. /\ p.pc = "move" /\ moved' = [moved EXCEPT ![p.ent] = sums] /\ Goto(r, Idle)
        /\ UNCHANGED <<purchase, payments, batch, allocs, used>>
    BY <1>2 DEF InsertMovement
  <2>2. p.ent \in DOMAIN batch
    BY <1>0, <2>1 DEF Holding, HoldsBatch
  <2>3. sums \in MovementSums
    <3>1. moved[p.ent] \in MovementSums /\ p.moving \in Int
      BY <1>0, <2>2, RowsTyped DEF Request
    <3>2. Raised(p.moving) \in Nat
      BY <3>1 DEF Raised
    <3> QED
      BY <3>1, <3>2 DEF MovementSums
  <2> HIDE DEF sums
  <2>4. moved' \in Seq(MovementSums) /\ Len(moved') = Len(moved)
    BY <2>1, <2>2, <2>3, ReplacesSums
  <2>5. TablesOK'
    BY <2>1, <2>4 DEF TypeInv, TablesOK
  <2>6. Len(batch) <= Len(batch') /\ Len(allocs) <= Len(allocs') /\ UNCHANGED used
    BY <2>1, RowsTyped
  <2> QED
    BY <2>1, <2>5, <2>6, IdleHolds, GotoTypes
<1> QED
  BY <1>1, <1>2

\* What consumeStock plans to take from each batch is what the candidates hold.
LEMMA PlanTyped ==
    ASSUME TypeInv, DOMAIN batch \subseteq BatchIds, NEW p,
           NEW plan, plan = [b \in BatchIds |-> IF b \in Usable(p) THEN batch[b].avail ELSE 0]
    PROVE  /\ plan \in [BatchIds -> Nat] /\ SumOf(plan, BatchIds) = Units(Usable(p))
           /\ \A c \in BatchIds : plan[c] > 0 => c \in Usable(p) /\ plan[c] = batch[c].avail
           /\ Usable(p) \subseteq DOMAIN batch
<1>1. Usable(p) \subseteq DOMAIN batch
  BY DEF Usable, OnSale, BatchesOf
<1>2. \A b \in Usable(p) : batch[b].avail \in Nat /\ batch[b].avail > 0
  BY <1>1, RowsTyped DEF Usable, BatchRow
<1>3. plan \in [BatchIds -> Nat]
  BY <1>2
<1>4. SumOf(plan, BatchIds) = Units(Usable(p))
  <2> PICK S : S = Usable(p)
    OBVIOUS
  <2> DEFINE f == [b \in S |-> batch[b].avail]
  <2>1. IsFiniteSet(BatchIds) /\ S \in SUBSET BatchIds
    <3>1. 1 \in Int /\ MaxBatches + Cardinality(Products) * Cardinality(Requests) \in Int
      <4>1. Cardinality(Products) \in Nat /\ Cardinality(Requests) \in Nat
        BY StockroomAssumption, FS_CardinalityType
      <4> QED
        BY <4>1, StockroomAssumption
    <3>2. IsFiniteSet(1..(MaxBatches + Cardinality(Products) * Cardinality(Requests)))
      BY ONLY <3>1, FS_Interval
    <3> QED
      BY <1>1, <3>2 DEF BatchIds
  <2>2. /\ \A b \in S : f[b] \in Int
        /\ \A b \in BatchIds : plan[b] = IF b \in S THEN f[b] ELSE 0
        /\ \A b \in S : f[b] = batch[b]["avail"]
    BY <1>2, <2>1
  <2> HIDE DEF f
  <2>3. SumOf(plan, BatchIds) = SumOf(f, S)
    BY <2>1, <2>2, SumWhere
  <2>4. IsFiniteSet(S)
    BY <2>1, FS_Subset
  <2>5. SumOfColumn(batch, "avail", S) = SumOf(f, S)
    BY <2>2, <2>4, ColumnIsSum
  <2> QED
    BY <2>3, <2>5, SumsAreColumns
<1>5. \A c \in BatchIds : plan[c] > 0 => c \in Usable(p) /\ plan[c] = batch[c].avail
  OBVIOUS
<1> QED
  BY <1>1, <1>3, <1>4, <1>5

\* The batch consumeStock takes from, and how many units.
LEMMA TakeTyped ==
    ASSUME TypeInv, NEW r \in Requests, req[r].pc = "take"
    PROVE  LET q == req[r]
               b == Min({c \in BatchIds : q.plan[c] > 0})
               n == Min({q.plan[b], q.qty})
           IN  /\ b \in DOMAIN batch /\ b \in BatchIds /\ q.plan[b] \in Nat /\ q.plan[b] > 0
               /\ n = IF q.plan[b] < q.qty THEN q.plan[b] ELSE q.qty
               /\ n \in Nat \ {0} /\ q.qty \in Nat /\ n <= q.qty /\ n <= q.plan[b]
               /\ SumOf([q.plan EXCEPT ![b] = 0], BatchIds) >= q.qty - n
<1> PICK q : q = req[r]
  OBVIOUS
<1> DEFINE S == {c \in BatchIds : q.plan[c] > 0}
           b == Min(S)
<1>1. /\ q \in Request /\ q.op = "consume" /\ q.qty \in Nat /\ q.qty > 0 /\ q.plan \in [BatchIds -> Nat]
      /\ SumOf(q.plan, BatchIds) >= q.qty /\ \A c \in S : c \in DOMAIN batch
  <2>1. q \in Request /\ Holding(q, Len(batch), Len(allocs)) /\ DOMAIN batch = 1..Len(batch)
    BY RowsTyped
  <2> QED
    BY <2>1 DEF Holding, HoldsPlan, OpsAt, Request
<1>2. IsFiniteSet(BatchIds) /\ \A c \in BatchIds : c \in Int
  <2>1. 1 \in Int /\ MaxBatches + Cardinality(Products) * Cardinality(Requests) \in Int
    <3>1. Cardinality(Products) \in Nat /\ Cardinality(Requests) \in Nat
      BY StockroomAssumption, FS_CardinalityType
    <3> QED
      BY <3>1, StockroomAssumption
  <2>2. IsFiniteSet(1..(MaxBatches + Cardinality(Products) * Cardinality(Requests)))
    BY ONLY <2>1, FS_Interval
  <2> QED
    BY <2>1, <2>2 DEF BatchIds
<1>3. S # {}
  <2> SUFFICES ASSUME S = {}
               PROVE  FALSE
    OBVIOUS
  <2>1. \A c \in BatchIds : q.plan[c] = 0
    BY <1>1
  <2>2. SumOf(q.plan, BatchIds) = 0
    BY <1>2, <2>1, SumZeros
  <2> QED
    BY <1>1, <2>2
<1>4. b \in S /\ IsFiniteSet(S)
  <2>1. IsFiniteSet(S) /\ S \subseteq Int
    BY <1>2, FS_Subset
  <2> HIDE DEF S
  <2> QED
    BY <1>3, <2>1, MinIsSmallest
<1> HIDE DEF b
<1>5. b \in BatchIds /\ b \in DOMAIN batch /\ q.plan[b] \in Nat /\ q.plan[b] > 0
  BY <1>1, <1>4
<1> DEFINE n == Min({q.plan[b], q.qty})
           less == [q.plan EXCEPT ![b] = 0]
<1>6. n = IF q.plan[b] < q.qty THEN q.plan[b] ELSE q.qty
  BY <1>1, <1>5, MinOfTwo
<1> HIDE DEF n
<1>7. n \in Nat \ {0} /\ n <= q.qty /\ n <= q.plan[b]
  BY <1>1, <1>5, <1>6
<1>8. SumOf(less, BatchIds) >= q.qty - n
  <2> PICK f : f = q.plan
    OBVIOUS
  <2>1. /\ \A y \in BatchIds : f[y] \in Int /\ less[y] \in Int
        /\ \A y \in BatchIds \ {b} : less[y] = f[y]
        /\ less[b] = 0
    BY <1>1, <1>5
  <2>2. \A y \in BatchIds : less[y] \in Nat
    BY <1>1
  <2> HIDE DEF less
  <2>3. SumOf(less, BatchIds) = SumOf(f, BatchIds) + (less[b] - f[b])
    BY <1>2, <1>5, <2>1, SumChange
  <2>4. SumOf(less, BatchIds) \in Nat /\ SumOf(f, BatchIds) \in Int
    BY <1>2, <2>1, <2>2, SumOfNats, SumType
  <2> QED
    BY <1>1, <1>5, <1>6, <2>1, <2>3, <2>4
<1>9. b = Min({c \in BatchIds : q.plan[c] > 0})
  BY DEF b
<1> QED
  BY <1>1, <1>5, <1>6, <1>7, <1>8, <1>9 DEF n

\* The statements of consumeStock.
LEMMA ConsumeStepTypes ==
    ASSUME TypeInv, DOMAIN batch \subseteq BatchIds, NEW r \in Requests,
           ReadCandidates(r) \/ TakeBatch(r) \/ InsertAllocation(r)
    PROVE  TypeInv'
<1> PICK p : p = req[r]
  OBVIOUS
<1>0. p \in Request /\ Holding(p, Len(batch), Len(allocs)) /\ DOMAIN batch = 1..Len(batch)
  BY RowsTyped
<1>1. CASE ReadCandidates(r)
  <2>1. CASE Units(Usable(p.product)) < p.qty
    BY <1>1, <2>1, ThrowTypes DEF ReadCandidates
  <2>2. CASE ~(Units(Usable(p.product)) < p.qty)
    <3> PICK plan : plan = [b \in BatchIds |-> IF b \in Usable(p.product) THEN batch[b].avail ELSE 0]
      OBVIOUS
    <3> DEFINE q == [p EXCEPT !.pc = "take", !.plan = plan]
    <3>1. p.pc = "plan" /\ Goto(r, q) /\ UNCHANGED <<purchase, payments, batch, moved, allocs, used>>
      BY <1>1, <2>2 DEF ReadCandidates
    <3>2. /\ plan \in [BatchIds -> Nat] /\ SumOf(plan, BatchIds) = Units(Usable(p.product))
          /\ \A c \in BatchIds : plan[c] > 0 => c \in 1..Len(batch)
      <4>1. /\ plan \in [BatchIds -> Nat] /\ SumOf(plan, BatchIds) = Units(Usable(p.product))
            /\ Usable(p.product) \subseteq DOMAIN batch
            /\ \A c \in BatchIds : plan[c] > 0 => c \in Usable(p.product)
        BY PlanTyped
      <4> QED
        BY <1>0, <4>1
    <3>3. "take" \in Pc
      BY DEF Pc
    <3>4. /\ q \in Request /\ q.pc = "take" /\ q.op = p.op /\ q.product = p.product
          /\ q.qty = p.qty /\ q.plan = plan
      BY <1>0, <3>2, <3>3 DEF Request
    <3> HIDE DEF q
    <3>5. Units(Usable(p.product)) >= p.qty
      <4>1. Units(Usable(p.product)) \in Int /\ p.qty \in Int
        <5>1. Usable(p.product) \in SUBSET DOMAIN batch
          BY DEF Usable, OnSale, BatchesOf
        <5> QED
          BY <1>0, <5>1, StockTyped DEF Request
      <4> QED
        BY <2>2, <4>1
    <3>6. Holding(q, Len(batch), Len(allocs))
      BY <1>0, <3>1, <3>2, <3>4, <3>5
      DEF Holding, HoldsPurchase, HoldsProduct, HoldsBatch, HoldsPlan, OpsAt
    <3> QED
      BY <3>1, <3>6, ReadTypes
  <2> QED
    BY <2>1, <2>2
<1>2. CASE TakeBatch(r)
  <2> PICK b : b = Min({c \in BatchIds : p.plan[c] > 0})
    OBVIOUS
  <2> PICK n : n = Min({p.plan[b], p.qty})
    OBVIOUS
  <2> DEFINE row == [batch[b] EXCEPT !.avail = p.plan[b] - n, !.status = StatusFor(p.plan[b] - n)]
             less == [p.plan EXCEPT ![b] = 0]
             q == [p EXCEPT !.pc = "alloc", !.ent = b, !.moving = n, !.qty = p.qty - n, !.plan = less]
  <2>1. /\ p.pc = "take" /\ batch' = [batch EXCEPT ![b] = row] /\ Goto(r, q)
        /\ UNCHANGED <<purchase, payments, moved, allocs, used>>
    BY <1>2 DEF TakeBatch
  <2>2. /\ b \in DOMAIN batch /\ b \in BatchIds /\ p.plan[b] \in Nat /\ p.plan[b] > 0
        /\ n \in Nat \ {0} /\ p.qty \in Nat /\ n <= p.qty /\ n <= p.plan[b]
        /\ SumOf(less, BatchIds) >= p.qty - n
    BY <2>1, TakeTyped
  <2>3. p.plan[b] - n \in Int /\ p.qty - n \in Nat /\ p.qty - n \in Int /\ b \in Nat /\ n \in Int
    BY <2>2, RowsTyped, SMTT(40)
  <2>4. row \in BatchRow
    <3>1. batch[b] \in BatchRow /\ StatusFor(p.plan[b] - n) \in BatchStatus
      BY <2>2, RowsTyped DEF StatusFor, BatchStatus
    <3> QED
      BY <2>3, <3>1, ZenonT(40) DEF BatchRow
  <2> HIDE DEF row
  <2>5. TablesOK' /\ Len(batch') = Len(batch)
    BY <2>1, <2>2, <2>4, ReplacesBatch DEF TypeInv, TablesOK
  <2>6. less \in [BatchIds -> Nat] /\ \A c \in BatchIds : less[c] > 0 => p.plan[c] > 0
    <3>1. p.plan \in [BatchIds -> Nat]
      BY <1>0 DEF Request
    <3> QED
      BY <2>2, <3>1
  <2> HIDE DEF less
  <2>7. "alloc" \in Pc
    BY DEF Pc
  <2>8. /\ q \in Request /\ q.pc = "alloc" /\ q.op = p.op /\ q.ent = b /\ q.product = p.product
        /\ q.qty = p.qty - n /\ q.moving = n /\ q.plan = less
    BY <1>0, <2>3, <2>6, <2>7, ZenonT(40) DEF Request
  <2> HIDE DEF q
  <2>9. Holding(q, Len(batch'), Len(allocs'))
    BY <1>0, <2>1, <2>2, <2>3, <2>5, <2>6, <2>8
    DEF Holding, HoldsPurchase, HoldsProduct, HoldsBatch, HoldsPlan, OpsAt
  <2>10. Len(batch) <= Len(batch') /\ Len(allocs) <= Len(allocs') /\ UNCHANGED used
    BY <2>1, <2>5, RowsTyped
  <2> QED
    BY <2>1, <2>5, <2>9, <2>10, GotoTypes
<1>3. CASE InsertAllocation(r)
  <2> DEFINE row == [batch |-> p.ent, qty |-> p.moving, restored |-> FALSE]
             sums == [moved[p.ent] EXCEPT !.sum = @ - p.moving]
             q == IF p.qty = 0 THEN Idle ELSE [p EXCEPT !.pc = "take"]
  <2>1. /\ p.pc = "alloc" /\ allocs' = Append(allocs, row) /\ moved' = [moved EXCEPT ![p.ent] = sums]
        /\ Goto(r, q) /\ UNCHANGED <<purchase, payments, batch, used>>
    BY <1>3 DEF InsertAllocation
  <2>2. p.ent \in DOMAIN batch /\ p.moving \in Nat \ {0} /\ p.op = "consume" /\ p.qty \in Nat
    BY <1>0, <2>1 DEF Holding, HoldsBatch, HoldsPlan, OpsAt
  <2>3. row \in AllocationRow /\ row.batch = p.ent /\ row.qty = p.moving
    BY <2>2, RowsTyped DEF AllocationRow
  <2>4. sums \in MovementSums
    <3>1. moved[p.ent] \in MovementSums /\ p.moving \in Int
      BY <1>0, <2>2, RowsTyped DEF Request
    <3> QED
      BY <3>1 DEF MovementSums
  <2> HIDE DEF row, sums
  <2>5. moved' \in Seq(MovementSums) /\ Len(moved') = Len(moved)
    BY <2>1, <2>2, <2>4, ReplacesSums
  <2>6. TablesOK' /\ Len(allocs') = Len(allocs) + 1
    <3>1. allocs \in Seq(AllocationRow)
      BY DEF TypeInv, TablesOK
    <3>2. /\ allocs' \in Seq(AllocationRow) /\ Len(allocs') = Len(allocs) + 1
          /\ \A k \in DOMAIN allocs' : \/ k \in DOMAIN allocs /\ allocs'[k] = allocs[k]
                                       \/ allocs'[k] = row
      BY <2>1, <2>3, <3>1
    <3>3. \A k \in DOMAIN allocs' : allocs'[k].batch \in DOMAIN batch /\ allocs'[k].qty > 0
      BY <2>2, <2>3, <3>2, RowsTyped
    <3> QED
      BY <2>1, <2>5, <3>2, <3>3 DEF TypeInv, TablesOK
  <2>7. Len(batch) <= Len(batch') /\ Len(allocs) <= Len(allocs') /\ UNCHANGED used
    BY <2>1, <2>6, RowsTyped
  <2>8. Holding(q, Len(batch'), Len(allocs'))
    <3>1. CASE p.qty = 0
      BY <3>1, IdleHolds
    <3>2. CASE p.qty # 0
      <4> DEFINE next == [p EXCEPT !.pc = "take"]
      <4>1. "take" \in Pc
        BY DEF Pc
      <4>2. /\ next \in Request /\ next.pc = "take" /\ next.op = p.op /\ next.qty = p.qty
            /\ next.plan = p.plan /\ next.product = p.product
        BY <1>0, <4>1 DEF Request
      <4> HIDE DEF next
      <4>3. Holding(next, Len(batch), Len(allocs'))
        BY <1>0, <2>1, <2>2, <3>2, <4>2
        DEF Holding, HoldsPurchase, HoldsProduct, HoldsBatch, HoldsPlan, OpsAt
      <4> QED
        BY <2>1, <3>2, <4>3 DEF next
    <3> QED
      BY <3>1, <3>2
  <2> QED
    BY <2>1, <2>6, <2>7, <2>8, GotoTypes
<1> QED
  BY <1>1, <1>2, <1>3

\* The statements of restoreStockFromAllocations.
LEMMA RestoreStepTypes ==
    ASSUME TypeInv, NEW r \in Requests, GiveBack(r) \/ MarkRestored(r)
    PROVE  TypeInv'
<1> PICK p : p = req[r]
  OBVIOUS
<1>0. p \in Request /\ Holding(p, Len(batch), Len(allocs)) /\ DOMAIN batch = 1..Len(batch)
  BY RowsTyped
<1>1. CASE GiveBack(r)
  <2> DEFINE row == GivenBack(batch[p.ent], p.avail)
             q == [p EXCEPT !.pc = "mark"]
  <2>1. /\ p.pc = "give" /\ batch' = [batch EXCEPT ![p.ent] = row] /\ Goto(r, q)
        /\ UNCHANGED <<purchase, payments, moved, allocs, used>>
    BY <1>1 DEF GiveBack
  <2>2. p.ent \in DOMAIN batch /\ p.op = "restore"
    BY <1>0, <2>1 DEF Holding, HoldsBatch, OpsAt
  <2>3. row \in BatchRow
    <3>1. batch[p.ent] \in BatchRow /\ p.avail \in Int /\ "ACTIVE" \in BatchStatus
      BY <1>0, <2>2, RowsTyped DEF Request, BatchStatus
    <3> QED
      BY <3>1 DEF GivenBack, BatchRow
  <2> HIDE DEF row
  <2>4. TablesOK' /\ Len(batch') = Len(batch)
    BY <2>1, <2>2, <2>3, ReplacesBatch DEF TypeInv, TablesOK
  <2>5. "mark" \in Pc
    BY DEF Pc
  <2>6. /\ q \in Request /\ q.pc = "mark" /\ q.op = p.op /\ q.ent = p.ent /\ q.alloc = p.alloc
        /\ q.moving = p.moving
    BY <1>0, <2>5 DEF Request
  <2> HIDE DEF q
  <2>7. Holding(q, Len(batch'), Len(allocs'))
    BY <1>0, <2>1, <2>2, <2>4, <2>6
    DEF Holding, HoldsPurchase, HoldsProduct, HoldsBatch, HoldsPlan, OpsAt
  <2>8. Len(batch) <= Len(batch') /\ Len(allocs) <= Len(allocs') /\ UNCHANGED used
    BY <2>1, <2>4, RowsTyped
  <2> QED
    BY <2>1, <2>4, <2>7, <2>8, GotoTypes
<1>2. CASE MarkRestored(r)
  <2> DEFINE row == [allocs[p.alloc] EXCEPT !.restored = TRUE]
             sums == [moved[p.ent] EXCEPT !.sum = @ + p.moving]
  <2>1. /\ p.pc = "mark" /\ allocs' = [allocs EXCEPT ![p.alloc] = row]
        /\ moved' = [moved EXCEPT ![p.ent] = sums] /\ Goto(r, Idle)
        /\ UNCHANGED <<purchase, payments, batch, used>>
    BY <1>2 DEF MarkRestored
  <2>2. p.ent \in DOMAIN batch /\ p.alloc \in DOMAIN allocs
    BY <1>0, <2>1, RowsTyped DEF Holding, HoldsBatch, OpsAt
  <2>3. row \in AllocationRow /\ row.batch = allocs[p.alloc].batch /\ row.qty = allocs[p.alloc].qty
    <3>1. allocs[p.alloc] \in AllocationRow
      BY <2>2, RowsTyped
    <3> QED
      BY <3>1 DEF AllocationRow
  <2>4. sums \in MovementSums
    <3>1. moved[p.ent] \in MovementSums /\ p.moving \in Int
      BY <1>0, <2>2, RowsTyped DEF Request
    <3> QED
      BY <3>1 DEF MovementSums
  <2> HIDE DEF row, sums
  <2>5. moved' \in Seq(MovementSums) /\ Len(moved') = Len(moved)
    BY <2>1, <2>2, <2>4, ReplacesSums
  <2>6. TablesOK' /\ Len(allocs') = Len(allocs)
    <3>1. allocs \in Seq(AllocationRow)
      BY DEF TypeInv, TablesOK
    <3>2. /\ allocs' \in Seq(AllocationRow) /\ Len(allocs') = Len(allocs)
          /\ DOMAIN allocs' = DOMAIN allocs
          /\ \A k \in DOMAIN allocs : allocs'[k] = IF k = p.alloc THEN row ELSE allocs[k]
      BY <2>1, <2>2, <2>3, <3>1
    <3>3. \A k \in DOMAIN allocs' : allocs'[k].batch \in DOMAIN batch /\ allocs'[k].qty > 0
      BY <2>2, <2>3, <3>2, RowsTyped
    <3> QED
      BY <2>1, <2>5, <3>2, <3>3 DEF TypeInv, TablesOK
  <2>7. Len(batch) <= Len(batch') /\ Len(allocs) <= Len(allocs') /\ UNCHANGED used
    BY <2>1, <2>6, RowsTyped
  <2> QED
    BY <2>1, <2>6, <2>7, IdleHolds, GotoTypes
<1> QED
  BY <1>1, <1>2

\* No statement breaks the types.
LEMMA RunTypes ==
    ASSUME TypeInv, DOMAIN batch \subseteq BatchIds, NEW r \in Requests, Run(r)
    PROVE  TypeInv'
  BY PurchaseStepTypes, CancelStepTypes, LegacyStepTypes, AdjustStepTypes, ConsumeStepTypes,
     RestoreStepTypes
  DEF Run

\* A request dies.
LEMMA DieTypes ==
    ASSUME TypeInv, NEW r \in Requests, Die(r)
    PROVE  TypeInv'
<1>1. used.faults \in Nat /\ used.faults < MaxFaults /\ used' = [used EXCEPT !.faults = @ + 1]
  BY RowsTyped DEF Die
<1>2. UsedOK'
  <2>1. used' = [calls |-> used.calls, overlaps |-> used.overlaps, faults |-> used.faults + 1]
    BY <1>1 DEF TypeInv, UsedOK
  <2>2. used.calls \in 0..MaxCalls /\ used.overlaps \in 0..MaxOverlaps
    BY DEF TypeInv, UsedOK
  <2>3. used.faults + 1 \in 0..MaxFaults
    BY <1>1, StockroomAssumption
  <2> QED
    BY <2>1, <2>2, <2>3 DEF UsedOK
<1>3. TablesOK' /\ Len(batch') = Len(batch) /\ Len(allocs') = Len(allocs) /\ Goto(r, Idle)
  BY DEF Die, Throw, TypeInv, TablesOK
<1>4. Len(batch) <= Len(batch') /\ Len(allocs) <= Len(allocs')
  BY <1>3, RowsTyped
<1>5. RequestsHold'
  BY <1>3, <1>4, IdleHolds, GoesOn DEF Goto
<1> QED
  BY <1>2, <1>3, <1>5 DEF TypeInv

\* The expiry date of a batch goes by.
LEMMA ExpireTypes ==
    ASSUME TypeInv, NEW b \in DOMAIN batch, Expire(b)
    PROVE  TypeInv'
<1> DEFINE row == [batch[b] EXCEPT !.expires = "past"]
<1>1. batch' = [batch EXCEPT ![b] = row] /\ UNCHANGED <<purchase, payments, moved, allocs, req, used>>
  BY DEF Expire
<1>2. row \in BatchRow
  <2>1. batch[b] \in BatchRow /\ "past" \in Expiry
    BY RowsTyped DEF Expiry
  <2> QED
    BY <2>1 DEF BatchRow
<1> HIDE DEF row
<1>3. batch' \in Seq(BatchRow) /\ Len(batch') = Len(batch) /\ DOMAIN batch' = DOMAIN batch
  BY <1>1, <1>2, ReplacesBatch
<1> QED
  BY <1>1, <1>3 DEF TypeInv, TablesOK, UsedOK, RequestsHold

-----------------------------------------------------------------------------
(* There are enough ids.  The model reserves one id per product and request for the *)
(* LEGACY batches, beyond MaxBatches: a request inserts one only when it found none *)
(* of the product, so each request that is about to inserts at most one more.       *)

Legacy == {b \in DOMAIN batch : batch[b].legacy}
Inserting(p) == {r \in Requests : req[r].pc = "insert" /\ req[r].product = p}
RoomInv ==
    /\ \A p \in Products :
         Cardinality(LegacyOf(p)) + Cardinality(Inserting(p)) <= Cardinality(Requests)
    /\ Cardinality(DOMAIN batch \ Legacy) <= MaxBatches

\* A set with at most n elements of each kind has at most n elements per kind.
LEMMA KindsBound ==
    ASSUME NEW S, IsFiniteSet(S), NEW P, IsFiniteSet(P), NEW n \in Nat, NEW kind,
           \A x \in S : kind[x] \in P,
           \A p \in P : Cardinality({x \in S : kind[x] = p}) <= n
    PROVE  Cardinality(S) <= Cardinality(P) * n
<1> DEFINE Of(T) == {x \in S : kind[x] \in T}
           Bad == {T \in SUBSET P : ~(Cardinality(Of(T)) <= Cardinality(T) * n)}
<1>1. Bad = {}
  <2> SUFFICES ASSUME Bad # {}
               PROVE  FALSE
    OBVIOUS
  <2>1. Bad \subseteq SUBSET P
    OBVIOUS
  <2>2. PICK T \in Bad : \A U \in Bad : U \subseteq T => U = T
    <3> HIDE DEF Bad
    <3> QED
      BY ONLY IsFiniteSet(P), Bad # {}, <2>1, SmallestSet
  <2>3. T \in SUBSET P /\ ~(Cardinality(Of(T)) <= Cardinality(T) * n)
    OBVIOUS
  <2>4. IsFiniteSet(T)
    BY <2>3, FS_Subset
  <2>5. T # {}
    <3> SUFFICES ASSUME T = {}
                 PROVE  FALSE
      OBVIOUS
    <3>1. Of(T) = {} /\ Cardinality({}) = 0
      BY FS_EmptySet
    <3>2. Cardinality(Of(T)) = 0 /\ Cardinality(T) = 0
      BY <3>1
    <3> HIDE DEF Of, Bad
    <3> QED
      BY <2>3, <3>2
  <2>6. PICK p \in T : TRUE
    BY <2>5
  <2> DEFINE U == T \ {p}
             A == Of(U)
             B == {x \in S : kind[x] = p}
  <2>7. Cardinality(A) <= Cardinality(U) * n
    <3>1. U \in SUBSET P /\ U \subseteq T /\ U # T
      BY <2>3, <2>6
    <3>2. U \notin Bad
      BY <2>2, <3>1
    <3> QED
      BY <3>1, <3>2
  <2>8. Cardinality(T) = Cardinality(U) + 1 /\ Cardinality(U) \in Nat
    <3>1. Cardinality(U) = Cardinality(T) - 1 /\ IsFiniteSet(U)
      BY <2>4, <2>6, FS_RemoveElement
    <3>2. Cardinality(T) \in Nat /\ Cardinality(U) \in Nat
      BY <2>4, <3>1, FS_CardinalityType
    <3> QED
      BY <3>1, <3>2
  <2>9. Of(T) = A \cup B /\ A \cap B = {}
    BY <2>6
  <2>10. IsFiniteSet(A) /\ IsFiniteSet(B)
    BY FS_Subset
  <2>11. Cardinality(B) <= n
    BY <2>3, <2>6
  <2> HIDE DEF A, B, Of, Bad, U
  <2>12. Cardinality(A \cup B) = Cardinality(A) + Cardinality(B) - Cardinality(A \cap B)
    BY <2>10, FS_Union
  <2>13. Cardinality(A \cap B) = 0
    BY <2>9, FS_EmptySet
  <2>14. Cardinality(A) \in Nat /\ Cardinality(B) \in Nat
    BY <2>10, FS_CardinalityType
  <2>15. Cardinality(Of(T)) = Cardinality(A) + Cardinality(B)
    BY <2>9, <2>12, <2>13, <2>14
  <2>16. Cardinality(T) * n = Cardinality(U) * n + n
    BY <2>8
  <2>17. Cardinality(U) * n \in Nat
    BY <2>8
  <2> QED
    BY <2>3, <2>7, <2>11, <2>14, <2>15, <2>16, <2>17
<1>2. P \in SUBSET P /\ Of(P) = S
  OBVIOUS
<1>3. Cardinality(Of(P)) <= Cardinality(P) * n
  BY <1>1
<1> QED
  BY <1>2, <1>3

\* Every batch has an id.
LEMMA RoomFits ==
    ASSUME TypeInv, RoomInv
    PROVE  DOMAIN batch \subseteq BatchIds /\ Len(batch) <= Cardinality(BatchIds)
<1> DEFINE n == Cardinality(Requests)
           m == Cardinality(Products)
           rest == DOMAIN batch \ Legacy
<1>1. /\ IsFiniteSet(Requests) /\ IsFiniteSet(Products) /\ n \in Nat /\ m \in Nat
      /\ MaxBatches \in Nat
  BY StockroomAssumption, FS_CardinalityType
<1>2. /\ DOMAIN batch = 1..Len(batch) /\ Len(batch) \in Nat /\ IsFiniteSet(DOMAIN batch)
      /\ Cardinality(DOMAIN batch) = Len(batch)
  <2>1. DOMAIN batch = 1..Len(batch) /\ Len(batch) \in Nat
    BY RowsTyped
  <2>2. 1 \in Int /\ Len(batch) \in Int
    BY <2>1
  <2>3. IsFiniteSet(1..Len(batch)) /\ Cardinality(1..Len(batch)) = IF 1 > Len(batch) THEN 0
                                                                 ELSE Len(batch) - 1 + 1
    BY ONLY <2>2, FS_Interval
  <2> QED
    BY <2>1, <2>3
<1>3. IsFiniteSet(Legacy) /\ IsFiniteSet(rest) /\ Legacy \cup rest = DOMAIN batch /\ Legacy \cap rest = {}
  <2>1. Legacy \in SUBSET DOMAIN batch /\ rest \in SUBSET DOMAIN batch
    BY DEF Legacy
  <2>2. IsFiniteSet(Legacy) /\ IsFiniteSet(rest)
    BY <1>2, <2>1, FS_Subset
  <2> QED
    BY <2>1, <2>2
<1>4. Cardinality(Legacy) <= m * n
  <2> DEFINE kind == [b \in Legacy |-> batch[b].product]
  <2>1. \A b \in Legacy : kind[b] \in Products
    BY RowsTyped DEF Legacy, BatchRow
  <2>2. ASSUME NEW p \in Products
        PROVE  Cardinality({b \in Legacy : kind[b] = p}) <= n
    <3>1. {b \in Legacy : kind[b] = p} = LegacyOf(p)
      BY DEF Legacy, LegacyOf, BatchesOf
    <3>2. IsFiniteSet(LegacyOf(p)) /\ IsFiniteSet(Inserting(p))
      <4>1. LegacyOf(p) \in SUBSET DOMAIN batch /\ Inserting(p) \in SUBSET Requests
        BY DEF LegacyOf, BatchesOf, Inserting
      <4> QED
        BY <1>1, <1>2, <4>1, FS_Subset
    <3>3. Cardinality(LegacyOf(p)) \in Nat /\ Cardinality(Inserting(p)) \in Nat
      BY <3>2, FS_CardinalityType
    <3>4. Cardinality(LegacyOf(p)) + Cardinality(Inserting(p)) <= n
      BY DEF RoomInv
    <3> HIDE DEF kind, n
    <3>5. Cardinality(LegacyOf(p)) <= n
      BY <1>1, <3>3, <3>4
    <3> QED
      BY <3>1, <3>5
  <2> HIDE DEF kind, n, m
  <2>3. Cardinality(Legacy) <= Cardinality(Products) * n
    BY <1>1, <1>3, <2>1, <2>2, KindsBound
  <2> QED
    BY <2>3 DEF m
<1>5. Cardinality(rest) <= MaxBatches
  BY DEF RoomInv
<1>6. Cardinality(Legacy) \in Nat /\ Cardinality(rest) \in Nat
  BY <1>3, FS_CardinalityType
<1>7. Len(batch) = Cardinality(Legacy) + Cardinality(rest)
  <2> HIDE DEF rest
  <2>1. Cardinality(Legacy \cup rest)
          = Cardinality(Legacy) + Cardinality(rest) - Cardinality(Legacy \cap rest)
    BY <1>3, FS_Union
  <2>2. Cardinality(Legacy \cap rest) = 0
    BY <1>3, FS_EmptySet
  <2>3. Cardinality(Legacy \cup rest) = Len(batch)
    BY <1>2, <1>3
  <2> QED
    BY <1>6, <2>1, <2>2, <2>3
<1>8. m * n \in Nat
  BY <1>1
<1>9. Len(batch) <= MaxBatches + m * n
  <2> HIDE DEF m, n, rest
  <2> QED
    BY <1>1, <1>2, <1>4, <1>5, <1>6, <1>7, <1>8
<1>10. BatchIds = 1..(MaxBatches + m * n)
  BY DEF BatchIds
<1>11. Cardinality(BatchIds) = MaxBatches + m * n
  <2> PICK k : k = MaxBatches + m * n
    OBVIOUS
  <2>1. 1 \in Int /\ k \in Int /\ k >= 0
    BY <1>1, <1>8
  <2>2. Cardinality(1..k) = IF 1 > k THEN 0 ELSE k - 1 + 1
    BY ONLY <2>1, FS_Interval
  <2> HIDE DEF m, n
  <2> QED
    BY <1>10, <2>1, <2>2
<1> HIDE DEF m, n
<1>12. DOMAIN batch \subseteq BatchIds
  BY <1>1, <1>2, <1>8, <1>9, <1>10
<1> QED
  BY <1>9, <1>11, <1>12

-----------------------------------------------------------------------------
(* What a step does to the batches and to the request it is a step of *)

\* No batch is added, and what each of them is for stays.
SameBatches ==
    /\ DOMAIN batch' = DOMAIN batch
    /\ \A b \in DOMAIN batch : /\ batch'[b].product = batch[b].product
                               /\ batch'[b].legacy = batch[b].legacy
                               /\ batch'[b].purchase = batch[b].purchase
\* New lots come after the batches that exist.
MoreLots ==
    /\ DOMAIN batch \subseteq DOMAIN batch' /\ Cardinality(DOMAIN batch') <= MaxBatches
    /\ \A b \in DOMAIN batch : batch'[b] = batch[b]
    /\ \A b \in DOMAIN batch' \ DOMAIN batch : ~batch'[b].legacy
\* A LEGACY batch comes after the batches that exist.
MoreLegacy(p) ==
    /\ Len(batch) + 1 \notin DOMAIN batch /\ DOMAIN batch' = DOMAIN batch \cup {Len(batch) + 1}
    /\ \A b \in DOMAIN batch : batch'[b] = batch[b]
    /\ batch'[Len(batch) + 1].product = p /\ batch'[Len(batch) + 1].legacy

\* Saving one batch keeps what it is for.
LEMMA SameAfterSave ==
    ASSUME TypeInv, NEW b \in DOMAIN batch, NEW row, batch' = [batch EXCEPT ![b] = row],
           row.product = batch[b].product, row.legacy = batch[b].legacy,
           row.purchase = batch[b].purchase
    PROVE  SameBatches
  BY RowsTyped DEF SameBatches, TypeInv, TablesOK

\* The rows of batches that nothing writes.
LEMMA SameUnchanged ==
    ASSUME UNCHANGED batch
    PROVE  SameBatches
  BY DEF SameBatches

\* The statements that save batches.
LEMMA SavesKeep ==
    ASSUME TypeInv, NEW r \in Requests,
           CommitCancel(r) \/ AdjustBatch(r) \/ TakeBatch(r) \/ GiveBack(r)
    PROVE  SameBatches
<1> PICK p : p = req[r]
  OBVIOUS
<1>0. p \in Request /\ Holding(p, Len(batch), Len(allocs)) /\ DOMAIN batch = 1..Len(batch)
  BY RowsTyped
<1>1. CASE CommitCancel(r)
  <2>1. CASE MissesPayment(p)
    BY <1>1, <2>1, SameUnchanged DEF CommitCancel, Throw
  <2>2. CASE ~MissesPayment(p)
    <3>1. batch' = [b \in DOMAIN batch |->
                      IF b \in BoughtWith(p.purchase) THEN Blocked(batch[b]) ELSE batch[b]]
      BY <1>1, <2>2 DEF CommitCancel
    <3>2. \A b \in DOMAIN batch : /\ Blocked(batch[b]).product = batch[b].product
                                  /\ Blocked(batch[b]).legacy = batch[b].legacy
                                  /\ Blocked(batch[b]).purchase = batch[b].purchase
      BY RowsTyped, BlockedTyped
    <3> QED
      BY <3>1, <3>2 DEF SameBatches
  <2> QED
    BY <2>1, <2>2
<1>2. CASE AdjustBatch(r)
  <2> PICK avail : avail = p.avail + p.qty
    OBVIOUS
  <2> PICK initial : initial = p.initial + Raised(p.qty)
    OBVIOUS
  <2> DEFINE row == [batch[p.ent] EXCEPT !.avail = avail, !.initial = initial,
                                         !.status = StatusFor(avail)]
  <2>1. p.pc = "adjust" /\ batch' = [batch EXCEPT ![p.ent] = row]
    BY <1>2 DEF AdjustBatch
  <2>2. p.ent \in DOMAIN batch
    BY <1>0, <2>1 DEF Holding, HoldsBatch
  <2>3. /\ row.product = batch[p.ent].product /\ row.legacy = batch[p.ent].legacy
        /\ row.purchase = batch[p.ent].purchase
    BY <2>2, RowsTyped DEF BatchRow
  <2> HIDE DEF row
  <2> QED
    BY <2>1, <2>2, <2>3, SameAfterSave
<1>3. CASE TakeBatch(r)
  <2> PICK b : b = Min({c \in BatchIds : p.plan[c] > 0})
    OBVIOUS
  <2> PICK n : n = Min({p.plan[b], p.qty})
    OBVIOUS
  <2> DEFINE row == [batch[b] EXCEPT !.avail = p.plan[b] - n, !.status = StatusFor(p.plan[b] - n)]
  <2>1. p.pc = "take" /\ batch' = [batch EXCEPT ![b] = row]
    BY <1>3 DEF TakeBatch
  <2>2. b \in DOMAIN batch
    BY <2>1, TakeTyped
  <2>3. /\ row.product = batch[b].product /\ row.legacy = batch[b].legacy
        /\ row.purchase = batch[b].purchase
    BY <2>2, RowsTyped DEF BatchRow
  <2> HIDE DEF row
  <2> QED
    BY <2>1, <2>2, <2>3, SameAfterSave
<1>4. CASE GiveBack(r)
  <2> DEFINE row == GivenBack(batch[p.ent], p.avail)
  <2>1. p.pc = "give" /\ batch' = [batch EXCEPT ![p.ent] = row]
    BY <1>4 DEF GiveBack
  <2>2. p.ent \in DOMAIN batch
    BY <1>0, <2>1 DEF Holding, HoldsBatch
  <2>3. /\ row.product = batch[p.ent].product /\ row.legacy = batch[p.ent].legacy
        /\ row.purchase = batch[p.ent].purchase
    BY <2>2, RowsTyped DEF GivenBack, BatchRow
  <2> HIDE DEF row
  <2> QED
    BY <2>1, <2>2, <2>3, SameAfterSave
<1> QED
  BY <1>1, <1>2, <1>3, <1>4

\* The expiry date of a batch goes by.
LEMMA ExpireKeeps ==
    ASSUME TypeInv, NEW b \in DOMAIN batch, Expire(b)
    PROVE  SameBatches
<1> DEFINE row == [batch[b] EXCEPT !.expires = "past"]
<1>1. batch' = [batch EXCEPT ![b] = row]
  BY DEF Expire
<1>2. /\ row.product = batch[b].product /\ row.legacy = batch[b].legacy
      /\ row.purchase = batch[b].purchase
  BY RowsTyped DEF BatchRow
<1> HIDE DEF row
<1> QED
  BY <1>1, <1>2, SameAfterSave

\* Purchases and entries add lots.
LEMMA LotsAdded ==
    ASSUME TypeInv, NEW r \in Requests,
           \/ \E u \in Purchases : CreatePurchase(r, u)
           \/ \E p \in Products, n \in Entries, dated \in BOOLEAN : BeginEntry(r, p, n, dated)
    PROVE  MoreLots
<1>1. Len(batch) \in Nat /\ DOMAIN batch = 1..Len(batch)
  BY RowsTyped
<1>2. ASSUME NEW n \in Nat
      PROVE  Cardinality(1..n) = n
  <2>1. 1 \in Int /\ n \in Int
    OBVIOUS
  <2>2. Cardinality(1..n) = IF 1 > n THEN 0 ELSE n - 1 + 1
    BY ONLY <2>1, FS_Interval
  <2> QED
    BY <2>2
<1>3. ASSUME NEW u \in Purchases, CreatePurchase(r, u)
      PROVE  MoreLots
  <2>1. Len(batch') = Len(batch) + Len(Lines[u]) /\ Len(Lines[u]) \in Nat /\ Len(batch') <= MaxBatches
    BY <1>3, LineTyped, CreateRows DEF CreatePurchase
  <2>2. Len(batch') \in Nat /\ DOMAIN batch' = 1..Len(batch')
    BY <1>1, <1>3, <2>1, CreateRows
  <2>3. Cardinality(DOMAIN batch') <= MaxBatches
    BY <1>2, <2>1, <2>2
  <2>4. /\ DOMAIN batch \subseteq DOMAIN batch'
        /\ \A b \in DOMAIN batch : batch'[b] = batch[b]
        /\ \A b \in DOMAIN batch' \ DOMAIN batch :
             \E i \in DOMAIN Lines[u] :
               batch'[b] = NewBatch(Lines[u][i].product, u, FALSE, Lines[u][i].dated, Lines[u][i].qty)
    BY <1>3, CreateRows
  <2>5. \A b \in DOMAIN batch' \ DOMAIN batch : ~batch'[b].legacy
    BY <2>4 DEF NewBatch
  <2> QED
    BY <2>3, <2>4, <2>5 DEF MoreLots
<1>4. ASSUME NEW p \in Products, NEW n \in Entries, NEW dated \in BOOLEAN, BeginEntry(r, p, n, dated)
      PROVE  MoreLots
  <2> DEFINE row == NewBatch(p, "none", FALSE, dated, n)
  <2>1. /\ batch' = Append(batch, row) /\ moved' = Append(moved, [sum |-> 0, raised |-> 0])
        /\ UNCHANGED <<purchase, payments, allocs>> /\ Len(batch) < MaxBatches
    BY <1>4 DEF BeginEntry
  <2>2. row \in BatchRow /\ ~row.legacy
    <3>1. "none" \in Purchases \cup {"none"} /\ FALSE \in BOOLEAN /\ n \in Int
      BY InputsTyped
    <3> QED
      BY <3>1, NewBatchType DEF NewBatch
  <2> HIDE DEF row
  <2>3. /\ Len(batch') = Len(batch) + 1 /\ DOMAIN batch' = 1..Len(batch) + 1
        /\ \A b \in DOMAIN batch : batch'[b] = batch[b]
        /\ batch'[Len(batch) + 1] = row
    BY <2>1, <2>2, AppendsBatch
  <2>4. Len(batch) + 1 \in Nat /\ Len(batch) + 1 <= MaxBatches
    BY <1>1, <2>1, StockroomAssumption
  <2>5. Cardinality(DOMAIN batch') <= MaxBatches
    BY <1>2, <2>3, <2>4
  <2>6. DOMAIN batch \subseteq DOMAIN batch' /\ DOMAIN batch' \ DOMAIN batch = {Len(batch) + 1}
    BY <1>1, <2>3
  <2> QED
    BY <2>2, <2>3, <2>5, <2>6 DEF MoreLots
<1> QED
  BY <1>3, <1>4

\* createLegacyBatchForProduct adds a LEGACY batch.
LEMMA LegacyAdded ==
    ASSUME TypeInv, NEW r \in Requests, InsertLegacy(r)
    PROVE  /\ MoreLegacy(req[r].product) /\ req[r].pc = "insert" /\ req[r].product \in Products
           /\ batch'[Len(batch) + 1] = NewBatch(req[r].product, "none", TRUE, FALSE, req[r].moving)
           /\ moved'[Len(batch) + 1] = [sum |-> 0, raised |-> 0]
           /\ \A b \in DOMAIN batch : moved'[b] = moved[b]
           /\ TablesOK' /\ UNCHANGED <<purchase, payments, allocs>>
<1> PICK p : p = req[r]
  OBVIOUS
<1> DEFINE n == p.moving
           row == NewBatch(p.product, "none", TRUE, FALSE, n)
<1>1. /\ p.pc = "insert" /\ batch' = Append(batch, row)
      /\ moved' = Append(moved, [sum |-> 0, raised |-> 0]) /\ UNCHANGED <<purchase, payments, allocs>>
  BY DEF InsertLegacy
<1>2. p.product \in Products /\ p.product \notin Perishable /\ n \in Int
  <2>1. Holding(p, Len(batch), Len(allocs))
    BY RowsTyped
  <2> QED
    BY <1>1, <2>1 DEF Holding, HoldsProduct, OpsAt
<1>3. row \in BatchRow /\ row.product = p.product /\ row.legacy
  <2>1. "none" \in Purchases \cup {"none"} /\ FALSE \in BOOLEAN /\ TRUE \in BOOLEAN
    OBVIOUS
  <2>2. row \in BatchRow
    BY <1>2, <2>1, NewBatchType
  <2> QED
    BY <2>2 DEF NewBatch
<1>4. row = NewBatch(req[r].product, "none", TRUE, FALSE, req[r].moving)
  OBVIOUS
<1> HIDE DEF row
<1>5. /\ TablesOK' /\ Len(batch') = Len(batch) + 1 /\ DOMAIN batch' = 1..Len(batch) + 1
      /\ \A b \in DOMAIN batch : batch'[b] = batch[b] /\ moved'[b] = moved[b]
      /\ batch'[Len(batch) + 1] = row /\ moved'[Len(batch) + 1] = [sum |-> 0, raised |-> 0]
  BY <1>1, <1>3, AppendsBatch
<1>6. DOMAIN batch' = DOMAIN batch \cup {Len(batch) + 1} /\ Len(batch) + 1 \notin DOMAIN batch
  BY <1>5, RowsTyped
<1> QED
  BY <1>1, <1>2, <1>3, <1>4, <1>5, <1>6 DEF MoreLegacy

-----------------------------------------------------------------------------
(* What the step of a request makes of its slot *)

\* What becomes of a request when its product has a LEGACY batch, or needs none.
LEMMA AfterLegacyIs ==
    ASSUME NEW q \in Request, NEW b, NEW next \in NextProduct(AfterLegacy(q, b))
    PROVE  /\ q.op = "adjust" => next = [q EXCEPT !.pc = "adjust", !.ent = b]
           /\ q.op = "consume" => next = [q EXCEPT !.pc = "plan"]
           /\ q.op = "backfill" =>
                \/ next = Idle
                \/ \E p \in q.todo : next = [q EXCEPT !.pc = "find", !.product = p, !.todo = @ \ {p}]
<1>1. CASE q.op = "adjust"
  <2> DEFINE s == [q EXCEPT !.pc = "adjust", !.ent = b]
  <2>1. AfterLegacy(q, b) = s
    BY <1>1 DEF AfterLegacy
  <2>2. s.op = q.op
    BY DEF Request
  <2> HIDE DEF s
  <2>3. next = s
    BY <1>1, <2>1, <2>2 DEF NextProduct
  <2> QED
    BY <1>1, <2>3 DEF s
<1>2. CASE q.op = "consume"
  <2> DEFINE s == [q EXCEPT !.pc = "plan"]
  <2>1. AfterLegacy(q, b) = s
    BY <1>2 DEF AfterLegacy
  <2>2. s.op = q.op
    BY DEF Request
  <2> HIDE DEF s
  <2>3. next = s
    BY <1>2, <2>1, <2>2 DEF NextProduct
  <2> QED
    BY <1>2, <2>3 DEF s
<1>3. CASE q.op = "backfill" /\ q.todo = {}
  <2>1. AfterLegacy(q, b) = Idle
    BY <1>3 DEF AfterLegacy
  <2> QED
    BY <1>3, <2>1, IdleTyped DEF NextProduct
<1>4. CASE q.op = "backfill" /\ q.todo # {}
  <2>1. AfterLegacy(q, b) = q
    BY <1>4 DEF AfterLegacy
  <2> QED
    BY <1>4, <2>1 DEF NextProduct
<1>5. CASE q.op \notin {"adjust", "consume", "backfill"}
  BY <1>5
<1> QED
  BY <1>1, <1>2, <1>3, <1>4, <1>5

\* It does not insert another LEGACY batch at once.
LEMMA AfterLegacyPc ==
    ASSUME NEW q \in Request, q.op \in {"adjust", "consume", "backfill"}, NEW b \in Nat,
           NEW next \in NextProduct(AfterLegacy(q, b))
    PROVE  next.pc \in {"adjust", "plan", "find", "idle"}
<1>1. CASE q.op = "adjust"
  <2>1. next = [q EXCEPT !.pc = "adjust", !.ent = b]
    BY <1>1, AfterLegacyIs
  <2> QED
    BY <2>1 DEF Request
<1>2. CASE q.op = "consume"
  <2>1. next = [q EXCEPT !.pc = "plan"]
    BY <1>2, AfterLegacyIs
  <2> QED
    BY <2>1 DEF Request
<1>3. CASE q.op = "backfill" /\ next = Idle
  BY <1>3, IdleTyped
<1>4. ASSUME NEW p \in q.todo, next = [q EXCEPT !.pc = "find", !.product = p, !.todo = @ \ {p}]
      PROVE  next.pc = "find"
  BY <1>4 DEF Request
<1> QED
  BY <1>1, <1>2, <1>3, <1>4, AfterLegacyIs

\* A slot that q comes to fill is about to insert a LEGACY batch only if the request
\* just found that its product has none.
Slot(r, q) ==
    /\ req' = [req EXCEPT ![r] = q]
    /\ q.pc = "insert" =>
         FindLegacy(r) /\ UNCHANGED batch /\ q.product = req[r].product /\ LegacyOf(q.product) = {}

\* A call that begins does not insert yet.
LEMMA BeginSlot ==
    ASSUME NEW r \in Requests, Begin(r)
    PROVE  \E q : Slot(r, q)
<1>1. CASE PurchasesController(r)
  <2>1. ASSUME NEW u \in Purchases, CreatePurchase(r, u)
        PROVE  Slot(r, Idle)
    BY <2>1, IdleTyped DEF CreatePurchase, Call, Slot
  <2>2. ASSUME NEW op, NEW u \in Purchases, NEW pc \in {"select", "load"}, NEW row,
               Call(r, Loaded(op, u, pc, row))
        PROVE  Slot(r, Loaded(op, u, pc, row))
    <3>1. Loaded(op, u, pc, row).pc = pc
      BY DEF Loaded, Idle
    <3> HIDE DEF Loaded
    <3> QED
      BY <2>2, <3>1 DEF Call, Slot
  <2>3. ASSUME NEW u \in Purchases, NEW amount \in Amounts, BeginPay(r, u, amount)
        PROVE  \E q : Slot(r, q)
    <3> DEFINE q == [Loaded("pay", u, "select", Paid(purchase[u], Total(u), amount))
                       EXCEPT !.qty = amount]
    <3>1. Call(r, q)
      BY <2>3 DEF BeginPay
    <3>2. q.pc = "select"
      BY DEF Loaded, Idle
    <3> HIDE DEF q
    <3> QED
      BY <3>1, <3>2 DEF Call, Slot
  <2> QED
    BY <1>1, <2>1, <2>2, <2>3 DEF PurchasesController, BeginUpdate, BeginCancel
<1>2. CASE InventoryController(r)
  <2>1. ASSUME NEW q, Call(r, q), q.pc \in {"move", "find"}
        PROVE  Slot(r, q)
    BY <2>1 DEF Call, Slot
  <2>2. ASSUME NEW p \in Products, NEW n \in Entries, NEW dated \in BOOLEAN, BeginEntry(r, p, n, dated)
        PROVE  \E q : Slot(r, q)
    <3> DEFINE q == [Idle EXCEPT !.op = "entry", !.pc = "move", !.ent = Len(batch) + 1, !.moving = n]
    <3>1. Call(r, q) /\ q.pc = "move"
      BY <2>2 DEF BeginEntry, Idle
    <3> QED
      BY <2>1, <3>1
  <2>3. ASSUME NEW p \in Products, NEW delta \in Deltas, BeginAdjust(r, p, delta)
        PROVE  \E q : Slot(r, q)
    <3> DEFINE q == [Idle EXCEPT !.op = "adjust", !.pc = "find", !.product = p, !.qty = delta,
                            !.next = CurrentStock(p) + delta]
    <3>1. Call(r, q) /\ q.pc = "find"
      BY <2>3 DEF BeginAdjust, Idle
    <3> QED
      BY <2>1, <3>1
  <2>4. ASSUME BeginBackfill(r)
        PROVE  \E q : Slot(r, q)
    <3>1. PICK p \in Products : Call(r, [Idle EXCEPT !.op = "backfill", !.pc = "find", !.product = p,
                              !.todo = Products \ {p}])
      BY <2>4 DEF BeginBackfill
    <3> DEFINE q == [Idle EXCEPT !.op = "backfill", !.pc = "find", !.product = p,
                              !.todo = Products \ {p}]
    <3>2. Call(r, q) /\ q.pc = "find"
      BY <3>1 DEF Idle
    <3> QED
      BY <2>1, <3>2
  <2> QED
    BY <1>2, <2>2, <2>3, <2>4 DEF InventoryController
<1>3. CASE Orders(r)
  <2>1. ASSUME NEW q, Call(r, q), q.pc \in {"plan", "find", "give"}
        PROVE  Slot(r, q)
    BY <2>1 DEF Call, Slot
  <2>2. ASSUME NEW p \in Products, NEW n \in Entries, BeginConsume(r, p, n)
        PROVE  \E q : Slot(r, q)
    <3> DEFINE q == [Idle EXCEPT !.op = "consume", !.product = p, !.qty = n,
                            !.pc = IF OnSale(p) = {} THEN "find" ELSE "plan"]
    <3>1. Call(r, q) /\ q.pc \in {"find", "plan"}
      BY <2>2 DEF BeginConsume, Idle
    <3> QED
      BY <2>1, <3>1
  <2>3. ASSUME NEW k \in DOMAIN allocs, BeginRestore(r, k)
        PROVE  \E q : Slot(r, q)
    <3> DEFINE q == [Idle EXCEPT !.op = "restore", !.pc = "give", !.alloc = k,
                            !.ent = allocs[k].batch, !.moving = allocs[k].qty,
                            !.avail = batch[allocs[k].batch].avail + allocs[k].qty]
    <3>1. Call(r, q) /\ q.pc = "give"
      BY <2>3 DEF BeginRestore, Idle
    <3> QED
      BY <2>1, <3>1
  <2> QED
    BY <1>3, <2>2, <2>3 DEF Orders
<1> QED
  BY <1>1, <1>2, <1>3 DEF Begin

\* Among the statements only the search for the LEGACY batch leads to its insertion.
LEMMA RunSlot ==
    ASSUME TypeInv, NEW r \in Requests, Run(r)
    PROVE  \E q : Slot(r, q)
<1> PICK p : p = req[r]
  OBVIOUS
<1>0. p \in Request /\ Holding(p, Len(batch), Len(allocs)) /\ Len(batch) \in Nat
  BY RowsTyped
<1>1. ASSUME NEW q, Goto(r, q), q.pc # "insert"
      PROVE  Slot(r, q)
  BY <1>1 DEF Goto, Slot
<1>2. ASSUME Goto(r, Idle)
      PROVE  Slot(r, Idle)
  BY <1>1, <1>2, IdleTyped
<1>3. CASE SelectPurchase(r)
  <2>1. CASE MissesPayment(p)
    BY <1>2, <1>3, <2>1 DEF SelectPurchase, Throw
  <2>2. CASE ~MissesPayment(p)
    <3> PICK cols : cols = {c \in Columns :
                    \/ c = "status" /\ p.row.status # purchase[p.purchase].status
                    \/ c = "paid" /\ p.row.paid # purchase[p.purchase].paid
                    \/ c = "balance" /\ p.row.balance # purchase[p.purchase].balance}
      OBVIOUS
    <3> DEFINE q == [p EXCEPT !.pc = "write", !.cols = cols]
    <3>1. Goto(r, q)
      BY <1>3, <2>2 DEF SelectPurchase
    <3>2. q.pc = "write"
      BY <1>0 DEF Request
    <3> HIDE DEF q
    <3> QED
      BY <1>1, <3>1, <3>2
  <2> QED
    BY <2>1, <2>2
<1>4. CASE WritePurchase(r)
  <2> DEFINE q == [p EXCEPT !.pc = "receipt", !.cols = {}]
  <2>1. Goto(r, q) \/ Goto(r, Idle)
    BY <1>4 DEF WritePurchase
  <2>2. q.pc = "receipt"
    BY <1>0 DEF Request
  <2> HIDE DEF q
  <2> QED
    BY <1>1, <1>2, <2>1, <2>2
<1>5. CASE InsertPayment(r) \/ InsertMovement(r) \/ MarkRestored(r)
  BY <1>2, <1>5 DEF InsertPayment, InsertMovement, MarkRestored
<1>6. CASE LoadBatches(r)
  <2> PICK plan : plan = [b \in BatchIds |-> IF b \in BoughtWith(p.purchase) /\ batch[b].avail > 0
                                             THEN batch[b].avail ELSE 0]
    OBVIOUS
  <2> DEFINE q == [p EXCEPT !.pc = "block", !.plan = plan]
  <2>1. Goto(r, q)
    BY <1>6 DEF LoadBatches
  <2>2. q.pc = "block"
    BY <1>0 DEF Request
  <2> HIDE DEF q
  <2> QED
    BY <1>1, <2>1, <2>2
<1>7. CASE CommitCancel(r)
  <2>1. Goto(r, Idle)
    BY <1>7 DEF CommitCancel, Throw
  <2> QED
    BY <1>2, <2>1
<1>8. CASE FindLegacy(r)
  <2> PICK stock : stock = Ledger(p.product)
    OBVIOUS
  <2>0. p.pc = "find" /\ p.op \in {"adjust", "consume", "backfill"}
    BY <1>0, <1>8 DEF FindLegacy, Holding, OpsAt
  <2>1. ASSUME NEW b \in FoundLegacy(p.product),
               NEW next \in NextProduct(AfterLegacy([p EXCEPT !.avail = batch[b].avail,
                                                     !.initial = batch[b].initial], b)),
               Goto(r, next)
        PROVE  \E q : Slot(r, q)
    <3> DEFINE s == [p EXCEPT !.avail = batch[b].avail, !.initial = batch[b].initial]
    <3>1. b \in DOMAIN batch /\ b \in Nat
      BY RowsTyped DEF FoundLegacy, LegacyOf, BatchesOf
    <3>2. batch[b].avail \in Int /\ batch[b].initial \in Int
      BY <3>1, RowsTyped DEF BatchRow
    <3>3. s \in Request /\ s.op = p.op
      BY <1>0, <3>2 DEF Request
    <3> HIDE DEF s
    <3>4. next \in NextProduct(AfterLegacy(s, b))
      BY <2>1 DEF s
    <3>5. next.pc # "insert"
      BY <2>0, <3>1, <3>3, <3>4, AfterLegacyPc
    <3> QED
      BY <1>1, <2>1, <3>5
  <2>2. ASSUME NEW next \in NextProduct(AfterLegacy(p, 0)), Goto(r, next)
        PROVE  \E q : Slot(r, q)
    <3>1. next.pc # "insert"
      BY <1>0, <2>0, AfterLegacyPc
    <3> QED
      BY <1>1, <2>2, <3>1
  <2>3. ASSUME Throw(r)
        PROVE  \E q : Slot(r, q)
    BY <1>2, <2>3 DEF Throw
  <2>4. ASSUME FoundLegacy(p.product) = {}, UNCHANGED batch,
               Goto(r, [p EXCEPT !.pc = "insert", !.moving = Max({0, stock})])
        PROVE  \E q : Slot(r, q)
    <3> DEFINE q == [p EXCEPT !.pc = "insert", !.moving = Max({0, stock})]
    <3>1. q.product = p.product /\ Goto(r, q)
      BY <1>0, <2>4 DEF Request
    <3> HIDE DEF q
    <3>2. LegacyOf(q.product) = {}
      BY <2>4, <3>1 DEF FoundLegacy
    <3> QED
      BY <1>8, <2>4, <3>1, <3>2 DEF Goto, Slot
  <2> QED
    BY <1>8, <2>1, <2>2, <2>3, <2>4 DEF FindLegacy
<1>9. CASE InsertLegacy(r)
  <2> DEFINE n == p.moving
             s == [p EXCEPT !.avail = n, !.initial = n, !.moving = 0]
  <2>0. p.pc = "insert" /\ p.op \in {"adjust", "consume", "backfill"} /\ n \in Nat
    BY <1>0, <1>9 DEF InsertLegacy, Holding, HoldsProduct, OpsAt
  <2>1. PICK next \in NextProduct(AfterLegacy(s, Len(batch) + 1)) : Goto(r, next)
    BY <1>9 DEF InsertLegacy
  <2>2. n \in Int /\ 0 \in Int /\ Len(batch) + 1 \in Nat
    BY <1>0, <2>0
  <2>3. s \in Request /\ s.op = p.op
    BY <1>0, <2>2 DEF Request
  <2> HIDE DEF s
  <2>4. next.pc # "insert"
    BY <2>0, <2>1, <2>2, <2>3, AfterLegacyPc
  <2> QED
    BY <1>1, <2>1, <2>4
<1>10. CASE AdjustBatch(r)
  <2> DEFINE q == [p EXCEPT !.pc = "move", !.moving = p.qty]
  <2>1. Goto(r, q)
    BY <1>10 DEF AdjustBatch
  <2>2. q.pc = "move"
    BY <1>0 DEF Request
  <2> HIDE DEF q
  <2> QED
    BY <1>1, <2>1, <2>2
<1>11. CASE ReadCandidates(r)
  <2>1. CASE Throw(r)
    BY <1>2, <2>1 DEF Throw
  <2>2. CASE ~Throw(r)
    <3> PICK plan : plan = [b \in BatchIds |-> IF b \in Usable(p.product) THEN batch[b].avail ELSE 0]
      OBVIOUS
    <3> DEFINE q == [p EXCEPT !.pc = "take", !.plan = plan]
    <3>1. Goto(r, q)
      BY <1>11, <2>2 DEF ReadCandidates
    <3>2. q.pc = "take"
      BY <1>0 DEF Request
    <3> HIDE DEF q
    <3> QED
      BY <1>1, <3>1, <3>2
  <2> QED
    BY <2>1, <2>2
<1>12. CASE TakeBatch(r)
  <2> PICK b : b = Min({c \in BatchIds : p.plan[c] > 0})
    OBVIOUS
  <2> PICK n : n = Min({p.plan[b], p.qty})
    OBVIOUS
  <2> DEFINE q == [p EXCEPT !.pc = "alloc", !.ent = b, !.moving = n, !.qty = @ - n, !.plan[b] = 0]
  <2>1. Goto(r, q)
    BY <1>12 DEF TakeBatch
  <2>2. q.pc = "alloc"
    BY <1>0 DEF Request
  <2> HIDE DEF q
  <2> QED
    BY <1>1, <2>1, <2>2
<1>13. CASE InsertAllocation(r)
  <2> DEFINE q == [p EXCEPT !.pc = "take"]
  <2>1. Goto(r, q) \/ Goto(r, Idle)
    BY <1>13 DEF InsertAllocation
  <2>2. q.pc = "take"
    BY <1>0 DEF Request
  <2> HIDE DEF q
  <2> QED
    BY <1>1, <1>2, <2>1, <2>2
<1>14. CASE GiveBack(r)
  <2> DEFINE q == [p EXCEPT !.pc = "mark"]
  <2>1. Goto(r, q)
    BY <1>14 DEF GiveBack
  <2>2. q.pc = "mark"
    BY <1>0 DEF Request
  <2> HIDE DEF q
  <2> QED
    BY <1>1, <2>1, <2>2
<1> QED
  BY <1>3, <1>4, <1>5, <1>6, <1>7, <1>8, <1>9, <1>10, <1>11, <1>12, <1>13, <1>14 DEF Run

\* A request that dies leaves its slot.
LEMMA DieSlot ==
    ASSUME NEW r \in Requests, Die(r)
    PROVE  Slot(r, Idle)
  BY IdleTyped DEF Die, Throw, Goto, Slot

\* What the steps of calls and requests do to the batches.
LEMMA StepKinds ==
    ASSUME TypeInv, NEW r \in Requests, Begin(r) \/ Run(r) \/ Die(r)
    PROVE  \/ SameBatches \/ MoreLots
           \/ InsertLegacy(r) /\ MoreLegacy(req[r].product) /\ req[r].pc = "insert"
<1>1. CASE Begin(r)
  <2>1. CASE PurchasesController(r)
    BY <2>1, LotsAdded, SameUnchanged
    DEF PurchasesController, BeginUpdate, BeginCancel, BeginPay
  <2>2. CASE InventoryController(r)
    BY <2>2, LotsAdded, SameUnchanged DEF InventoryController, BeginAdjust, BeginBackfill
  <2>3. CASE Orders(r)
    BY <2>3, SameUnchanged DEF Orders, BeginConsume, BeginRestore
  <2> QED
    BY <1>1, <2>1, <2>2, <2>3 DEF Begin
<1>2. CASE CommitCancel(r) \/ AdjustBatch(r) \/ TakeBatch(r) \/ GiveBack(r)
  BY <1>2, SavesKeep
<1>3. CASE InsertLegacy(r)
  BY <1>3, LegacyAdded
<1>4. CASE SelectPurchase(r) \/ WritePurchase(r) \/ InsertPayment(r)
  BY <1>4, SameUnchanged DEF SelectPurchase, WritePurchase, InsertPayment, Throw
<1>5. CASE LoadBatches(r) \/ FindLegacy(r) \/ InsertMovement(r)
  BY <1>5, SameUnchanged DEF LoadBatches, FindLegacy, InsertMovement, Throw
<1>6. CASE ReadCandidates(r) \/ InsertAllocation(r) \/ MarkRestored(r)
  BY <1>6, SameUnchanged DEF ReadCandidates, InsertAllocation, MarkRestored, Throw
<1>7. CASE Die(r)
  BY <1>7, SameUnchanged DEF Die, Throw
<1> QED
  BY <1>1, <1>2, <1>3, <1>4, <1>5, <1>6, <1>7 DEF Run

\* The sets that RoomInv counts are finite.
LEMMA RoomFinite ==
    ASSUME TypeInv, NEW p
    PROVE  /\ IsFiniteSet(LegacyOf(p)) /\ IsFiniteSet(Inserting(p)) /\ IsFiniteSet(DOMAIN batch)
           /\ Cardinality(LegacyOf(p)) \in Nat /\ Cardinality(Inserting(p)) \in Nat
           /\ Cardinality(Inserting(p)) <= Cardinality(Requests) /\ Cardinality(Requests) \in Nat
<1>1. IsFiniteSet(Requests)
  BY StockroomAssumption
<1>2. IsFiniteSet(DOMAIN batch)
  <2>1. DOMAIN batch = 1..Len(batch) /\ 1 \in Int /\ Len(batch) \in Int
    BY RowsTyped
  <2>2. IsFiniteSet(1..Len(batch))
    BY ONLY <2>1, FS_Interval
  <2> QED
    BY <2>1, <2>2
<1>3. LegacyOf(p) \in SUBSET DOMAIN batch /\ Inserting(p) \in SUBSET Requests
  BY DEF LegacyOf, BatchesOf, Inserting
<1>4. /\ IsFiniteSet(LegacyOf(p)) /\ IsFiniteSet(Inserting(p))
      /\ Cardinality(Inserting(p)) <= Cardinality(Requests)
  BY <1>1, <1>2, <1>3, FS_Subset
<1> QED
  BY <1>1, <1>2, <1>4, FS_CardinalityType

\* A step that adds no LEGACY batch: a request comes to insert one only of a product
\* that has none.
LEMMA RoomWithoutLegacy ==
    ASSUME TypeInv, RoomInv, NEW r \in Requests, NEW q, Slot(r, q), NEW p \in Products,
           LegacyOf(p)' = LegacyOf(p)
    PROVE  Cardinality(LegacyOf(p)') + Cardinality(Inserting(p)') <= Cardinality(Requests)
<1> DEFINE before == Inserting(p)
           after == Inserting(p)'
<1>0. /\ IsFiniteSet(LegacyOf(p)) /\ IsFiniteSet(before) /\ Cardinality(LegacyOf(p)) \in Nat
      /\ Cardinality(before) \in Nat /\ Cardinality(Requests) \in Nat /\ IsFiniteSet(Requests)
  BY RoomFinite, StockroomAssumption
<1>1. after \in SUBSET Requests
  BY DEF Inserting
<1>2. IsFiniteSet(after) /\ Cardinality(after) <= Cardinality(Requests)
  BY <1>0, <1>1, FS_Subset
<1>3. Cardinality(after) \in Nat
  BY <1>2, FS_CardinalityType
<1>4. CASE LegacyOf(p) = {}
  <2>1. Cardinality(LegacyOf(p)') = 0
    BY <1>4, FS_EmptySet
  <2> HIDE DEF after
  <2>2. 0 + Cardinality(after) <= Cardinality(Requests)
    BY <1>2, <1>3
  <2> QED
    BY <2>1, <2>2 DEF after
<1>5. CASE LegacyOf(p) # {}
  <2>1. after \subseteq before
    BY <1>5 DEF Inserting, Slot, TypeInv, RequestsHold
  <2> HIDE DEF after, before
  <2>2. Cardinality(after) <= Cardinality(before)
    BY <1>0, <2>1, FS_Subset
  <2>3. Cardinality(LegacyOf(p)) + Cardinality(before) <= Cardinality(Requests)
    BY DEF RoomInv, before
  <2>4. Cardinality(LegacyOf(p)) + Cardinality(after) <= Cardinality(Requests)
    BY <1>0, <1>3, <2>2, <2>3
  <2> QED
    BY <2>4 DEF after
<1> QED
  BY <1>4, <1>5

\* The steps of calls and requests keep the room that the ids leave.
LEMMA StepRoom ==
    ASSUME TypeInv, RoomInv, NEW r \in Requests, Begin(r) \/ Run(r) \/ Die(r)
    PROVE  RoomInv'
<1>0. DOMAIN batch = 1..Len(batch) /\ Len(batch) \in Nat
  BY RowsTyped
<1>1. PICK q : Slot(r, q)
  BY BeginSlot, RunSlot, DieSlot
<1>2. CASE SameBatches
  <2>1. ASSUME NEW p \in Products
        PROVE  LegacyOf(p)' = LegacyOf(p)
    BY <1>2 DEF SameBatches, LegacyOf, BatchesOf
  <2>2. (DOMAIN batch \ Legacy)' = DOMAIN batch \ Legacy
    BY <1>2 DEF SameBatches, Legacy
  <2>3. \A p \in Products : Cardinality(LegacyOf(p)') + Cardinality(Inserting(p)') <= Cardinality(Requests)
    BY <1>1, <2>1, RoomWithoutLegacy
  <2> QED
    BY <2>2, <2>3 DEF RoomInv
<1>3. CASE MoreLots
  <2>1. ASSUME NEW p \in Products
        PROVE  LegacyOf(p)' = LegacyOf(p)
    BY <1>3 DEF MoreLots, LegacyOf, BatchesOf
  <2> DEFINE rest == (DOMAIN batch \ Legacy)'
  <2>2. rest \in SUBSET DOMAIN batch'
    OBVIOUS
  <2>3. IsFiniteSet(DOMAIN batch')
    <3>1. TypeInv'
      BY <1>1, <1>3, RoomFits, BeginTypes, RunTypes, DieTypes
    <3>2. DOMAIN batch' = 1..Len(batch') /\ 1 \in Int /\ Len(batch') \in Int
      BY <3>1 DEF TypeInv, TablesOK
    <3>3. IsFiniteSet(1..Len(batch'))
      BY ONLY <3>2, FS_Interval
    <3> QED
      BY <3>2, <3>3
  <2> HIDE DEF rest
  <2>4. IsFiniteSet(rest) /\ Cardinality(rest) <= Cardinality(DOMAIN batch')
    BY <2>2, <2>3, FS_Subset
  <2>5. Cardinality(rest) \in Nat /\ Cardinality(DOMAIN batch') \in Nat /\ MaxBatches \in Nat
    BY <2>3, <2>4, FS_CardinalityType, StockroomAssumption
  <2>6. Cardinality(rest) <= MaxBatches
    BY <1>3, <2>4, <2>5 DEF MoreLots
  <2>7. \A p \in Products : Cardinality(LegacyOf(p)') + Cardinality(Inserting(p)') <= Cardinality(Requests)
    BY <1>1, <2>1, RoomWithoutLegacy
  <2> QED
    BY <2>6, <2>7 DEF RoomInv, rest
<1>4. ASSUME InsertLegacy(r), MoreLegacy(req[r].product), req[r].pc = "insert"
      PROVE  RoomInv'
  <2> DEFINE b == Len(batch) + 1
             one == req[r].product
  <2>1. q.pc # "insert"
    BY <1>1, <1>4 DEF Slot, FindLegacy
  <2>2. (DOMAIN batch \ Legacy)' = DOMAIN batch \ Legacy
    BY <1>4 DEF MoreLegacy, Legacy
  <2>3. ASSUME NEW p \in Products, p # one
        PROVE  LegacyOf(p)' = LegacyOf(p)
    BY <1>4, <2>3 DEF MoreLegacy, LegacyOf, BatchesOf
  <2>4. ASSUME NEW p \in Products, p = one
        PROVE  Cardinality(LegacyOf(p)') + Cardinality(Inserting(p)') <= Cardinality(Requests)
    <3>1. LegacyOf(p)' = LegacyOf(p) \cup {b} /\ b \notin LegacyOf(p)
      BY <1>4, <2>4 DEF MoreLegacy, LegacyOf, BatchesOf
    <3>2. Inserting(p)' = Inserting(p) \ {r} /\ r \in Inserting(p)
      BY <1>1, <1>4, <2>1, <2>4 DEF Inserting, Slot, TypeInv, RequestsHold
    <3>3. /\ IsFiniteSet(LegacyOf(p)) /\ IsFiniteSet(Inserting(p))
          /\ Cardinality(LegacyOf(p)) \in Nat /\ Cardinality(Inserting(p)) \in Nat
          /\ Cardinality(LegacyOf(p)) + Cardinality(Inserting(p)) <= Cardinality(Requests)
      BY RoomFinite DEF RoomInv
    <3> HIDE DEF b, one
    <3>4. Cardinality(LegacyOf(p) \cup {b}) = Cardinality(LegacyOf(p)) + 1
      BY <3>1, <3>3, FS_AddElement
    <3>5. Cardinality(Inserting(p) \ {r}) = Cardinality(Inserting(p)) - 1
      BY <3>2, <3>3, FS_RemoveElement
    <3> QED
      BY <3>1, <3>2, <3>3, <3>4, <3>5
  <2>5. \A p \in Products : Cardinality(LegacyOf(p)') + Cardinality(Inserting(p)') <= Cardinality(Requests)
    BY <1>1, <2>3, <2>4, RoomWithoutLegacy
  <2> QED
    BY <2>2, <2>5 DEF RoomInv
<1> QED
  BY <1>2, <1>3, <1>4, StepKinds

\* Every step keeps the types and the room.
LEMMA NextTypes ==
    ASSUME TypeInv, RoomInv, [Next]_vars
    PROVE  TypeInv' /\ RoomInv'
<1>1. CASE UNCHANGED vars
  <2>1. TypeInv'
    BY <1>1 DEF vars, TypeInv, TablesOK, UsedOK, RequestsHold
  <2>2. RoomInv'
    BY <1>1 DEF vars, RoomInv, LegacyOf, BatchesOf, Inserting, Legacy
  <2> QED
    BY <2>1, <2>2
<1>2. ASSUME NEW b \in DOMAIN batch, Expire(b)
      PROVE  TypeInv' /\ RoomInv'
  <2>1. SameBatches /\ UNCHANGED req
    BY <1>2, ExpireKeeps DEF Expire
  <2>2. /\ \A p \in Products : LegacyOf(p)' = LegacyOf(p) /\ Inserting(p)' = Inserting(p)
        /\ (DOMAIN batch \ Legacy)' = DOMAIN batch \ Legacy
    BY <2>1 DEF SameBatches, LegacyOf, BatchesOf, Inserting, Legacy
  <2>3. RoomInv'
    BY <2>2 DEF RoomInv
  <2> QED
    BY <1>2, <2>3, ExpireTypes
<1>3. ASSUME NEW r \in Requests, Begin(r) \/ Run(r) \/ Die(r)
      PROVE  TypeInv' /\ RoomInv'
  BY <1>3, RoomFits, BeginTypes, RunTypes, DieTypes, StepRoom
<1> QED
  BY <1>1, <1>2, <1>3 DEF Next

\* Nothing is bought, stored or running at first.
LEMMA InitTypes == Init => TypeInv /\ RoomInv
<1> SUFFICES ASSUME Init
             PROVE  TypeInv /\ RoomInv
  OBVIOUS
<1>1. UsedOK
  BY StockroomAssumption DEF Init, UsedOK
<1>2. NoPurchase \in PurchaseRow
  BY DEF NoPurchase, PurchaseRow, PurchaseStatus
<1>3. TablesOK
  BY <1>2 DEF Init, TablesOK
<1>4. RequestsHold
  BY IdleTyped, IdleHolds DEF Init, RequestsHold
<1>5. \A p \in Products : LegacyOf(p) = {} /\ Inserting(p) = {}
  BY IdleTyped DEF Init, LegacyOf, BatchesOf, Inserting
<1>6. DOMAIN batch \ Legacy = {}
  BY DEF Init
<1>7. Cardinality({}) = 0 /\ Cardinality(Requests) \in Nat /\ MaxBatches \in Nat
  BY FS_EmptySet, FS_CardinalityType, StockroomAssumption
<1>8. RoomInv
  BY <1>5, <1>6, <1>7 DEF RoomInv
<1> QED
  BY <1>1, <1>3, <1>4, <1>8 DEF TypeInv

\* The invariant holds in every behaviour.
LEMMA TypesAlways == Spec => [](TypeInv /\ RoomInv)
  BY InitTypes, NextTypes, PTL DEF Spec

\* The tables and the handlers' variables have their types however requests overlap and
\* die: among others, no more LEGACY batches are inserted than the requests that look
\* for one account for, and the units that consumeStock plans to take exist.
THEOREM TypesHold == Spec => []TypeOK
<1>1. TypeInv /\ RoomInv => TypeOK
  BY RoomFits DEF TypeInv, TablesOK, UsedOK, RequestsHold, TypeOK
<1> QED
  BY <1>1, TypesAlways, PTL

-----------------------------------------------------------------------------
(* Requests that do not overlap *)

\* While no request overlaps another one, one slot at most is taken.
AloneInv == Serial => \A r, s \in Requests : Running(r) /\ Running(s) => r = s
\* Then a product has one LEGACY batch, and none while a request is about to insert it.
LegacyInv ==
    Serial =>
      /\ \A a, b \in DOMAIN batch :
           batch[a].legacy /\ batch[b].legacy /\ batch[a].product = batch[b].product => a = b
      /\ \A r \in Requests, p \in Products :
           req[r].pc = "insert" /\ req[r].product = p => LegacyOf(p) = {}

\* A step changes one slot.
LEMMA StepSlot ==
    ASSUME TypeInv, NEW r \in Requests, Begin(r) \/ (Running(r) /\ Run(r)) \/ Die(r)
    PROVE  \E q : Slot(r, q)
  BY BeginSlot, RunSlot, DieSlot

\* The step that keeps requests from overlapping is the only request's.
LEMMA OnlyOne ==
    ASSUME TypeInv, AloneInv, NEW r \in Requests, Begin(r) \/ (Running(r) /\ Run(r)) \/ Die(r),
           Serial'
    PROVE  Serial /\ \A s \in Requests : s # r => req[s] = Idle /\ req'[s] = Idle
<1>1. PICK q : req' = [req EXCEPT ![r] = q]
  BY StepSlot DEF Slot
<1>2. \A s \in Requests : s # r => req'[s] = req[s]
  BY <1>1 DEF TypeInv, RequestsHold
<1>3. CASE Begin(r)
  <2>1. used.overlaps \in Nat /\ used'.overlaps = IF Overlaps(r) THEN used.overlaps + 1 ELSE used.overlaps
    <3>1. \E k : Call(r, k)
      BY <1>3
      DEF Begin, PurchasesController, InventoryController, Orders, CreatePurchase, BeginUpdate,
          BeginCancel, BeginPay, BeginEntry, BeginAdjust, BeginBackfill, BeginConsume, BeginRestore
    <3>2. used' = [used EXCEPT !.calls = @ + 1, !.overlaps = IF Overlaps(r) THEN @ + 1 ELSE @]
      BY <3>1 DEF Call
    <3> QED
      BY <3>2, RowsTyped DEF TypeInv, UsedOK
  <2>2. ~Overlaps(r) /\ Serial
    BY <2>1 DEF Serial
  <2> QED
    BY <1>2, <2>2 DEF Overlaps, Running
<1>4. CASE Running(r) /\ (Run(r) \/ Die(r))
  <2>1. used'.overlaps = used.overlaps
    <3>1. CASE Run(r)
      BY <3>1
      DEF Run, SelectPurchase, WritePurchase, InsertPayment, LoadBatches, CommitCancel, FindLegacy,
          InsertLegacy, AdjustBatch, InsertMovement, ReadCandidates, TakeBatch, InsertAllocation,
          GiveBack, MarkRestored
    <3>2. CASE Die(r)
      BY <3>2 DEF Die, TypeInv, UsedOK
    <3> QED
      BY <1>4, <3>1, <3>2
  <2>2. Serial
    BY <2>1 DEF Serial
  <2> QED
    BY <1>2, <1>4, <2>2 DEF AloneInv, Running
<1> QED
  BY <1>3, <1>4 DEF Die

\* Slots.
LEMMA StepAlone ==
    ASSUME TypeInv, AloneInv, NEW r \in Requests, Begin(r) \/ (Running(r) /\ Run(r)) \/ Die(r)
    PROVE  AloneInv'
  BY OnlyOne DEF AloneInv, Running

\* LEGACY batches.
LEMMA StepLegacy ==
    ASSUME TypeInv, AloneInv, LegacyInv, NEW r \in Requests,
           Begin(r) \/ (Running(r) /\ Run(r)) \/ Die(r)
    PROVE  LegacyInv'
<1> SUFFICES ASSUME Serial'
             PROVE  /\ \A a, b \in DOMAIN batch' :
                         batch'[a].legacy /\ batch'[b].legacy /\ batch'[a].product = batch'[b].product
                           => a = b
                    /\ \A s \in Requests, p \in Products :
                         req'[s].pc = "insert" /\ req'[s].product = p => LegacyOf(p)' = {}
  BY DEF LegacyInv
<1>1. Serial /\ \A s \in Requests : s # r => req[s] = Idle /\ req'[s] = Idle
  BY OnlyOne
<1>2. PICK q : Slot(r, q)
  BY StepSlot
<1>3. req'[r] = q /\ \A s \in Requests : s # r => req'[s].pc # "insert"
  BY <1>1, <1>2, IdleTyped DEF Slot, TypeInv, RequestsHold
<1>4. \A a, b \in DOMAIN batch :
        batch[a].legacy /\ batch[b].legacy /\ batch[a].product = batch[b].product => a = b
  BY <1>1 DEF LegacyInv
<1>5. \A p \in Products : q.pc = "insert" /\ q.product = p => LegacyOf(p)' = {}
  BY <1>2 DEF Slot, LegacyOf, BatchesOf
<1>6. \A s \in Requests, p \in Products :
        req'[s].pc = "insert" /\ req'[s].product = p => LegacyOf(p)' = {}
  BY <1>3, <1>5
<1>7. CASE SameBatches
  BY <1>4, <1>6, <1>7 DEF SameBatches
<1>8. CASE MoreLots
  BY <1>4, <1>6, <1>8 DEF MoreLots
<1>9. ASSUME MoreLegacy(req[r].product), req[r].pc = "insert"
      PROVE  \A a, b \in DOMAIN batch' :
               batch'[a].legacy /\ batch'[b].legacy /\ batch'[a].product = batch'[b].product => a = b
  <2>0. req[r].product \in Products
    <3>1. Holding(req[r], Len(batch), Len(allocs))
      BY RowsTyped
    <3> QED
      BY <1>9, <3>1 DEF Holding, HoldsProduct, OpsAt
  <2>1. LegacyOf(req[r].product) = {}
    BY <1>1, <1>9, <2>0 DEF LegacyInv
  <2>2. \A a \in DOMAIN batch : ~(batch[a].legacy /\ batch[a].product = req[r].product)
    BY <2>1 DEF LegacyOf, BatchesOf
  <2> QED
    BY <1>4, <1>9, <2>2 DEF MoreLegacy
<1> QED
  BY <1>6, <1>7, <1>8, <1>9, StepKinds

\* Every step.
LEMMA NextLegacy ==
    ASSUME TypeInv, RoomInv, AloneInv, LegacyInv, [Next]_vars
    PROVE  TypeInv' /\ RoomInv' /\ AloneInv' /\ LegacyInv'
<1>0. TypeInv' /\ RoomInv'
  BY NextTypes
<1>1. CASE UNCHANGED vars
  BY <1>0, <1>1 DEF vars, AloneInv, LegacyInv, Serial, Running, LegacyOf, BatchesOf
<1>2. ASSUME NEW b \in DOMAIN batch, Expire(b)
      PROVE  AloneInv' /\ LegacyInv'
  <2>1. SameBatches /\ UNCHANGED <<req, used>>
    BY <1>2, ExpireKeeps DEF Expire
  <2>2. \A p : LegacyOf(p)' = LegacyOf(p)
    BY <2>1 DEF SameBatches, LegacyOf, BatchesOf
  <2>3. AloneInv'
    BY <2>1 DEF AloneInv, Serial, Running
  <2>4. LegacyInv'
    BY <2>1, <2>2 DEF LegacyInv, Serial, SameBatches
  <2> QED
    BY <2>3, <2>4
<1>3. ASSUME NEW r \in Requests, Begin(r) \/ (Running(r) /\ Run(r)) \/ Die(r)
      PROVE  AloneInv' /\ LegacyInv'
  BY <1>3, StepAlone, StepLegacy
<1> QED
  BY <1>0, <1>1, <1>2, <1>3 DEF Next

\* In every behaviour.
LEMMA LegacyAlways == Spec => [](TypeInv /\ RoomInv /\ AloneInv /\ LegacyInv)
<1>1. Init => AloneInv /\ LegacyInv
  BY IdleTyped DEF Init, AloneInv, LegacyInv, Running
<1> QED
  BY <1>1, InitTypes, NextLegacy, PTL DEF Spec

\* When requests do not overlap a product has one LEGACY batch at most: the request looks
\* before it inserts and nobody inserts in between.
THEOREM LegacyHolds == Spec => []OneLegacyBatch
<1>1. TypeInv /\ LegacyInv => OneLegacyBatch
  <2> SUFFICES ASSUME TypeInv, LegacyInv, Serial, NEW p \in Products
               PROVE  Cardinality(LegacyOf(p)) <= 1
    BY DEF OneLegacyBatch
  <2>1. CASE LegacyOf(p) = {}
    BY <2>1, FS_EmptySet
  <2>2. CASE LegacyOf(p) # {}
    <3>1. PICK a \in LegacyOf(p) : TRUE
      BY <2>2
    <3>2. LegacyOf(p) = {a}
      BY <3>1 DEF LegacyInv, LegacyOf, BatchesOf
    <3> QED
      BY <3>2, FS_Singleton
  <2> QED
    BY <2>1, <2>2
<1> QED
  BY <1>1, LegacyAlways, PTL

-----------------------------------------------------------------------------
(* The fields of the request that a call starts *)

UpdateStarts(q) ==
    /\ q.op = "update" /\ q.pc = "select" /\ q.purchase \in Purchases /\ Editable(q.purchase)
    /\ q.row = purchase[q.purchase] /\ q.seen = Len(payments[q.purchase])
PayStarts(q) ==
    /\ q.op = "pay" /\ q.pc = "select" /\ q.purchase \in Purchases /\ Editable(q.purchase)
    /\ q.qty \in Amounts /\ q.qty <= purchase[q.purchase].balance
    /\ q.row = Paid(purchase[q.purchase], Total(q.purchase), q.qty)
    /\ q.seen = Len(payments[q.purchase])
CancelStarts(q) ==
    /\ q.op = "cancel" /\ q.pc = "load" /\ q.purchase \in Purchases /\ Editable(q.purchase)
    /\ q.row = [purchase[q.purchase] EXCEPT !.status = "CANCELLED", !.balance = 0]
    /\ q.seen = Len(payments[q.purchase]) /\ CanCancel(q.purchase)
FindStarts(q) ==
    /\ q.op \in {"adjust", "backfill"} /\ q.pc = "find"
    /\ q.op = "adjust" => Affordable(q.product, q.qty)
ConsumeStarts(q) ==
    /\ q.op = "consume" /\ q.pc \in {"find", "plan"} /\ q.qty \in Entries /\ q.plan = NoPlan
    /\ CurrentStock(q.product) >= q.qty
RestoreStarts(q) ==
    /\ q.op = "restore" /\ q.pc = "give" /\ q.alloc \in DOMAIN allocs /\ ~allocs[q.alloc].restored
    /\ q.ent = allocs[q.alloc].batch /\ q.moving = allocs[q.alloc].qty
    /\ q.avail = batch[q.ent].avail + q.moving
Reading == UNCHANGED <<purchase, payments, batch, moved, allocs>>

\* What a purchase or an entry writes at once.
Writing(r, q) ==
    \/ q = Idle /\ \E u \in Purchases : CreatePurchase(r, u)
    \/ /\ q.op = "entry" /\ q.pc = "move" /\ q.ent = Len(batch) + 1 /\ q.moving \in Entries
       /\ \E p \in Products, dated \in BOOLEAN :
            ~NeedsDate(p, dated) /\ batch' = Append(batch, NewBatch(p, "none", FALSE, dated, q.moving))
       /\ moved' = Append(moved, [sum |-> 0, raised |-> 0])
       /\ UNCHANGED <<purchase, payments, allocs>>

\* The calls.
LEMMA BeginIs ==
    ASSUME TypeInv, NEW r \in Requests, Begin(r)
    PROVE  /\ req[r] = Idle /\ used'.faults = used.faults
           /\ \E q : /\ req' = [req EXCEPT ![r] = q] /\ q.cols = {}
                     /\ \/ Writing(r, q)
                        \/ /\ Reading
                           /\ \/ UpdateStarts(q) \/ PayStarts(q) \/ CancelStarts(q)
                              \/ FindStarts(q) \/ ConsumeStarts(q) \/ RestoreStarts(q)
<1>1. ASSUME NEW q, Call(r, q)
      PROVE  req' = [req EXCEPT ![r] = q] /\ used'.faults = used.faults
  BY <1>1 DEF Call, TypeInv, UsedOK
<1>2. ASSUME NEW u \in Purchases, NEW op, NEW pc, NEW row,
             NEW q, q = Loaded(op, u, pc, row)
      PROVE  /\ q.op = op /\ q.pc = pc /\ q.purchase = u /\ q.row = row /\ q.cols = {}
             /\ q.seen = Len(payments[u])
  BY <1>2 DEF Loaded, Idle
<1>3. ASSUME PurchasesController(r)
      PROVE  \E q : /\ Call(r, q) /\ q.cols = {}
                    /\ \/ Writing(r, q)
                       \/ Reading /\ (UpdateStarts(q) \/ PayStarts(q) \/ CancelStarts(q))
  <2>1. ASSUME NEW u \in Purchases, CreatePurchase(r, u)
        PROVE  Call(r, Idle) /\ Idle.cols = {} /\ Writing(r, Idle)
    BY <2>1, IdleTyped DEF CreatePurchase, Writing
  <2>2. ASSUME NEW u \in Purchases, BeginUpdate(r, u)
        PROVE  \E q : Call(r, q) /\ q.cols = {} /\ Reading /\ UpdateStarts(q)
    <3> DEFINE q == Loaded("update", u, "select", purchase[u])
    <3>1. Call(r, q) /\ Editable(u) /\ Reading
      BY <2>2 DEF BeginUpdate, Reading
    <3>2. /\ q.op = "update" /\ q.pc = "select" /\ q.purchase = u /\ q.row = purchase[u]
          /\ q.cols = {} /\ q.seen = Len(payments[u])
      BY <1>2
    <3> HIDE DEF q
    <3> QED
      BY <3>1, <3>2 DEF UpdateStarts
  <2>3. ASSUME NEW u \in Purchases, BeginCancel(r, u)
        PROVE  \E q : Call(r, q) /\ q.cols = {} /\ Reading /\ CancelStarts(q)
    <3> DEFINE row == [purchase[u] EXCEPT !.status = "CANCELLED", !.balance = 0]
               q == Loaded("cancel", u, "load", row)
    <3>1. Call(r, q) /\ Editable(u) /\ CanCancel(u) /\ Reading
      BY <2>3 DEF BeginCancel, Reading
    <3>2. /\ q.op = "cancel" /\ q.pc = "load" /\ q.purchase = u /\ q.row = row
          /\ q.cols = {} /\ q.seen = Len(payments[u])
      BY <1>2
    <3> HIDE DEF q
    <3> QED
      BY <3>1, <3>2 DEF CancelStarts
  <2>4. ASSUME NEW u \in Purchases, NEW amount \in Amounts, BeginPay(r, u, amount)
        PROVE  \E q : Call(r, q) /\ q.cols = {} /\ Reading /\ PayStarts(q)
    <3> PICK row : row = Paid(purchase[u], Total(u), amount)
      OBVIOUS
    <3> DEFINE q == [Loaded("pay", u, "select", row) EXCEPT !.qty = amount]
    <3>1. Call(r, q) /\ Editable(u) /\ amount <= purchase[u].balance /\ Reading
      BY <2>4 DEF BeginPay, MayPay, Reading
    <3>2. /\ q.op = "pay" /\ q.pc = "select" /\ q.purchase = u /\ q.row = row
          /\ q.cols = {} /\ q.seen = Len(payments[u]) /\ q.qty = amount
      BY DEF Loaded, Idle
    <3> HIDE DEF q
    <3> QED
      BY <3>1, <3>2 DEF PayStarts
  <2> QED
    BY <1>3, <2>1, <2>2, <2>3, <2>4 DEF PurchasesController
<1>4. ASSUME InventoryController(r)
      PROVE  \E q : /\ Call(r, q) /\ q.cols = {}
                    /\ Writing(r, q) \/ (Reading /\ FindStarts(q))
  <2>1. ASSUME NEW p \in Products, NEW n \in Entries, NEW dated \in BOOLEAN, BeginEntry(r, p, n, dated)
        PROVE  \E q : Call(r, q) /\ q.cols = {} /\ Writing(r, q)
    <3> DEFINE q == [Idle EXCEPT !.op = "entry", !.pc = "move", !.ent = Len(batch) + 1, !.moving = n]
    <3>1. /\ Call(r, q) /\ ~NeedsDate(p, dated)
          /\ batch' = Append(batch, NewBatch(p, "none", FALSE, dated, n))
          /\ moved' = Append(moved, [sum |-> 0, raised |-> 0]) /\ UNCHANGED <<purchase, payments, allocs>>
      BY <2>1 DEF BeginEntry
    <3>2. q.op = "entry" /\ q.pc = "move" /\ q.ent = Len(batch) + 1 /\ q.moving = n /\ q.cols = {}
      BY DEF Idle
    <3> HIDE DEF q
    <3> QED
      BY <3>1, <3>2 DEF Writing
  <2>2. ASSUME NEW p \in Products, NEW delta \in Deltas, BeginAdjust(r, p, delta)
        PROVE  \E q : Call(r, q) /\ q.cols = {} /\ Reading /\ FindStarts(q)
    <3> DEFINE q == [Idle EXCEPT !.op = "adjust", !.pc = "find", !.product = p, !.qty = delta,
                            !.next = CurrentStock(p) + delta]
    <3>1. Call(r, q) /\ Reading /\ Affordable(p, delta)
      BY <2>2 DEF BeginAdjust, Reading
    <3>2. q.op = "adjust" /\ q.pc = "find" /\ q.cols = {} /\ q.product = p /\ q.qty = delta
      BY DEF Idle
    <3> HIDE DEF q
    <3> QED
      BY <3>1, <3>2 DEF FindStarts
  <2>3. ASSUME BeginBackfill(r)
        PROVE  \E q : Call(r, q) /\ q.cols = {} /\ Reading /\ FindStarts(q)
    <3>0. PICK p \in Products : Call(r, [Idle EXCEPT !.op = "backfill", !.pc = "find", !.product = p,
                              !.todo = Products \ {p}])
      BY <2>3 DEF BeginBackfill
    <3> DEFINE q == [Idle EXCEPT !.op = "backfill", !.pc = "find", !.product = p,
                              !.todo = Products \ {p}]
    <3>1. Call(r, q) /\ Reading
      BY <2>3, <3>0 DEF BeginBackfill, Reading
    <3>2. q.op = "backfill" /\ q.pc = "find" /\ q.cols = {}
      BY DEF Idle
    <3> HIDE DEF q
    <3> QED
      BY <3>1, <3>2 DEF FindStarts
  <2> QED
    BY <1>4, <2>1, <2>2, <2>3 DEF InventoryController
<1>5. ASSUME Orders(r)
      PROVE  \E q : Call(r, q) /\ q.cols = {} /\ Reading /\ (ConsumeStarts(q) \/ RestoreStarts(q))
  <2>1. ASSUME NEW p \in Products, NEW n \in Entries, BeginConsume(r, p, n)
        PROVE  \E q : Call(r, q) /\ q.cols = {} /\ Reading /\ ConsumeStarts(q)
    <3> DEFINE q == [Idle EXCEPT !.op = "consume", !.product = p, !.qty = n,
                            !.pc = IF OnSale(p) = {} THEN "find" ELSE "plan"]
    <3>1. Call(r, q) /\ Reading /\ CurrentStock(p) >= n
      BY <2>1 DEF BeginConsume, Reading
    <3>2. /\ q.op = "consume" /\ q.pc \in {"find", "plan"} /\ q.cols = {} /\ q.qty = n
          /\ q.plan = NoPlan /\ q.product = p
      BY DEF Idle
    <3> HIDE DEF q
    <3> QED
      BY <3>1, <3>2 DEF ConsumeStarts
  <2>2. ASSUME NEW k \in DOMAIN allocs, BeginRestore(r, k)
        PROVE  \E q : Call(r, q) /\ q.cols = {} /\ Reading /\ RestoreStarts(q)
    <3> DEFINE q == [Idle EXCEPT !.op = "restore", !.pc = "give", !.alloc = k,
                            !.ent = allocs[k].batch, !.moving = allocs[k].qty,
                            !.avail = batch[allocs[k].batch].avail + allocs[k].qty]
    <3>1. Call(r, q) /\ Reading /\ ~allocs[k].restored
      BY <2>2 DEF BeginRestore, Reading
    <3>2. /\ q.op = "restore" /\ q.pc = "give" /\ q.alloc = k /\ q.ent = allocs[k].batch
          /\ q.moving = allocs[k].qty /\ q.avail = batch[allocs[k].batch].avail + allocs[k].qty
          /\ q.cols = {}
      BY DEF Idle
    <3> HIDE DEF q
    <3> QED
      BY <3>1, <3>2 DEF RestoreStarts
  <2> QED
    BY <1>5, <2>1, <2>2 DEF Orders
<1>6. req[r] = Idle
  BY DEF Begin, Free, Running
<1> QED
  BY <1>1, <1>3, <1>4, <1>5, <1>6 DEF Begin

-----------------------------------------------------------------------------
(* The fields of a request after each of its statements *)

\* A statement of request r leaves it as q.
Becomes(r, q) == req' = [req EXCEPT ![r] = q] /\ UNCHANGED used
SamePurchase(q, p) ==
    /\ q.op = p.op /\ q.purchase = p.purchase /\ q.row = p.row /\ q.seen = p.seen
    /\ q.qty = p.qty

\* The SELECT of a purchase's save compares the columns.
LEMMA SelectIs ==
    ASSUME TypeInv, NEW r \in Requests, SelectPurchase(r)
    PROVE  /\ req[r].pc = "select" /\ Reading
           /\ \/ Becomes(r, Idle)
              \/ /\ Len(payments[req[r].purchase]) <= req[r].seen
                 /\ \E q : /\ Becomes(r, q) /\ q.pc = "write" /\ SamePurchase(q, req[r])
                           /\ \A c \in Columns \ q.cols :
                                /\ c = "status" => q.row.status = purchase[q.purchase].status
                                /\ c = "paid" => q.row.paid = purchase[q.purchase].paid
                                /\ c = "balance" => q.row.balance = purchase[q.purchase].balance
<1> PICK p : p = req[r]
  OBVIOUS
<1>0. p \in Request /\ p.pc = "select"
  BY RowsTyped DEF SelectPurchase
<1>1. CASE MissesPayment(p)
  BY <1>0, <1>1 DEF SelectPurchase, Throw, Goto, Becomes, Reading
<1>2. CASE ~MissesPayment(p)
  <2> PICK cols \in SUBSET Columns :
        cols = {c \in Columns :
                  \/ c = "status" /\ p.row.status # purchase[p.purchase].status
                  \/ c = "paid" /\ p.row.paid # purchase[p.purchase].paid
                  \/ c = "balance" /\ p.row.balance # purchase[p.purchase].balance}
    OBVIOUS
  <2> DEFINE q == [p EXCEPT !.pc = "write", !.cols = cols]
  <2>1. Becomes(r, q) /\ Reading
    BY <1>2 DEF SelectPurchase, Goto, Becomes, Reading
  <2>2. q.pc = "write" /\ SamePurchase(q, p) /\ q.cols = cols
    BY <1>0 DEF Request, SamePurchase
  <2> HIDE DEF q
  <2>3. Len(payments[p.purchase]) <= p.seen
    <3>1. p.purchase \in Purchases
      <4>1. Holding(p, Len(batch), Len(allocs))
        BY RowsTyped
      <4> QED
        BY <1>0, <4>1 DEF Holding, HoldsPurchase, OpsAt
    <3>2. Len(payments[p.purchase]) \in Nat /\ p.seen \in Nat
      BY <1>0, <3>1, RowsTyped, SMTT(30) DEF Request
    <3> QED
      BY <1>2, <3>2 DEF MissesPayment
  <2>4. \A c \in Columns \ q.cols :
          /\ c = "status" => q.row.status = purchase[q.purchase].status
          /\ c = "paid" => q.row.paid = purchase[q.purchase].paid
          /\ c = "balance" => q.row.balance = purchase[q.purchase].balance
    BY <2>2 DEF SamePurchase
  <2> QED
    BY <1>0, <2>1, <2>2, <2>3, <2>4
<1> QED
  BY <1>1, <1>2

\* The UPDATE of a purchase's save.
LEMMA WriteIs ==
    ASSUME TypeInv, NEW r \in Requests, WritePurchase(r)
    PROVE  /\ req[r].pc = "write" /\ UNCHANGED <<payments, batch, moved, allocs>>
           /\ \E row \in PurchaseRow :
                /\ purchase' = [purchase EXCEPT ![req[r].purchase] = row]
                /\ row.status = IF "status" \in req[r].cols THEN req[r].row.status
                                ELSE purchase[req[r].purchase].status
                /\ row.paid = IF "paid" \in req[r].cols THEN req[r].row.paid
                              ELSE purchase[req[r].purchase].paid
                /\ row.balance = IF "balance" \in req[r].cols THEN req[r].row.balance
                                 ELSE purchase[req[r].purchase].balance
           /\ \/ req[r].op = "update" /\ Becomes(r, Idle)
              \/ /\ req[r].op = "pay"
                 /\ \E q : Becomes(r, q) /\ q.pc = "receipt" /\ SamePurchase(q, req[r])
<1> PICK p : p = req[r]
  OBVIOUS
<1>0. p \in Request /\ p.pc = "write" /\ p.purchase \in Purchases /\ p.op \in {"update", "pay"}
  <2>1. p \in Request /\ Holding(p, Len(batch), Len(allocs)) /\ p.pc = "write"
    BY RowsTyped DEF WritePurchase
  <2> QED
    BY <2>1 DEF Holding, HoldsPurchase, OpsAt
<1> PICK status : status = IF "status" \in p.cols THEN p.row.status ELSE purchase[p.purchase].status
  OBVIOUS
<1> PICK paid : paid = IF "paid" \in p.cols THEN p.row.paid ELSE purchase[p.purchase].paid
  OBVIOUS
<1> PICK balance :
      balance = IF "balance" \in p.cols THEN p.row.balance ELSE purchase[p.purchase].balance
  OBVIOUS
<1> DEFINE row == [status |-> status, paid |-> paid, balance |-> balance]
           q == [p EXCEPT !.pc = "receipt", !.cols = {}]
<1>1. /\ purchase' = [purchase EXCEPT ![p.purchase] = row]
      /\ UNCHANGED <<payments, batch, moved, allocs, used>>
      /\ p.op = "pay" => Goto(r, q)
      /\ p.op # "pay" => Goto(r, Idle)
  BY <1>0 DEF WritePurchase, TypeInv, TablesOK
<1>2. row \in PurchaseRow /\ row.status = status /\ row.paid = paid /\ row.balance = balance
  <2>1. purchase[p.purchase] \in PurchaseRow /\ p.row \in PurchaseRow
    BY <1>0, RowsTyped DEF Request
  <2> QED
    BY <2>1 DEF PurchaseRow
<1>3. q.pc = "receipt" /\ SamePurchase(q, p)
  BY <1>0 DEF Request, SamePurchase
<1> HIDE DEF q, row
<1>4. p.op = "pay" => Becomes(r, q)
  BY <1>1 DEF Becomes, Goto
<1>5. p.op # "pay" => Becomes(r, Idle)
  BY <1>1 DEF Becomes, Goto
<1> QED
  BY <1>0, <1>1, <1>2, <1>3, <1>4, <1>5

\* The payment row is inserted.
LEMMA ReceiptIs ==
    ASSUME TypeInv, NEW r \in Requests, InsertPayment(r)
    PROVE  /\ req[r].pc = "receipt" /\ req[r].op = "pay" /\ req[r].purchase \in Purchases
           /\ req[r].qty \in Amounts /\ Becomes(r, Idle)
           /\ UNCHANGED <<purchase, batch, moved, allocs>>
           /\ payments' = [payments EXCEPT ![req[r].purchase]
                                             = Append(payments[req[r].purchase], req[r].qty)]
<1>1. Holding(req[r], Len(batch), Len(allocs)) /\ req[r].pc = "receipt"
  BY RowsTyped DEF InsertPayment
<1>2. req[r].op = "pay" /\ req[r].purchase \in Purchases /\ req[r].qty \in Amounts
  BY <1>1 DEF Holding, HoldsPurchase, OpsAt
<1> QED
  BY <1>1, <1>2 DEF InsertPayment, Becomes, Goto, TypeInv, TablesOK

\* cancel reads the batches of the purchase.
LEMMA LoadIs ==
    ASSUME TypeInv, NEW r \in Requests, LoadBatches(r)
    PROVE  /\ req[r].pc = "load" /\ Reading
           /\ \E q : /\ Becomes(r, q) /\ q.pc = "block" /\ SamePurchase(q, req[r])
                     /\ q.plan = [b \in BatchIds |->
                                    IF b \in BoughtWith(q.purchase) /\ batch[b].avail > 0
                                    THEN batch[b].avail ELSE 0]
<1> PICK p : p = req[r]
  OBVIOUS
<1>0. p \in Request /\ p.pc = "load"
  BY RowsTyped DEF LoadBatches
<1> PICK plan : plan = [b \in BatchIds |-> IF b \in BoughtWith(p.purchase) /\ batch[b].avail > 0
                                           THEN batch[b].avail ELSE 0]
  OBVIOUS
<1> DEFINE q == [p EXCEPT !.pc = "block", !.plan = plan]
<1>1. Becomes(r, q) /\ Reading
  BY DEF LoadBatches, Goto, Becomes, Reading
<1>2. q.pc = "block" /\ SamePurchase(q, p) /\ q.plan = plan
  BY <1>0 DEF Request, SamePurchase
<1> HIDE DEF q
<1>3. q.purchase = p.purchase
  BY <1>2 DEF SamePurchase
<1> QED
  BY <1>0, <1>1, <1>2, <1>3, SMTT(40)

\* cancel empties them and saves the purchase.
LEMMA CommitIs ==
    ASSUME TypeInv, NEW r \in Requests, CommitCancel(r)
    PROVE  /\ req[r].pc = "block" /\ req[r].op = "cancel" /\ req[r].purchase \in Purchases
           /\ Becomes(r, Idle)
           /\ \/ Reading
              \/ /\ Len(payments[req[r].purchase]) <= req[r].seen
                 /\ purchase' = [purchase EXCEPT ![req[r].purchase] = req[r].row]
                 /\ batch' = [b \in DOMAIN batch |->
                                IF b \in BoughtWith(req[r].purchase) THEN Blocked(batch[b]) ELSE batch[b]]
                 /\ moved' = [b \in DOMAIN moved |->
                                [moved[b] EXCEPT !.sum = moved[b].sum - req[r].plan[b]]]
                 /\ UNCHANGED <<payments, allocs>>
<1> PICK p : p = req[r]
  OBVIOUS
<1>0. p \in Request /\ p.pc = "block" /\ p.op = "cancel" /\ p.purchase \in Purchases
  <2>1. p \in Request /\ Holding(p, Len(batch), Len(allocs)) /\ p.pc = "block"
    BY RowsTyped DEF CommitCancel
  <2> QED
    BY <2>1 DEF Holding, HoldsPurchase, OpsAt
<1>1. CASE MissesPayment(p)
  BY <1>0, <1>1 DEF CommitCancel, Throw, Goto, Becomes, Reading
<1>2. CASE ~MissesPayment(p)
  <2>1. Len(payments[p.purchase]) <= p.seen
    <3>1. Len(payments[p.purchase]) \in Nat /\ p.seen \in Nat
      BY <1>0, RowsTyped, SMTT(30) DEF Request
    <3> QED
      BY <1>2, <3>1 DEF MissesPayment
  <2>2. /\ batch' = [b \in DOMAIN batch |->
                       IF b \in BoughtWith(p.purchase) THEN Blocked(batch[b]) ELSE batch[b]]
        /\ moved' = [b \in DOMAIN moved |-> [moved[b] EXCEPT !.sum = @ - p.plan[b]]]
        /\ purchase' = [purchase EXCEPT ![p.purchase] = p.row]
        /\ Becomes(r, Idle) /\ UNCHANGED <<payments, allocs>>
    BY <1>2 DEF CommitCancel, Goto, Becomes
  <2>3. moved' = [b \in DOMAIN moved |-> [moved[b] EXCEPT !.sum = moved[b].sum - p.plan[b]]]
    BY <2>2
  <2> QED
    BY <1>0, <2>1, <2>2, <2>3
<1> QED
  BY <1>1, <1>2

\* Where a request that has seen to the LEGACY batch b of its product goes on.
PastLegacy(q, p, b, avail, initial) ==
    \/ q = Idle
    \/ /\ p.op = "adjust" /\ q.op = "adjust" /\ q.pc = "adjust" /\ q.qty = p.qty
       /\ q.ent = b /\ q.avail = avail /\ q.initial = initial
    \/ /\ p.op = "consume" /\ q.op = "consume" /\ q.pc = "plan" /\ q.qty = p.qty
       /\ q.product = p.product
    \/ p.op = "backfill" /\ q.op = "backfill" /\ q.pc = "find"

\* What AfterLegacy makes of a request that has the batch in hand.
LEMMA PastLegacyIs ==
    ASSUME NEW p \in Request, p.op \in {"adjust", "consume", "backfill"}, NEW b \in Nat,
           NEW avail \in Int, NEW initial \in Int, NEW moving \in Int,
           NEW next \in NextProduct(AfterLegacy([p EXCEPT !.avail = avail, !.initial = initial,
                                                         !.moving = moving], b))
    PROVE  PastLegacy(next, p, b, avail, initial)
<1> DEFINE s == [p EXCEPT !.avail = avail, !.initial = initial, !.moving = moving]
<1>1. /\ s \in Request /\ s.op = p.op /\ s.qty = p.qty /\ s.avail = avail /\ s.initial = initial
      /\ s.todo = p.todo /\ s.product = p.product
  BY DEF Request
<1>2. next \in NextProduct(AfterLegacy(s, b))
  OBVIOUS
<1> HIDE DEF s
<1>3. CASE p.op = "adjust"
  <2>1. next = [s EXCEPT !.pc = "adjust", !.ent = b]
    BY <1>1, <1>2, <1>3, AfterLegacyIs, ZenonT(40)
  <2> QED
    BY <1>1, <1>3, <2>1 DEF PastLegacy, Request
<1>4. CASE p.op = "consume"
  <2>1. next = [s EXCEPT !.pc = "plan"]
    BY <1>1, <1>2, <1>4, AfterLegacyIs, ZenonT(40)
  <2> QED
    BY <1>1, <1>4, <2>1 DEF PastLegacy, Request
<1>5. CASE p.op = "backfill"
  <2>1. CASE next = Idle
    BY <2>1 DEF PastLegacy
  <2>2. ASSUME NEW k \in s.todo, next = [s EXCEPT !.pc = "find", !.product = k, !.todo = @ \ {k}]
        PROVE  next.op = "backfill" /\ next.pc = "find"
    BY <1>1, <1>5, <2>2 DEF Request
  <2> QED
    BY <1>1, <1>2, <1>5, <2>1, <2>2, AfterLegacyIs, ZenonT(40) DEF PastLegacy
<1> QED
  BY <1>3, <1>4, <1>5

\* The search for the LEGACY batch.
LEMMA FindIs ==
    ASSUME TypeInv, NEW r \in Requests, FindLegacy(r)
    PROVE  /\ req[r].pc = "find" /\ req[r].op \in {"adjust", "consume", "backfill"} /\ Reading
           /\ \E q : /\ Becomes(r, q)
                     /\ \/ q = Idle
                        \/ /\ q.pc = "insert" /\ q.op = req[r].op /\ q.qty = req[r].qty
                           /\ q.product = req[r].product /\ LegacyOf(q.product) = {}
                           /\ q.moving = Max({0, Ledger(q.product)})
                        \/ \E b \in LegacyOf(req[r].product) :
                             PastLegacy(q, req[r], b, batch[b].avail, batch[b].initial)
                        \/ /\ req[r].op # "adjust" /\ LegacyOf(req[r].product) = {}
                           /\ PastLegacy(q, req[r], 0, req[r].avail, req[r].initial)
<1> PICK p : p = req[r]
  OBVIOUS
<1> PICK stock : stock = Ledger(p.product)
  OBVIOUS
<1>0. p \in Request /\ p.pc = "find" /\ p.op \in {"adjust", "consume", "backfill"}
  <2>1. p \in Request /\ Holding(p, Len(batch), Len(allocs)) /\ p.pc = "find"
    BY RowsTyped DEF FindLegacy
  <2> QED
    BY <2>1 DEF Holding, OpsAt
<1>1. Reading /\ UNCHANGED used
  BY DEF FindLegacy, Throw, Reading
<1>2. ASSUME NEW q, Goto(r, q)
      PROVE  Becomes(r, q)
  BY <1>1, <1>2 DEF Goto, Becomes
<1>3. ASSUME NEW b \in FoundLegacy(p.product),
             NEW next \in NextProduct(AfterLegacy([p EXCEPT !.avail = batch[b].avail,
                                                   !.initial = batch[b].initial], b)),
             Goto(r, next)
      PROVE  /\ Becomes(r, next) /\ b \in LegacyOf(p.product)
             /\ PastLegacy(next, p, b, batch[b].avail, batch[b].initial)
  <2>1. b \in LegacyOf(p.product) /\ b \in Nat
    BY RowsTyped DEF FoundLegacy, LegacyOf, BatchesOf
  <2> PICK avail \in Int : avail = batch[b].avail
    BY <2>1, RowsTyped DEF LegacyOf, BatchesOf, BatchRow
  <2> PICK initial \in Int : initial = batch[b].initial
    BY <2>1, RowsTyped DEF LegacyOf, BatchesOf, BatchRow
  <2> PICK moving \in Int : moving = p.moving
    BY <1>0 DEF Request
  <2>2. [p EXCEPT !.avail = avail, !.initial = initial]
          = [p EXCEPT !.avail = avail, !.initial = initial, !.moving = moving]
    BY <1>0 DEF Request
  <2>3. next \in NextProduct(AfterLegacy([p EXCEPT !.avail = avail, !.initial = initial,
                                                   !.moving = moving], b))
    BY <1>3, <2>2
  <2>4. PastLegacy(next, p, b, avail, initial)
    BY <1>0, <2>1, <2>3, PastLegacyIs
  <2> QED
    BY <1>2, <1>3, <2>1, <2>4
<1>4. ASSUME p.op # "adjust", NEW next \in NextProduct(AfterLegacy(p, 0)), Goto(r, next)
      PROVE  Becomes(r, next) /\ PastLegacy(next, p, 0, p.avail, p.initial)
  <2> PICK avail \in Int : avail = p.avail
    BY <1>0 DEF Request
  <2> PICK initial \in Int : initial = p.initial
    BY <1>0 DEF Request
  <2> PICK moving \in Int : moving = p.moving
    BY <1>0 DEF Request
  <2>1. p = [p EXCEPT !.avail = avail, !.initial = initial, !.moving = moving]
    BY <1>0 DEF Request
  <2>2. next \in NextProduct(AfterLegacy([p EXCEPT !.avail = avail, !.initial = initial,
                                                   !.moving = moving], 0))
    BY <1>4, <2>1
  <2>3. PastLegacy(next, p, 0, avail, initial)
    BY <1>0, <2>2, PastLegacyIs
  <2> QED
    BY <1>2, <1>4, <2>3
<1>5. ASSUME FoundLegacy(p.product) = {}, Goto(r, [p EXCEPT !.pc = "insert", !.moving = Max({0, stock})])
      PROVE  \E q : /\ Becomes(r, q) /\ q.pc = "insert" /\ q.op = p.op /\ q.qty = p.qty
                    /\ q.product = p.product /\ LegacyOf(q.product) = {}
                    /\ q.moving = Max({0, stock})
  <2> DEFINE q == [p EXCEPT !.pc = "insert", !.moving = Max({0, stock})]
  <2>1. /\ q.pc = "insert" /\ q.op = p.op /\ q.qty = p.qty /\ q.product = p.product /\ Goto(r, q)
        /\ q.moving = Max({0, stock})
    BY <1>0, <1>5 DEF Request
  <2> HIDE DEF q
  <2> QED
    BY <1>2, <1>5, <2>1 DEF FoundLegacy
<1>6. ASSUME Throw(r)
      PROVE  Becomes(r, Idle)
  BY <1>2, <1>6 DEF Throw
<1>7. \/ \E b \in FoundLegacy(p.product) :
           \E next \in NextProduct(AfterLegacy([p EXCEPT !.avail = batch[b].avail,
                                                   !.initial = batch[b].initial], b)) : Goto(r, next)
      \/ /\ p.op # "adjust" /\ FoundLegacy(p.product) = {}
         /\ \E next \in NextProduct(AfterLegacy(p, 0)) : Goto(r, next)
      \/ /\ FoundLegacy(p.product) = {}
         /\ Throw(r) \/ Goto(r, [p EXCEPT !.pc = "insert", !.moving = Max({0, stock})])
  BY DEF FindLegacy
<1> QED
  BY <1>0, <1>1, <1>3, <1>4, <1>5, <1>6, <1>7 DEF FoundLegacy

\* The insertion of the LEGACY batch.
LEMMA InsertIs ==
    ASSUME TypeInv, NEW r \in Requests, InsertLegacy(r)
    PROVE  /\ req[r].op \in {"adjust", "consume", "backfill"} /\ req[r].moving \in Nat
           /\ req[r].product \notin Perishable
           /\ \E q : /\ Becomes(r, q)
                     /\ PastLegacy(q, req[r], Len(batch) + 1, req[r].moving, req[r].moving)
<1> PICK p : p = req[r]
  OBVIOUS
<1>0. /\ p \in Request /\ p.pc = "insert" /\ p.op \in {"adjust", "consume", "backfill"}
      /\ p.moving \in Nat /\ p.product \notin Perishable
  <2>1. p \in Request /\ Holding(p, Len(batch), Len(allocs)) /\ p.pc = "insert"
    BY RowsTyped DEF InsertLegacy
  <2> QED
    BY <2>1 DEF Holding, HoldsProduct, OpsAt
<1> PICK n \in Nat : n = p.moving
  BY <1>0
<1>1. n \in Int /\ 0 \in Int /\ Len(batch) + 1 \in Nat
  BY RowsTyped
<1>2. PICK next \in NextProduct(AfterLegacy([p EXCEPT !.avail = n, !.initial = n, !.moving = 0],
                                            Len(batch) + 1)) :
        Goto(r, next) /\ UNCHANGED used
  BY DEF InsertLegacy
<1>3. PastLegacy(next, p, Len(batch) + 1, n, n)
  BY <1>0, <1>1, <1>2, PastLegacyIs
<1> QED
  BY <1>0, <1>2, <1>3 DEF Goto, Becomes

\* The adjusted batch is saved.
LEMMA AdjustIs ==
    ASSUME TypeInv, NEW r \in Requests, AdjustBatch(r)
    PROVE  /\ req[r].pc = "adjust" /\ req[r].op = "adjust" /\ req[r].ent \in DOMAIN batch
           /\ req[r].qty \in Deltas /\ UNCHANGED <<purchase, payments, moved, allocs>>
           /\ \E row \in BatchRow :
                /\ batch' = [batch EXCEPT ![req[r].ent] = row]
                /\ row.product = batch[req[r].ent].product /\ row.legacy = batch[req[r].ent].legacy
                /\ row.purchase = batch[req[r].ent].purchase /\ row.expires = batch[req[r].ent].expires
                /\ row.avail = req[r].avail + req[r].qty
                /\ row.initial = req[r].initial + Raised(req[r].qty)
                /\ row.status = StatusFor(row.avail)
           /\ \E q : /\ Becomes(r, q) /\ q.pc = "move" /\ q.op = "adjust" /\ q.qty = req[r].qty
                     /\ q.ent = req[r].ent /\ q.moving = req[r].qty
<1> PICK p : p = req[r]
  OBVIOUS
<1>0. /\ p \in Request /\ p.pc = "adjust" /\ p.op = "adjust" /\ p.ent \in DOMAIN batch
      /\ p.qty \in Deltas
  <2>1. p \in Request /\ Holding(p, Len(batch), Len(allocs)) /\ p.pc = "adjust"
    BY RowsTyped DEF AdjustBatch
  <2> QED
    BY <2>1, RowsTyped DEF Holding, HoldsProduct, HoldsBatch, OpsAt
<1> PICK avail : avail = p.avail + p.qty
  OBVIOUS
<1> PICK initial : initial = p.initial + Raised(p.qty)
  OBVIOUS
<1> DEFINE row == [batch[p.ent] EXCEPT !.avail = avail, !.initial = initial, !.status = StatusFor(avail)]
           q == [p EXCEPT !.pc = "move", !.moving = p.qty]
<1>1. /\ batch' = [batch EXCEPT ![p.ent] = row] /\ Goto(r, q)
      /\ UNCHANGED <<purchase, payments, moved, allocs, used>>
  BY DEF AdjustBatch
<1>2. /\ row \in BatchRow /\ row.product = batch[p.ent].product /\ row.legacy = batch[p.ent].legacy
      /\ row.purchase = batch[p.ent].purchase /\ row.expires = batch[p.ent].expires
      /\ row.avail = avail /\ row.initial = initial /\ row.status = StatusFor(avail)
  <2>0. batch[p.ent] \in BatchRow /\ p.qty \in Int /\ p.avail \in Int /\ p.initial \in Int
    BY <1>0, RowsTyped DEF Request
  <2>1. batch[p.ent] \in BatchRow /\ avail \in Int /\ initial \in Int
    BY <2>0 DEF Raised
  <2>2. StatusFor(avail) \in BatchStatus
    BY DEF StatusFor, BatchStatus
  <2> QED
    BY <2>1, <2>2 DEF BatchRow
<1>3. /\ q.pc = "move" /\ q.op = p.op /\ q.qty = p.qty /\ q.ent = p.ent /\ q.moving = p.qty
  BY <1>0 DEF Request
<1> HIDE DEF row, q
<1> QED
  BY <1>0, <1>1, <1>2, <1>3 DEF Goto, Becomes

\* The movement of an entry or an adjustment is inserted.
LEMMA MoveIs ==
    ASSUME TypeInv, NEW r \in Requests, InsertMovement(r)
    PROVE  /\ req[r].pc = "move" /\ req[r].op \in {"entry", "adjust"} /\ req[r].ent \in DOMAIN batch
           /\ UNCHANGED <<purchase, payments, batch, allocs>> /\ Becomes(r, Idle)
           /\ moved' = [moved EXCEPT ![req[r].ent] =
                          [sum |-> moved[req[r].ent].sum + req[r].moving,
                           raised |-> moved[req[r].ent].raised + Raised(req[r].moving)]]
<1>0. Holding(req[r], Len(batch), Len(allocs)) /\ req[r].pc = "move"
  BY RowsTyped DEF InsertMovement
<1>1. req[r].op \in {"entry", "adjust"} /\ req[r].ent \in DOMAIN batch
  BY <1>0, RowsTyped DEF Holding, HoldsBatch, OpsAt
<1> QED
  BY <1>0, <1>1, RowsTyped DEF InsertMovement, Goto, Becomes

\* consumeStock reads its candidates.
LEMMA ReadIs ==
    ASSUME TypeInv, DOMAIN batch \subseteq BatchIds, NEW r \in Requests, ReadCandidates(r)
    PROVE  /\ req[r].pc = "plan" /\ req[r].op = "consume" /\ Reading
           /\ \/ Becomes(r, Idle)
              \/ \E q : /\ Becomes(r, q) /\ q.pc = "take" /\ q.op = "consume" /\ q.qty = req[r].qty
                        /\ ~(Units(Usable(req[r].product)) < q.qty)
                        /\ \A c \in BatchIds :
                             q.plan[c] > 0 => c \in Usable(req[r].product) /\ q.plan[c] = batch[c].avail
<1> PICK p : p = req[r]
  OBVIOUS
<1>0. p \in Request /\ p.pc = "plan" /\ p.op = "consume"
  <2>1. p \in Request /\ Holding(p, Len(batch), Len(allocs)) /\ p.pc = "plan"
    BY RowsTyped DEF ReadCandidates
  <2> QED
    BY <2>1 DEF Holding, OpsAt
<1>1. CASE Throw(r)
  BY <1>0, <1>1 DEF ReadCandidates, Throw, Goto, Becomes, Reading
<1>2. CASE ~Throw(r)
  <2> PICK plan : plan = [b \in BatchIds |-> IF b \in Usable(p.product) THEN batch[b].avail ELSE 0]
    OBVIOUS
  <2> DEFINE q == [p EXCEPT !.pc = "take", !.plan = plan]
  <2>1. Becomes(r, q) /\ Reading /\ ~(Units(Usable(p.product)) < p.qty)
    BY <1>2 DEF ReadCandidates, Goto, Becomes, Reading
  <2>2. q.pc = "take" /\ q.op = p.op /\ q.qty = p.qty /\ q.plan = plan
    BY <1>0 DEF Request
  <2> HIDE DEF q
  <2>3. \A c \in BatchIds : plan[c] > 0 => c \in Usable(p.product) /\ plan[c] = batch[c].avail
    BY PlanTyped
  <2> QED
    BY <1>0, <2>1, <2>2, <2>3
<1> QED
  BY <1>1, <1>2

\* Request r takes n units of batch b, of which row remains.
Takes(r, b, n, row, q) ==
    /\ b \in BatchIds /\ req[r].plan[b] > 0 /\ n <= req[r].plan[b] /\ n <= req[r].qty
    /\ batch' = [batch EXCEPT ![b] = row]
    /\ row.product = batch[b].product /\ row.legacy = batch[b].legacy
    /\ row.purchase = batch[b].purchase /\ row.expires = batch[b].expires
    /\ row.initial = batch[b].initial /\ row.avail = req[r].plan[b] - n
    /\ row.status = StatusFor(row.avail)
    /\ Becomes(r, q) /\ q.pc = "alloc" /\ q.op = "consume" /\ q.ent = b /\ q.moving = n
    /\ q.qty = req[r].qty - n
    /\ \A c \in BatchIds : q.plan[c] = IF c = b THEN 0 ELSE req[r].plan[c]

\* A batch gives units.
LEMMA TakeIs ==
    ASSUME TypeInv, NEW r \in Requests, TakeBatch(r)
    PROVE  /\ req[r].pc = "take" /\ req[r].op = "consume"
           /\ UNCHANGED <<purchase, payments, moved, allocs>>
           /\ \E b \in DOMAIN batch, n \in Nat \ {0}, row \in BatchRow :
                  \E q : Takes(r, b, n, row, q)
<1> PICK p : p = req[r]
  OBVIOUS
<1>0. p \in Request /\ p.pc = "take" /\ p.op = "consume"
  <2>1. p \in Request /\ Holding(p, Len(batch), Len(allocs)) /\ p.pc = "take"
    BY RowsTyped DEF TakeBatch
  <2> QED
    BY <2>1 DEF Holding, OpsAt
<1> PICK b : b = Min({c \in BatchIds : p.plan[c] > 0})
  OBVIOUS
<1> PICK n : n = Min({p.plan[b], p.qty})
  OBVIOUS
<1>1. /\ b \in DOMAIN batch /\ b \in BatchIds /\ p.plan[b] \in Nat /\ p.plan[b] > 0
      /\ n \in Nat \ {0} /\ p.qty \in Nat /\ n <= p.qty /\ n <= p.plan[b]
  BY <1>0, TakeTyped
<1> PICK left : left = p.plan[b] - n
  OBVIOUS
<1> PICK qty : qty = p.qty - n
  OBVIOUS
<1> DEFINE row == [batch[b] EXCEPT !.avail = left, !.status = StatusFor(left)]
           q == [p EXCEPT !.pc = "alloc", !.ent = b, !.moving = n, !.qty = @ - n, !.plan[b] = 0]
<1>2. /\ batch' = [batch EXCEPT ![b] = row] /\ Becomes(r, q)
      /\ UNCHANGED <<purchase, payments, moved, allocs>>
  BY DEF TakeBatch, Goto, Becomes
<1>3. /\ row \in BatchRow /\ row.product = batch[b].product /\ row.legacy = batch[b].legacy
      /\ row.purchase = batch[b].purchase /\ row.expires = batch[b].expires
      /\ row.initial = batch[b].initial /\ row.avail = left /\ row.status = StatusFor(left)
  <2>1. batch[b] \in BatchRow /\ left \in Int
    BY <1>1, RowsTyped, SMTT(40)
  <2>2. StatusFor(left) \in BatchStatus
    BY DEF StatusFor, BatchStatus
  <2> QED
    BY <2>1, <2>2 DEF BatchRow
<1>4. /\ q.pc = "alloc" /\ q.op = "consume" /\ q.ent = b /\ q.moving = n /\ q.qty = qty
      /\ q.plan = [p.plan EXCEPT ![b] = 0]
  BY <1>0 DEF Request
<1>5. \A c \in BatchIds : q.plan[c] = IF c = b THEN 0 ELSE p.plan[c]
  BY <1>0, <1>1, <1>4 DEF Request
<1> HIDE DEF row, q
<1>6. Takes(r, b, n, row, q)
  BY <1>1, <1>2, <1>3, <1>4, <1>5 DEF Takes
<1>7. b \in DOMAIN batch /\ n \in Nat \ {0} /\ row \in BatchRow
  BY <1>1, <1>3
<1>8. /\ req[r].pc = "take" /\ req[r].op = "consume" /\ UNCHANGED <<purchase, payments, moved, allocs>>
  BY <1>0, <1>2
<1> QED
  BY <1>6, <1>7, <1>8, Zenon

\* The allocation is inserted.
LEMMA AllocIs ==
    ASSUME TypeInv, NEW r \in Requests, InsertAllocation(r)
    PROVE  /\ req[r].pc = "alloc" /\ req[r].op = "consume" /\ req[r].ent \in DOMAIN batch
           /\ req[r].moving \in Nat \ {0} /\ UNCHANGED <<purchase, payments, batch>>
           /\ allocs' = Append(allocs, [batch |-> req[r].ent, qty |-> req[r].moving, restored |-> FALSE])
           /\ moved' = [moved EXCEPT ![req[r].ent] =
                          [sum |-> moved[req[r].ent].sum - req[r].moving,
                           raised |-> moved[req[r].ent].raised]]
           /\ \/ Becomes(r, Idle)
              \/ \E q : /\ Becomes(r, q) /\ q.pc = "take" /\ q.op = "consume"
                        /\ q.qty = req[r].qty /\ q.plan = req[r].plan
<1> PICK p : p = req[r]
  OBVIOUS
<1>0. /\ p \in Request /\ p.pc = "alloc" /\ p.op = "consume" /\ p.ent \in DOMAIN batch
      /\ p.moving \in Nat \ {0}
  <2>1. p \in Request /\ Holding(p, Len(batch), Len(allocs)) /\ p.pc = "alloc"
    BY RowsTyped DEF InsertAllocation
  <2> QED
    BY <2>1, RowsTyped DEF Holding, HoldsBatch, HoldsPlan, OpsAt
<1> DEFINE q == [p EXCEPT !.pc = "take"]
<1>1. /\ allocs' = Append(allocs, [batch |-> p.ent, qty |-> p.moving, restored |-> FALSE])
      /\ UNCHANGED <<purchase, payments, batch>>
      /\ Becomes(r, Idle) \/ Becomes(r, q)
  BY DEF InsertAllocation, Goto, Becomes
<1>2. moved' = [moved EXCEPT ![p.ent] = [sum |-> moved[p.ent].sum - p.moving,
                                         raised |-> moved[p.ent].raised]]
  <2>1. moved[p.ent] \in MovementSums
    BY <1>0, RowsTyped
  <2>2. moved' = [moved EXCEPT ![p.ent].sum = @ - p.moving]
    BY DEF InsertAllocation
  <2>3. [moved[p.ent] EXCEPT !.sum = @ - p.moving]
          = [sum |-> moved[p.ent].sum - p.moving, raised |-> moved[p.ent].raised]
    BY <2>1 DEF MovementSums
  <2> QED
    BY <2>2, <2>3
<1>3. q.pc = "take" /\ q.op = "consume" /\ q.qty = p.qty /\ q.plan = p.plan
  BY <1>0 DEF Request
<1> HIDE DEF q
<1> QED
  BY <1>0, <1>1, <1>2, <1>3

\* A batch gets its units back.
LEMMA GiveIs ==
    ASSUME TypeInv, NEW r \in Requests, GiveBack(r)
    PROVE  /\ req[r].pc = "give" /\ req[r].op = "restore" /\ req[r].ent \in DOMAIN batch
           /\ req[r].alloc \in DOMAIN allocs /\ req[r].moving \in Nat \ {0}
           /\ UNCHANGED <<purchase, payments, moved, allocs>>
           /\ \E row \in BatchRow :
                /\ batch' = [batch EXCEPT ![req[r].ent] = row]
                /\ row.product = batch[req[r].ent].product /\ row.legacy = batch[req[r].ent].legacy
                /\ row.purchase = batch[req[r].ent].purchase /\ row.expires = batch[req[r].ent].expires
                /\ row.initial = batch[req[r].ent].initial
                /\ row.avail = req[r].avail /\ row.status = "ACTIVE"
           /\ \E q : /\ Becomes(r, q) /\ q.pc = "mark" /\ q.op = "restore" /\ q.ent = req[r].ent
                     /\ q.alloc = req[r].alloc /\ q.moving = req[r].moving
<1> PICK p : p = req[r]
  OBVIOUS
<1>0. /\ p \in Request /\ p.pc = "give" /\ p.op = "restore" /\ p.ent \in DOMAIN batch
      /\ p.alloc \in DOMAIN allocs /\ p.moving \in Nat \ {0}
  <2>1. p \in Request /\ Holding(p, Len(batch), Len(allocs)) /\ p.pc = "give"
    BY RowsTyped DEF GiveBack
  <2> QED
    BY <2>1, RowsTyped DEF Holding, HoldsBatch, OpsAt
<1> DEFINE row == GivenBack(batch[p.ent], p.avail)
           q == [p EXCEPT !.pc = "mark"]
<1>1. /\ batch' = [batch EXCEPT ![p.ent] = row] /\ Becomes(r, q)
      /\ UNCHANGED <<purchase, payments, moved, allocs>>
  BY DEF GiveBack, Goto, Becomes
<1>2. /\ row \in BatchRow /\ row.product = batch[p.ent].product /\ row.legacy = batch[p.ent].legacy
      /\ row.purchase = batch[p.ent].purchase /\ row.expires = batch[p.ent].expires
      /\ row.initial = batch[p.ent].initial /\ row.avail = p.avail /\ row.status = "ACTIVE"
  <2>1. batch[p.ent] \in BatchRow /\ p.avail \in Int /\ "ACTIVE" \in BatchStatus
    BY <1>0, RowsTyped DEF Request, BatchStatus
  <2> QED
    BY <2>1 DEF GivenBack, BatchRow
<1>3. /\ q.pc = "mark" /\ q.op = "restore" /\ q.ent = p.ent /\ q.alloc = p.alloc
      /\ q.moving = p.moving
  BY <1>0 DEF Request
<1> HIDE DEF row, q
<1> QED
  BY <1>0, <1>1, <1>2, <1>3

\* The allocation is marked as restored.
LEMMA MarkIs ==
    ASSUME TypeInv, NEW r \in Requests, MarkRestored(r)
    PROVE  /\ req[r].pc = "mark" /\ req[r].op = "restore" /\ req[r].ent \in DOMAIN batch
           /\ req[r].alloc \in DOMAIN allocs /\ req[r].moving \in Nat \ {0}
           /\ UNCHANGED <<purchase, payments, batch>> /\ Becomes(r, Idle)
           /\ DOMAIN allocs' = DOMAIN allocs
           /\ \A k \in DOMAIN allocs :
                /\ allocs'[k].batch = allocs[k].batch /\ allocs'[k].qty = allocs[k].qty
                /\ allocs'[k].restored = (k = req[r].alloc \/ allocs[k].restored)
           /\ moved' = [moved EXCEPT ![req[r].ent] =
                          [sum |-> moved[req[r].ent].sum + req[r].moving,
                           raised |-> moved[req[r].ent].raised]]
<1> PICK p : p = req[r]
  OBVIOUS
<1>0. /\ p \in Request /\ p.pc = "mark" /\ p.op = "restore" /\ p.ent \in DOMAIN batch
      /\ p.alloc \in DOMAIN allocs /\ p.moving \in Nat \ {0}
  <2>1. p \in Request /\ Holding(p, Len(batch), Len(allocs)) /\ p.pc = "mark"
    BY RowsTyped DEF MarkRestored
  <2> QED
    BY <2>1, RowsTyped DEF Holding, HoldsBatch, OpsAt
<1> DEFINE row == [allocs[p.alloc] EXCEPT !.restored = TRUE]
<1>1. /\ allocs' = [allocs EXCEPT ![p.alloc] = row]
      /\ UNCHANGED <<purchase, payments, batch>> /\ Becomes(r, Idle)
  BY DEF MarkRestored, Goto, Becomes
<1>2. moved' = [moved EXCEPT ![p.ent] = [sum |-> moved[p.ent].sum + p.moving,
                                         raised |-> moved[p.ent].raised]]
  <2>1. moved[p.ent] \in MovementSums
    BY <1>0, RowsTyped
  <2>2. moved' = [moved EXCEPT ![p.ent].sum = @ + p.moving]
    BY DEF MarkRestored
  <2>3. [moved[p.ent] EXCEPT !.sum = @ + p.moving]
          = [sum |-> moved[p.ent].sum + p.moving, raised |-> moved[p.ent].raised]
    BY <2>1 DEF MovementSums
  <2> QED
    BY <2>2, <2>3
<1>3. row.batch = allocs[p.alloc].batch /\ row.qty = allocs[p.alloc].qty /\ row.restored = TRUE
  <2>1. allocs[p.alloc] \in AllocationRow
    BY <1>0, RowsTyped
  <2> QED
    BY <2>1 DEF AllocationRow
<1> HIDE DEF row
<1>4. DOMAIN allocs' = DOMAIN allocs
      /\ \A k \in DOMAIN allocs : allocs'[k] = IF k = p.alloc THEN row ELSE allocs[k]
  BY <1>0, <1>1 DEF TypeInv, TablesOK
<1>5. \A k \in DOMAIN allocs :
        /\ allocs'[k].batch = allocs[k].batch /\ allocs'[k].qty = allocs[k].qty
        /\ allocs'[k].restored = (k = p.alloc \/ allocs[k].restored)
  <2> TAKE k \in DOMAIN allocs
  <2>1. allocs[k].restored \in BOOLEAN
    BY RowsTyped DEF AllocationRow
  <2>2. CASE k = p.alloc
    BY <1>3, <1>4, <2>2
  <2>3. CASE k # p.alloc
    <3>1. allocs'[k] = allocs[k]
      BY <1>4, <2>3
    <3>2. (k = p.alloc \/ allocs[k].restored) = allocs[k].restored
      BY <2>1, <2>3, Zenon
    <3> QED
      BY <3>1, <3>2
  <2> QED
    BY <2>2, <2>3
<1> QED
  BY <1>0, <1>1, <1>2, <1>4, <1>5

-----------------------------------------------------------------------------
(* Lots, however requests overlap: a LEGACY batch belongs to no purchase and holds no *)
(* perishable product, only a LEGACY batch goes below zero, a batch that holds units  *)
(* is ACTIVE, a batch of a perishable product has an expiry date.                     *)

GoodRow(row) ==
    /\ row.legacy => row.purchase = "none" /\ row.product \notin Perishable
    /\ ~row.legacy => row.avail >= 0
    /\ row.avail > 0 => row.status = "ACTIVE"
    /\ row.product \in Perishable => row.expires # "never"
GoodSlot(q, rows) ==
    /\ q.pc = "adjust" => rows[q.ent].legacy
    /\ q.pc = "give" /\ ~rows[q.ent].legacy => q.avail >= 0
LotsInv ==
    /\ \A b \in DOMAIN batch : GoodRow(batch[b])
    /\ \A r \in Requests : GoodSlot(req[r], batch)

\* A step of request r that becomes q.
LEMMA LotsGoOn ==
    ASSUME TypeInv, LotsInv, NEW r \in Requests, NEW q, req' = [req EXCEPT ![r] = q],
           \A b \in DOMAIN batch : batch'[b].legacy = batch[b].legacy,
           \A b \in DOMAIN batch' : GoodRow(batch'[b]), GoodSlot(q, batch')
    PROVE  LotsInv'
<1>1. ASSUME NEW s \in Requests, s # r
      PROVE  GoodSlot(req'[s], batch')
  <2>1. req'[s] = req[s] /\ Holding(req[s], Len(batch), Len(allocs)) /\ DOMAIN batch = 1..Len(batch)
    BY <1>1, RowsTyped DEF TypeInv, RequestsHold
  <2>2. req[s].pc \in {"adjust", "give"} => req[s].ent \in DOMAIN batch
    BY <2>1 DEF Holding, HoldsBatch
  <2> QED
    BY <2>1, <2>2 DEF LotsInv, GoodSlot
<1>2. \A s \in Requests : GoodSlot(req'[s], batch')
  BY <1>1 DEF TypeInv, RequestsHold
<1> QED
  BY <1>2 DEF LotsInv

\* A step that writes no batch.
LEMMA LotsUnwritten ==
    ASSUME TypeInv, LotsInv, NEW r \in Requests, NEW q, req' = [req EXCEPT ![r] = q],
           UNCHANGED batch, GoodSlot(q, batch)
    PROVE  LotsInv'
  BY LotsGoOn DEF LotsInv

\* A step that saves one batch.
LEMMA LotsSaved ==
    ASSUME TypeInv, LotsInv, NEW r \in Requests, NEW q, req' = [req EXCEPT ![r] = q],
           NEW b \in DOMAIN batch, NEW row \in BatchRow, batch' = [batch EXCEPT ![b] = row],
           row.legacy = batch[b].legacy, GoodRow(row), q.pc \notin {"adjust", "give"}
    PROVE  LotsInv'
<1>1. /\ DOMAIN batch' = DOMAIN batch
      /\ \A c \in DOMAIN batch : batch'[c] = IF c = b THEN row ELSE batch[c]
  BY ReplacesBatch
<1>2. \A c \in DOMAIN batch : batch'[c].legacy = batch[c].legacy
  BY <1>1
<1>3. \A c \in DOMAIN batch' : GoodRow(batch'[c])
  BY <1>1 DEF LotsInv
<1>4. GoodSlot(q, batch')
  BY DEF GoodSlot
<1> QED
  BY <1>2, <1>3, <1>4, LotsGoOn

\* A step that appends a batch.
LEMMA LotsAppended ==
    ASSUME TypeInv, LotsInv, NEW r \in Requests, NEW q, req' = [req EXCEPT ![r] = q],
           DOMAIN batch' = DOMAIN batch \cup {Len(batch) + 1},
           \A b \in DOMAIN batch : batch'[b] = batch[b],
           GoodRow(batch'[Len(batch) + 1]), GoodSlot(q, batch')
    PROVE  LotsInv'
<1>1. \A b \in DOMAIN batch' : GoodRow(batch'[b])
  BY DEF LotsInv
<1> QED
  BY <1>1, LotsGoOn

\* The calls.
LEMMA BeginLots ==
    ASSUME TypeInv, LotsInv, NEW r \in Requests, Begin(r)
    PROVE  LotsInv'
<1>1. PICK q : /\ req' = [req EXCEPT ![r] = q]
               /\ \/ Writing(r, q)
                  \/ /\ Reading
                     /\ \/ UpdateStarts(q) \/ PayStarts(q) \/ CancelStarts(q)
                        \/ FindStarts(q) \/ ConsumeStarts(q) \/ RestoreStarts(q)
  BY BeginIs
<1>2. CASE Reading /\ RestoreStarts(q)
  <2>1. q.alloc \in DOMAIN allocs /\ q.ent \in DOMAIN batch /\ q.moving \in Nat /\ q.pc = "give"
    BY <1>2, RowsTyped DEF RestoreStarts, AllocationRow
  <2>2. batch[q.ent].avail \in Int
    BY <2>1, RowsTyped DEF BatchRow
  <2>3. ~batch[q.ent].legacy => batch[q.ent].avail >= 0
    BY <2>1 DEF LotsInv, GoodRow
  <2>4. ~batch[q.ent].legacy => q.avail >= 0
    BY <1>2, <2>1, <2>2, <2>3 DEF RestoreStarts
  <2>5. GoodSlot(q, batch)
    BY <2>1, <2>4 DEF GoodSlot
  <2> QED
    BY <1>1, <1>2, <2>5, LotsUnwritten DEF Reading
<1>3. CASE Reading /\ (UpdateStarts(q) \/ PayStarts(q) \/ CancelStarts(q) \/ FindStarts(q) \/ ConsumeStarts(q))
  <2>1. q.pc \notin {"adjust", "give"}
    BY <1>3 DEF UpdateStarts, PayStarts, CancelStarts, FindStarts, ConsumeStarts
  <2> QED
    BY <1>1, <1>3, <2>1, LotsUnwritten DEF Reading, GoodSlot
<1>4. ASSUME q = Idle, NEW u \in Purchases, CreatePurchase(r, u)
      PROVE  LotsInv'
  <2>1. /\ DOMAIN batch \subseteq DOMAIN batch'
        /\ \A b \in DOMAIN batch : batch'[b] = batch[b]
        /\ \A b \in DOMAIN batch' \ DOMAIN batch :
             \E i \in DOMAIN Lines[u] :
               batch'[b] = NewBatch(Lines[u][i].product, u, FALSE, Lines[u][i].dated, Lines[u][i].qty)
    BY <1>4, CreateRows
  <2>2. ASSUME NEW i \in DOMAIN Lines[u]
        PROVE  GoodRow(NewBatch(Lines[u][i].product, u, FALSE, Lines[u][i].dated, Lines[u][i].qty))
    <3> DEFINE row == NewBatch(Lines[u][i].product, u, FALSE, Lines[u][i].dated, Lines[u][i].qty)
    <3>1. Lines[u][i].qty \in Nat \ {0} /\ ~NeedsDate(Lines[u][i].product, Lines[u][i].dated)
      BY <1>4, LineTyped DEF CreatePurchase
    <3>2. /\ row.legacy = FALSE /\ row.avail = Lines[u][i].qty /\ row.status = "ACTIVE"
          /\ row.product = Lines[u][i].product
          /\ row.expires = IF Lines[u][i].dated THEN "ahead" ELSE "never"
      BY <3>1 DEF NewBatch
    <3> HIDE DEF row
    <3>3. GoodRow(row)
      BY <3>1, <3>2 DEF GoodRow, NeedsDate
    <3> QED
      BY <3>3 DEF row
  <2>3. \A b \in DOMAIN batch' : GoodRow(batch'[b])
    BY <2>1, <2>2 DEF LotsInv
  <2>4. GoodSlot(q, batch')
    BY <1>4, IdleTyped DEF GoodSlot
  <2> QED
    BY <1>1, <2>1, <2>3, <2>4, LotsGoOn
<1>5. ASSUME q.op = "entry", q.pc = "move", q.moving \in Entries, NEW p \in Products, NEW dated \in BOOLEAN,
             ~NeedsDate(p, dated), batch' = Append(batch, NewBatch(p, "none", FALSE, dated, q.moving)),
             moved' = Append(moved, [sum |-> 0, raised |-> 0]), UNCHANGED <<purchase, payments, allocs>>
      PROVE  LotsInv'
  <2> PICK n : n = q.moving
    OBVIOUS
  <2> DEFINE row == NewBatch(p, "none", FALSE, dated, n)
  <2>0. n \in Nat \ {0}
    BY <1>5, InputsTyped
  <2>1. /\ row.legacy = FALSE /\ row.avail = n /\ row.status = "ACTIVE" /\ row.product = p
        /\ row.expires = IF dated THEN "ahead" ELSE "never"
    BY <2>0 DEF NewBatch
  <2>2. row \in BatchRow
    <3>1. "none" \in Purchases \cup {"none"} /\ FALSE \in BOOLEAN /\ n \in Int
      BY <2>0
    <3> QED
      BY <3>1, NewBatchType
  <2>3. batch' = Append(batch, row)
    BY <1>5
  <2> HIDE DEF row
  <2>4. GoodRow(row)
    BY <1>5, <2>0, <2>1 DEF GoodRow, NeedsDate
  <2>5. /\ DOMAIN batch' = 1..Len(batch) + 1
        /\ \A b \in DOMAIN batch : batch'[b] = batch[b]
        /\ batch'[Len(batch) + 1] = row
    BY <1>5, <2>2, <2>3, AppendsBatch
  <2>6. DOMAIN batch' = DOMAIN batch \cup {Len(batch) + 1}
    BY <2>5, RowsTyped
  <2>7. GoodSlot(q, batch')
    BY <1>5 DEF GoodSlot
  <2> QED
    BY <1>1, <2>4, <2>5, <2>6, <2>7, LotsAppended
<1>6. CASE Writing(r, q)
  BY <1>4, <1>5, <1>6 DEF Writing
<1> QED
  BY <1>1, <1>2, <1>3, <1>6

\* The statements.
LEMMA RunLots ==
    ASSUME TypeInv, RoomInv, LotsInv, NEW r \in Requests, Run(r)
    PROVE  LotsInv'
<1>0. ASSUME NEW q, Becomes(r, q), UNCHANGED batch, q.pc \notin {"adjust", "give"}
      PROVE  LotsInv'
  BY <1>0, LotsUnwritten DEF Becomes, GoodSlot
<1>i. ASSUME Becomes(r, Idle), UNCHANGED batch
      PROVE  LotsInv'
  BY <1>0, <1>i, IdleTyped
<1>1. CASE SelectPurchase(r)
  BY <1>0, <1>1, <1>i, SelectIs DEF Reading
<1>2. CASE WritePurchase(r)
  BY <1>0, <1>2, <1>i, WriteIs
<1>3. CASE InsertPayment(r)
  BY <1>3, <1>i, ReceiptIs
<1>4. CASE LoadBatches(r)
  BY <1>0, <1>4, LoadIs DEF Reading
<1>5. CASE CommitCancel(r)
  <2>1. CASE Reading
    BY <1>5, <1>i, <2>1, CommitIs DEF Reading
  <2>2. CASE batch' = [b \in DOMAIN batch |->
                         IF b \in BoughtWith(req[r].purchase) THEN Blocked(batch[b]) ELSE batch[b]]
    <3>1. \A b \in DOMAIN batch :
            batch'[b] = IF b \in BoughtWith(req[r].purchase) THEN Blocked(batch[b]) ELSE batch[b]
      BY <2>2
    <3>2. ASSUME NEW b \in DOMAIN batch
          PROVE  Blocked(batch[b]).legacy = batch[b].legacy /\ GoodRow(Blocked(batch[b]))
      BY RowsTyped, BlockedTyped DEF LotsInv, GoodRow
    <3>3. DOMAIN batch' = DOMAIN batch /\ req' = [req EXCEPT ![r] = Idle] /\ GoodSlot(Idle, batch')
      BY <1>5, <2>2, CommitIs, IdleTyped DEF Becomes, GoodSlot
    <3>4. \A b \in DOMAIN batch : batch'[b].legacy = batch[b].legacy /\ GoodRow(batch'[b])
      BY <3>1, <3>2 DEF LotsInv
    <3> QED
      BY <3>3, <3>4, LotsGoOn
  <2> QED
    BY <1>5, <2>1, <2>2, CommitIs
<1>6. CASE FindLegacy(r)
  <2>1. PICK q : /\ Becomes(r, q)
                 /\ \/ q = Idle \/ q.pc = "insert"
                    \/ \E b \in LegacyOf(req[r].product) :
                         PastLegacy(q, req[r], b, batch[b].avail, batch[b].initial)
                    \/ req[r].op # "adjust" /\ PastLegacy(q, req[r], 0, req[r].avail, req[r].initial)
    BY <1>6, FindIs
  <2>2. q.pc = "adjust" => q.ent \in LegacyOf(req[r].product)
    BY <2>1, IdleTyped DEF PastLegacy
  <2>3. q.pc # "give"
    BY <2>1, IdleTyped DEF PastLegacy
  <2>4. UNCHANGED batch
    BY <1>6, FindIs DEF Reading
  <2>5. GoodSlot(q, batch)
    BY <2>2, <2>3 DEF GoodSlot, LegacyOf
  <2> QED
    BY <2>1, <2>4, <2>5, LotsUnwritten DEF Becomes
<1>7. CASE InsertLegacy(r)
  <2> PICK n : n = req[r].moving
    OBVIOUS
  <2> DEFINE row == NewBatch(req[r].product, "none", TRUE, FALSE, n)
  <2>1. /\ MoreLegacy(req[r].product) /\ batch'[Len(batch) + 1] = row
        /\ n \in Nat /\ req[r].product \notin Perishable
    BY <1>7, LegacyAdded, InsertIs
  <2>2. GoodRow(row)
    BY <2>1 DEF GoodRow, NewBatch
  <2>3. row.legacy
    BY DEF NewBatch
  <2>4. PICK q : Becomes(r, q) /\ PastLegacy(q, req[r], Len(batch) + 1, n, n)
    BY <1>7, InsertIs
  <2>5. GoodSlot(q, batch')
    BY <2>1, <2>3, <2>4, IdleTyped DEF GoodSlot, PastLegacy
  <2> HIDE DEF row
  <2> QED
    BY <2>1, <2>2, <2>4, <2>5, LotsAppended DEF Becomes, MoreLegacy
<1>8. CASE AdjustBatch(r)
  <2>1. PICK row \in BatchRow :
          /\ batch' = [batch EXCEPT ![req[r].ent] = row]
          /\ row.product = batch[req[r].ent].product /\ row.legacy = batch[req[r].ent].legacy
          /\ row.purchase = batch[req[r].ent].purchase /\ row.expires = batch[req[r].ent].expires
          /\ row.status = StatusFor(row.avail)
    BY <1>8, AdjustIs
  <2>2. req[r].ent \in DOMAIN batch /\ req[r].pc = "adjust"
    BY <1>8, AdjustIs
  <2>3. batch[req[r].ent].legacy /\ GoodRow(batch[req[r].ent])
    BY <2>2 DEF LotsInv, GoodSlot
  <2>4. row.avail \in Int
    BY DEF BatchRow
  <2>5. GoodRow(row)
    BY <2>1, <2>3, <2>4 DEF GoodRow, StatusFor
  <2>6. PICK q : Becomes(r, q) /\ q.pc = "move"
    BY <1>8, AdjustIs
  <2> QED
    BY <2>1, <2>2, <2>5, <2>6, LotsSaved DEF Becomes
<1>9. CASE InsertMovement(r)
  BY <1>9, <1>i, MoveIs
<1>10. CASE ReadCandidates(r)
  BY <1>0, <1>10, <1>i, ReadIs, RoomFits DEF Reading
<1>11. CASE TakeBatch(r)
  <2>t. PICK b \in DOMAIN batch, n \in Nat \ {0}, row \in BatchRow : \E q : Takes(r, b, n, row, q)
    BY <1>11, TakeIs
  <2>1. PICK q : Takes(r, b, n, row, q)
    BY <2>t
  <2>2. /\ batch' = [batch EXCEPT ![b] = row] /\ row.legacy = batch[b].legacy
        /\ row.product = batch[b].product /\ row.purchase = batch[b].purchase
        /\ row.expires = batch[b].expires /\ row.status = StatusFor(row.avail)
        /\ row.avail = req[r].plan[b] - n /\ n <= req[r].plan[b] /\ b \in BatchIds
        /\ req' = [req EXCEPT ![r] = q] /\ q.pc = "alloc"
    BY <2>1 DEF Takes, Becomes
  <2>3. row.avail >= 0 /\ row.avail \in Int
    <3>1. req[r].plan[b] \in Nat
      BY <2>2, RowsTyped, SMTT(30) DEF Request
    <3> QED
      BY <2>2, <3>1
  <2>4. GoodRow(row)
    BY <2>2, <2>3 DEF GoodRow, StatusFor, LotsInv
  <2> QED
    BY <2>2, <2>4, LotsSaved
<1>12. CASE InsertAllocation(r)
  BY <1>0, <1>12, <1>i, AllocIs
<1>13. CASE GiveBack(r)
  <2>1. PICK row \in BatchRow :
          /\ batch' = [batch EXCEPT ![req[r].ent] = row]
          /\ row.product = batch[req[r].ent].product /\ row.legacy = batch[req[r].ent].legacy
          /\ row.purchase = batch[req[r].ent].purchase /\ row.expires = batch[req[r].ent].expires
          /\ row.avail = req[r].avail /\ row.status = "ACTIVE"
    BY <1>13, GiveIs
  <2>2. req[r].ent \in DOMAIN batch /\ req[r].pc = "give"
    BY <1>13, GiveIs
  <2>3. GoodRow(batch[req[r].ent]) /\ (~batch[req[r].ent].legacy => req[r].avail >= 0)
    BY <2>2 DEF LotsInv, GoodSlot
  <2>4. GoodRow(row)
    BY <2>1, <2>3 DEF GoodRow
  <2>5. PICK q : Becomes(r, q) /\ q.pc = "mark"
    BY <1>13, GiveIs
  <2> QED
    BY <2>1, <2>2, <2>4, <2>5, LotsSaved DEF Becomes
<1>14. CASE MarkRestored(r)
  BY <1>14, <1>i, MarkIs
<1> QED
  BY <1>1, <1>2, <1>3, <1>4, <1>5, <1>6, <1>7, <1>8, <1>9, <1>10, <1>11, <1>12, <1>13, <1>14 DEF Run

\* Every step.
LEMMA NextLots ==
    ASSUME TypeInv, RoomInv, LotsInv, [Next]_vars
    PROVE  TypeInv' /\ RoomInv' /\ LotsInv'
<1>0. TypeInv' /\ RoomInv'
  BY NextTypes
<1>1. CASE UNCHANGED vars
  BY <1>0, <1>1 DEF vars, LotsInv
<1>2. ASSUME NEW b \in DOMAIN batch, Expire(b)
      PROVE  LotsInv'
  <2> DEFINE row == [batch[b] EXCEPT !.expires = "past"]
  <2>1. batch' = [batch EXCEPT ![b] = row] /\ UNCHANGED req
    BY <1>2 DEF Expire
  <2>2. /\ row \in BatchRow /\ row.legacy = batch[b].legacy /\ row.product = batch[b].product
        /\ row.purchase = batch[b].purchase /\ row.avail = batch[b].avail
        /\ row.status = batch[b].status /\ row.expires = "past"
    BY RowsTyped, SMTT(40) DEF BatchRow, Expiry
  <2> HIDE DEF row
  <2>3. GoodRow(row)
    BY <2>2 DEF LotsInv, GoodRow
  <2>4. /\ DOMAIN batch' = DOMAIN batch
        /\ \A c \in DOMAIN batch : batch'[c] = IF c = b THEN row ELSE batch[c]
    BY <2>1, <2>2, ReplacesBatch
  <2>5. ASSUME NEW s \in Requests
        PROVE  GoodSlot(req[s], batch')
    <3>1. Holding(req[s], Len(batch), Len(allocs)) /\ DOMAIN batch = 1..Len(batch)
      BY RowsTyped
    <3>2. req[s].pc \in {"adjust", "give"} => req[s].ent \in DOMAIN batch
      BY <3>1 DEF Holding, HoldsBatch
    <3> QED
      BY <2>2, <2>4, <3>2 DEF LotsInv, GoodSlot
  <2> QED
    BY <2>1, <2>3, <2>4, <2>5 DEF LotsInv
<1>3. ASSUME NEW r \in Requests, Die(r)
      PROVE  LotsInv'
  <2>1. req' = [req EXCEPT ![r] = Idle] /\ UNCHANGED batch /\ GoodSlot(Idle, batch)
    BY <1>3, IdleTyped DEF Die, Throw, Goto, GoodSlot
  <2> QED
    BY <2>1, LotsUnwritten
<1> QED
  BY <1>0, <1>1, <1>2, <1>3, BeginLots, RunLots DEF Next

\* In every behaviour.
LEMMA LotsAlways == Spec => [](TypeInv /\ RoomInv /\ LotsInv)
<1>1. Init => LotsInv
  BY IdleTyped DEF Init, LotsInv, GoodSlot
<1> QED
  BY <1>1, InitTypes, NextLots, PTL DEF Spec

\* What the panel counts as stock can be sold but for what has expired: the batches that
\* hold units are the usable ones and the expired ones, and no expired one is below zero.
THEOREM SummaryHolds == Spec => []SummaryIsSellable
<1>1. TypeInv /\ LotsInv => SummaryIsSellable
  <2> SUFFICES ASSUME TypeInv, LotsInv, NEW p \in Products
               PROVE  SummaryStock(p) = Units(Usable(p)) + Units(Expired(p))
    BY DEF SummaryIsSellable
  <2> DEFINE S == Usable(p) \cup Expired(p)
             T == {b \in BatchesOf(p) : batch[b].avail > 0}
             f == [b \in DOMAIN batch |-> batch[b].avail]
  <2>1. \A b \in DOMAIN batch : /\ batch[b] \in BatchRow /\ batch[b].avail \in Int
                                /\ batch[b].expires \in Expiry
                                /\ GoodRow(batch[b]) /\ f[b] = batch[b].avail
    BY RowsTyped DEF LotsInv, BatchRow
  <2>2. /\ Usable(p) \in SUBSET DOMAIN batch /\ Expired(p) \in SUBSET DOMAIN batch
        /\ S \in SUBSET DOMAIN batch /\ T \in SUBSET DOMAIN batch
    BY DEF Usable, OnSale, Expired, BatchesOf
  <2>3. /\ IsFiniteSet(Usable(p)) /\ IsFiniteSet(Expired(p)) /\ IsFiniteSet(S) /\ IsFiniteSet(T)
    BY <2>2, StockTyped
  <2>4. Usable(p) \cap Expired(p) = {}
    BY DEF Usable, Expired
  <2>5. T \in SUBSET S
    <3> SUFFICES ASSUME NEW b \in T
                 PROVE  b \in S
      OBVIOUS
    <3>1. /\ b \in DOMAIN batch /\ batch[b].product = p /\ batch[b].avail > 0
          /\ batch[b].status = "ACTIVE" /\ batch[b].expires \in Expiry
          /\ p \in Perishable => batch[b].expires # "never"
      BY <2>1 DEF GoodRow, BatchesOf
    <3> QED
      BY <3>1 DEF Usable, OnSale, Expired, BatchesOf, Expiry
  <2>6. \A b \in S \ T : batch[b].avail = 0
    <3> SUFFICES ASSUME NEW b \in S, b \notin T
                 PROVE  batch[b].avail = 0
      OBVIOUS
    <3>1. b \in Expired(p) /\ batch[b].product = p /\ p \in Perishable /\ b \in DOMAIN batch
      BY DEF Usable, OnSale, Expired, BatchesOf
    <3>2. ~batch[b].legacy /\ batch[b].avail >= 0 /\ ~(batch[b].avail > 0) /\ batch[b].avail \in Int
      BY <2>1, <3>1 DEF GoodRow, BatchesOf
    <3> QED
      BY <3>2
  <2>7. \A b \in S : f[b] = IF b \in T THEN f[b] ELSE 0
    BY <2>1, <2>2, <2>6
  <2>8. \A b \in T : f[b] \in Int
    BY <2>1, <2>2
  <2>9. \A b \in Usable(p) \cup Expired(p) : f[b] \in Int
    BY <2>1, <2>2
  <2>10. ASSUME NEW V \in SUBSET DOMAIN batch
         PROVE  Units(V) = SumOf(f, V)
    <3>1. IsFiniteSet(V) /\ \A b \in V : f[b] = batch[b]["avail"]
      BY <2>1, StockTyped
    <3>2. SumOfColumn(batch, "avail", V) = SumOf(f, V)
      <4> HIDE DEF f
      <4> QED
        BY <3>1, ColumnIsSum
    <3> QED
      BY <3>2, SumsAreColumns
  <2>11. SummaryStock(p) = Units(T)
    BY DEF SummaryStock
  <2> HIDE DEF f, S, T
  <2>12. SumOf(f, S) = SumOf(f, T)
    BY <2>3, <2>5, <2>7, <2>8, SumWhere
  <2>13. SumOf(f, Usable(p) \cup Expired(p)) = SumOf(f, Usable(p)) + SumOf(f, Expired(p))
    BY <2>3, <2>4, <2>9, SumUnion
  <2> QED
    BY <2>2, <2>10, <2>11, <2>12, <2>13 DEF S
<1> QED
  BY <1>1, LotsAlways, PTL
=============================================================================
