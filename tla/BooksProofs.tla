---------------------------- MODULE BooksProofs -----------------------------
(***************************************************************************)
(* Proofs about what the tables of Stockroom say of each other: purchases  *)
(* and their payments, lots and the allocations of orders, batches and     *)
(* their movements.                                                        *)
(***************************************************************************)
EXTENDS StockroomProofs
-----------------------------------------------------------------------------
(* What has been paid: the payments inserted and those on their way *)

Way(q, u) == IF q.pc = "receipt" /\ q.purchase = u THEN q.qty ELSE 0
WayOf(rq, u) == SumOf([r \in Requests |-> Way(rq[r], u)], Requests)
GotOf(pays, u) == SumOf(pays[u], DOMAIN pays[u])
LargestAmount == Max({0} \cup Amounts)

\* No payment exceeds the largest one.
LEMMA LargestAmountIs == LargestAmount \in Nat /\ \A amount \in Amounts : amount <= LargestAmount
<1> DEFINE S == {0} \cup Amounts
<1>1. IsFiniteSet({0}) /\ IsFiniteSet(Amounts)
  BY FS_Singleton, StockroomAssumption
<1>2. IsFiniteSet(S)
  BY <1>1, FS_Union
<1>3. S # {} /\ S \subseteq Int /\ 0 \in S /\ Amounts \subseteq S
  BY InputsTyped
<1>3a. LargestAmount = Max(S)
  BY DEF LargestAmount
<1> HIDE DEF S
<1>4. Max(S) \in S /\ \A y \in S : y <= Max(S)
  BY ONLY <1>2, <1>3, MaxIsLargest
<1>6. S \subseteq Nat
  BY InputsTyped DEF S
<1> QED
  BY <1>3, <1>3a, <1>4, <1>6

\* What is on its way when a request goes on.
LEMMA WayChanges ==
    ASSUME NEW rq \in [Requests -> Request], NEW r \in Requests, NEW q \in Request, NEW u
    PROVE  /\ WayOf(rq, u) \in Int /\ Way(q, u) \in Int /\ Way(rq[r], u) \in Int
           /\ WayOf([rq EXCEPT ![r] = q], u) = WayOf(rq, u) + (Way(q, u) - Way(rq[r], u))
<1> DEFINE f == [s \in Requests |-> Way(rq[s], u)]
           g == [s \in Requests |-> Way([rq EXCEPT ![r] = q][s], u)]
<1>1. \A s \in Requests : rq[s].qty \in Int
  BY DEF Request
<1>2. q.qty \in Int
  BY DEF Request
<1>3. \A s \in Requests : f[s] \in Int
  BY <1>1 DEF Way
<1>4. \A s \in Requests \ {r} : g[s] = f[s]
  OBVIOUS
<1>5. g[r] = Way(q, u) /\ f[r] = Way(rq[r], u) /\ g[r] \in Int
  BY <1>2 DEF Way
<1>6. \A s \in Requests : f[s] \in Int /\ g[s] \in Int
  BY <1>3, <1>4, <1>5
<1>7. WayOf(rq, u) = SumOf(f, Requests) /\ WayOf([rq EXCEPT ![r] = q], u) = SumOf(g, Requests)
  BY DEF WayOf
<1> HIDE DEF f, g
<1>8. SumOf(g, Requests) = SumOf(f, Requests) + (g[r] - f[r])
  BY <1>4, <1>6, SumChange, StockroomAssumption
<1>9. SumOf(f, Requests) \in Int
  BY <1>6, SumType, StockroomAssumption
<1> QED
  BY <1>5, <1>6, <1>7, <1>8, <1>9

\* Payments that were inserted add up, and one more adds its amount.
LEMMA ReceivedGrows ==
    ASSUME NEW s \in Seq(Nat \ {0}), NEW x \in Nat \ {0}
    PROVE  /\ SumOf(s, DOMAIN s) \in Nat
           /\ SumOf(Append(s, x), DOMAIN Append(s, x)) = x + SumOf(s, DOMAIN s)
<1> DEFINE t == Append(s, x)
<1> PICK n \in Nat : n = Len(s)
  OBVIOUS
<1>1. DOMAIN s = 1..n /\ \A i \in 1..n : s[i] \in Nat
  OBVIOUS
<1>2. DOMAIN t = 1..n + 1 /\ t[n + 1] = x /\ \A i \in 1..n : t[i] = s[i]
  OBVIOUS
<1>3. 1..n + 1 = (1..n) \cup {n + 1} /\ n + 1 \notin 1..n
  OBVIOUS
<1>4. IsFiniteSet(1..n)
  <2>1. 1 \in Int /\ n \in Int
    OBVIOUS
  <2> QED
    BY ONLY <2>1, FS_Interval
<1>5. SumOf(s, 1..n) \in Nat
  BY <1>1, <1>4, SumOfNats
<1> HIDE DEF t
<1>6. SumOf(t, 1..n) = SumOf(s, 1..n)
  BY <1>2, <1>4, SumSame
<1>7. \A i \in (1..n) \cup {n + 1} : t[i] \in Int
  BY <1>1, <1>2
<1>8. SumOf(t, (1..n) \cup {n + 1}) = t[n + 1] + SumOf(t, 1..n)
  BY <1>3, <1>4, <1>7, SumInsert
<1> QED
  BY <1>1, <1>2, <1>3, <1>5, <1>6, <1>8 DEF t

\* The model's sums.
LEMMA PaidIsSum ==
    ASSUME TypeInv, NEW u \in Purchases
    PROVE  /\ Received(u) = GotOf(payments, u)
           /\ MapThenSumSet(LAMBDA r : req[r].qty, OnTheWay(u)) = WayOf(req, u)
<1>1. Received(u) = GotOf(payments, u)
  BY ReceivedIsSum DEF GotOf
<1> DEFINE S == OnTheWay(u)
           f == [r \in Requests |-> req[r].qty]
           g == [r \in Requests |-> Way(req[r], u)]
<1>2. MapThenSumSet(LAMBDA r : req[r].qty, S) = SumOfColumn(req, "qty", S)
  BY SumsAreColumns
<1>3. IsFiniteSet(Requests) /\ S \in SUBSET Requests
  BY StockroomAssumption DEF OnTheWay
<1>4. IsFiniteSet(S)
  BY <1>3, FS_Subset
<1>5. \A r \in S : f[r] = req[r]["qty"] /\ f[r] \in Int
  BY <1>3, RowsTyped DEF Request
<1>6. \A r \in Requests : g[r] = IF r \in S THEN f[r] ELSE 0
  BY DEF OnTheWay, Way
<1>7. WayOf(req, u) = SumOf(g, Requests)
  BY DEF WayOf
<1> HIDE DEF f, g, S
<1>8. SumOfColumn(req, "qty", S) = SumOf(f, S)
  BY <1>4, <1>5, ColumnIsSum
<1>9. SumOf(g, Requests) = SumOf(f, S)
  BY <1>3, <1>5, <1>6, SumWhere
<1> QED
  BY <1>1, <1>2, <1>7, <1>8, <1>9 DEF S

-----------------------------------------------------------------------------
(* However requests overlap, neither a purchase nor an entity of it that a request *)
(* has in hand counts as paid more than was paid.                                  *)

BoundOf(pays, rq, faults, u) ==
    PaidUpFront[u] + GotOf(pays, u) + WayOf(rq, u) + faults * LargestAmount
Owes(q) == IF q.op = "pay" THEN q.qty ELSE 0
InHandPaid(q) == q.pc \in {"select", "write", "load", "block"}
PaidInv ==
    /\ \A u \in Purchases : purchase[u].paid <= BoundOf(payments, req, used.faults, u)
    /\ \A r \in Requests, u \in Purchases :
         InHandPaid(req[r]) /\ req[r].purchase = u =>
           req[r].row.paid - Owes(req[r]) <= BoundOf(payments, req, used.faults, u)

\* The bound in numbers.
LEMMA BoundTyped ==
    ASSUME NEW pays \in [Purchases -> Seq(Nat \ {0})], NEW rq \in [Requests -> Request],
           NEW faults \in Nat, NEW u \in Purchases, Requests # {}
    PROVE  /\ BoundOf(pays, rq, faults, u) \in Int /\ PaidUpFront[u] \in Nat
           /\ GotOf(pays, u) \in Nat /\ WayOf(rq, u) \in Int /\ faults * LargestAmount \in Nat
<1>1. PaidUpFront[u] \in Nat
  BY StockroomAssumption
<1>2. GotOf(pays, u) \in Nat
  <2>1. pays[u] \in Seq(Nat \ {0}) /\ 1 \in Nat \ {0}
    OBVIOUS
  <2> QED
    BY <2>1, ReceivedGrows DEF GotOf
<1>3. WayOf(rq, u) \in Int
  <2>1. PICK r \in Requests : rq[r] \in Request
    OBVIOUS
  <2> QED
    BY <2>1, WayChanges
<1>4. faults * LargestAmount \in Nat
  BY LargestAmountIs
<1> QED
  BY <1>1, <1>2, <1>3, <1>4 DEF BoundOf

\* When a request goes on and no payment is inserted, the bound follows what is on its way.
LEMMA BoundGoesOn ==
    ASSUME TypeInv, TypeInv', NEW r \in Requests, NEW q, req' = [req EXCEPT ![r] = q],
           UNCHANGED payments, used'.faults = used.faults, NEW u \in Purchases
    PROVE  /\ BoundOf(payments, req, used.faults, u) \in Int /\ Way(q, u) \in Int
           /\ Way(req[r], u) \in Int
           /\ BoundOf(payments', req', used'.faults, u)
                = BoundOf(payments, req, used.faults, u) + (Way(q, u) - Way(req[r], u))
<1>1. req \in [Requests -> Request] /\ payments \in [Purchases -> Seq(Nat \ {0})] /\ used.faults \in Nat
  BY RowsTyped DEF TypeInv, RequestsHold, TablesOK
<1>2. q \in Request
  BY <1>1 DEF TypeInv, RequestsHold
<1>3. /\ BoundOf(payments, req, used.faults, u) \in Int /\ PaidUpFront[u] \in Nat
      /\ GotOf(payments, u) \in Nat /\ WayOf(req, u) \in Int /\ used.faults * LargestAmount \in Nat
  BY <1>1, BoundTyped
<1>4. /\ WayOf(req', u) = WayOf(req, u) + (Way(q, u) - Way(req[r], u))
      /\ Way(q, u) \in Int /\ Way(req[r], u) \in Int
  BY <1>1, <1>2, WayChanges
<1> QED
  BY <1>3, <1>4 DEF BoundOf

\* A step that lowers no bound.
LEMMA PaidGoesOn ==
    ASSUME TypeInv, TypeInv', PaidInv, NEW r \in Requests, NEW q, req' = [req EXCEPT ![r] = q],
           \A u \in Purchases : BoundOf(payments, req, used.faults, u) \in Int,
           \A u \in Purchases : BoundOf(payments', req', used'.faults, u) \in Int,
           \A u \in Purchases :
             BoundOf(payments, req, used.faults, u) <= BoundOf(payments', req', used'.faults, u),
           \A u \in Purchases :
             \/ purchase'[u].paid = purchase[u].paid
             \/ purchase'[u].paid <= BoundOf(payments', req', used'.faults, u),
           \A u \in Purchases :
             InHandPaid(q) /\ q.purchase = u =>
               q.row.paid - Owes(q) <= BoundOf(payments', req', used'.faults, u)
    PROVE  PaidInv'
<1>1. ASSUME NEW u \in Purchases
      PROVE  purchase'[u].paid <= BoundOf(payments', req', used'.faults, u)
  <2>1. purchase[u].paid \in Int /\ purchase[u].paid <= BoundOf(payments, req, used.faults, u)
    BY RowsTyped DEF PurchaseRow, PaidInv
  <2> PICK low \in Int : low = BoundOf(payments, req, used.faults, u)
    OBVIOUS
  <2> PICK high \in Int : high = BoundOf(payments', req', used'.faults, u)
    OBVIOUS
  <2>2. low <= high
    OBVIOUS
  <2>3. purchase[u].paid <= high
    BY <2>1, <2>2
  <2> QED
    BY <2>3
<1>2. ASSUME NEW s \in Requests, NEW u \in Purchases, InHandPaid(req'[s]), req'[s].purchase = u
      PROVE  req'[s].row.paid - Owes(req'[s]) <= BoundOf(payments', req', used'.faults, u)
  <2>1. CASE s = r
    BY <1>2, <2>1 DEF TypeInv, RequestsHold
  <2>2. CASE s # r
    <3>1. req'[s] = req[s]
      BY <2>2 DEF TypeInv, RequestsHold
    <3>2. req[s].row \in PurchaseRow /\ req[s].qty \in Int
      BY RowsTyped DEF Request
    <3>3. req[s].row.paid \in Int /\ Owes(req[s]) \in Int
      BY <3>2 DEF PurchaseRow, Owes
    <3> PICK rest \in Int : rest = req[s].row.paid - Owes(req[s])
      BY <3>3
    <3> PICK low \in Int : low = BoundOf(payments, req, used.faults, u)
      OBVIOUS
    <3> PICK high \in Int : high = BoundOf(payments', req', used'.faults, u)
      OBVIOUS
    <3>4. rest <= low
      BY <1>2, <3>1 DEF PaidInv
    <3>5. low <= high
      OBVIOUS
    <3>6. rest <= high
      BY <3>4, <3>5
    <3> QED
      BY <3>1, <3>6
  <2> QED
    BY <2>1, <2>2
<1> QED
  BY <1>1, <1>2 DEF PaidInv

\* A step after which as much is on its way as before.
LEMMA PaidStill ==
    ASSUME TypeInv, TypeInv', PaidInv, NEW r \in Requests, NEW q, req' = [req EXCEPT ![r] = q],
           UNCHANGED payments, used'.faults = used.faults, q.pc # "receipt", req[r].pc # "receipt",
           \A u \in Purchases :
             \/ purchase'[u].paid = purchase[u].paid
             \/ purchase'[u].paid <= BoundOf(payments, req, used.faults, u),
           \A u \in Purchases :
             InHandPaid(q) /\ q.purchase = u =>
               q.row.paid - Owes(q) <= BoundOf(payments, req, used.faults, u)
    PROVE  PaidInv'
<1>1. ASSUME NEW u \in Purchases
      PROVE  /\ BoundOf(payments', req', used'.faults, u) = BoundOf(payments, req, used.faults, u)
             /\ BoundOf(payments, req, used.faults, u) \in Int
  <2>1. Way(q, u) = 0 /\ Way(req[r], u) = 0
    BY DEF Way
  <2>2. /\ BoundOf(payments, req, used.faults, u) \in Int
        /\ BoundOf(payments', req', used'.faults, u)
             = BoundOf(payments, req, used.faults, u) + (Way(q, u) - Way(req[r], u))
    BY BoundGoesOn
  <2> PICK low \in Int : low = BoundOf(payments, req, used.faults, u)
    BY <2>2
  <2>3. BoundOf(payments', req', used'.faults, u) = low
    BY <2>1, <2>2
  <2> QED
    BY <2>3
<1>2. \A u \in Purchases :
        BoundOf(payments, req, used.faults, u) <= BoundOf(payments', req', used'.faults, u)
  <2> TAKE u \in Purchases
  <2> PICK low \in Int : low = BoundOf(payments, req, used.faults, u)
    BY <1>1
  <2>1. low <= low
    OBVIOUS
  <2> QED
    BY <1>1, <2>1
<1> QED
  BY <1>1, <1>2, PaidGoesOn

\* Nothing negative is on its way, and what a request has on its way is one payment.
LEMMA WayBounded ==
    ASSUME TypeInv, NEW u \in Purchases
    PROVE  /\ WayOf(req, u) \in Nat
           /\ \A r \in Requests : Way(req[r], u) \in Nat /\ Way(req[r], u) <= LargestAmount
<1>1. ASSUME NEW r \in Requests
      PROVE  Way(req[r], u) \in Nat /\ Way(req[r], u) <= LargestAmount
  <2>1. CASE req[r].pc = "receipt"
    <3>1. req[r].qty \in Amounts
      <4>1. Holding(req[r], Len(batch), Len(allocs))
        BY RowsTyped
      <4> QED
        BY <2>1, <4>1 DEF Holding, HoldsPurchase, OpsAt
    <3>2. req[r].qty \in Nat /\ req[r].qty <= LargestAmount /\ 0 <= LargestAmount
      BY <3>1, InputsTyped, LargestAmountIs
    <3> QED
      BY <3>2 DEF Way
  <2>2. CASE req[r].pc # "receipt"
    BY <2>2, LargestAmountIs DEF Way
  <2> QED
    BY <2>1, <2>2
<1> DEFINE f == [s \in Requests |-> Way(req[s], u)]
<1>2. \A s \in Requests : f[s] \in Nat
  BY <1>1
<1>3. WayOf(req, u) = SumOf(f, Requests)
  BY DEF WayOf
<1> HIDE DEF f
<1>4. SumOf(f, Requests) \in Nat
  BY <1>2, SumOfNats, StockroomAssumption
<1> QED
  BY <1>1, <1>3, <1>4

\* The calls.
LEMMA BeginPaid ==
    ASSUME TypeInv, TypeInv', PaidInv, NEW r \in Requests, Begin(r)
    PROVE  PaidInv'
<1>1. PICK q : /\ req' = [req EXCEPT ![r] = q]
               /\ \/ Writing(r, q)
                  \/ /\ Reading
                     /\ \/ UpdateStarts(q) \/ PayStarts(q) \/ CancelStarts(q)
                        \/ FindStarts(q) \/ ConsumeStarts(q) \/ RestoreStarts(q)
  BY BeginIs
<1>2. req[r].pc = "idle" /\ used'.faults = used.faults
  BY BeginIs, IdleTyped
<1>3. CASE Reading /\ (FindStarts(q) \/ ConsumeStarts(q) \/ RestoreStarts(q))
  <2>1. ~InHandPaid(q) /\ q.pc # "receipt"
    BY <1>3 DEF FindStarts, ConsumeStarts, RestoreStarts, InHandPaid
  <2> QED
    BY <1>1, <1>2, <1>3, <2>1, PaidStill DEF Reading
<1>4. CASE Reading /\ (UpdateStarts(q) \/ PayStarts(q) \/ CancelStarts(q))
  <2>1. q.purchase \in Purchases /\ q.pc # "receipt"
    BY <1>4 DEF UpdateStarts, PayStarts, CancelStarts
  <2>2. purchase[q.purchase] \in PurchaseRow /\ purchase[q.purchase].paid \in Int
    BY <2>1, RowsTyped DEF PurchaseRow
  <2>3. q.row.paid - Owes(q) = purchase[q.purchase].paid
    <3>1. CASE UpdateStarts(q)
      BY <2>2, <3>1 DEF UpdateStarts, Owes
    <3>2. CASE CancelStarts(q)
      BY <2>2, <3>2 DEF CancelStarts, Owes, PurchaseRow
    <3>3. CASE PayStarts(q)
      <4>1. q.op = "pay" /\ q.qty \in Int
        BY <3>3, InputsTyped DEF PayStarts
      <4>2. q.row.paid = purchase[q.purchase].paid + q.qty
        BY <3>3 DEF PayStarts, Paid
      <4> QED
        BY <2>2, <4>1, <4>2 DEF Owes
    <3> QED
      BY <1>4, <3>1, <3>2, <3>3
  <2>4. \A u \in Purchases :
          InHandPaid(q) /\ q.purchase = u =>
            q.row.paid - Owes(q) <= BoundOf(payments, req, used.faults, u)
    BY <2>1, <2>3 DEF PaidInv
  <2> QED
    BY <1>1, <1>2, <1>4, <2>1, <2>4, PaidStill DEF Reading
<1>5. ASSUME q = Idle, NEW u \in Purchases, CreatePurchase(r, u)
      PROVE  PaidInv'
  <2>1. /\ purchase' = [purchase EXCEPT ![u] = [status |-> ResolveStatus(Total(u), PaidUpFront[u]),
                          paid |-> PaidUpFront[u], balance |-> Total(u) - PaidUpFront[u]]]
        /\ UNCHANGED payments
    BY <1>5 DEF CreatePurchase
  <2>2. purchase'[u].paid = PaidUpFront[u] /\ \A v \in Purchases : v # u => purchase'[v] = purchase[v]
    BY <2>1 DEF TypeInv, TablesOK
  <2>3. PaidUpFront[u] <= BoundOf(payments, req, used.faults, u)
    <3>1. req \in [Requests -> Request] /\ payments \in [Purchases -> Seq(Nat \ {0})] /\ used.faults \in Nat
      BY RowsTyped DEF TypeInv, RequestsHold, TablesOK
    <3>2. /\ PaidUpFront[u] \in Nat /\ GotOf(payments, u) \in Nat /\ used.faults * LargestAmount \in Nat
      BY <3>1, BoundTyped
    <3>3. WayOf(req, u) \in Nat
      BY WayBounded
    <3> QED
      BY <3>2, <3>3 DEF BoundOf
  <2>4. q.pc = "idle"
    BY <1>5, IdleTyped
  <2> QED
    BY <1>1, <1>2, <2>1, <2>2, <2>3, <2>4, PaidStill DEF InHandPaid
<1>6. ASSUME q.op = "entry", q.pc = "move", UNCHANGED <<purchase, payments, allocs>>
      PROVE  PaidInv'
  BY <1>1, <1>2, <1>6, PaidStill DEF InHandPaid
<1>7. CASE Writing(r, q)
  BY <1>5, <1>6, <1>7 DEF Writing
<1> QED
  BY <1>1, <1>3, <1>4, <1>7

\* The save of a purchase.
LEMMA WritePaid ==
    ASSUME TypeInv, TypeInv', PaidInv, NEW r \in Requests, WritePurchase(r)
    PROVE  PaidInv'
<1> PICK p : p = req[r]
  OBVIOUS
<1>0. p \in Request /\ p.pc = "write" /\ p.purchase \in Purchases /\ (p.op = "pay" => p.qty \in Nat)
  <2>1. p \in Request /\ Holding(p, Len(batch), Len(allocs)) /\ p.pc = "write"
    BY RowsTyped, WriteIs
  <2> QED
    BY <2>1, InputsTyped DEF Holding, HoldsPurchase, OpsAt
<1>1. PICK row \in PurchaseRow :
        /\ purchase' = [purchase EXCEPT ![p.purchase] = row]
        /\ row.paid = IF "paid" \in p.cols THEN p.row.paid ELSE purchase[p.purchase].paid
  BY WriteIs
<1>2. UNCHANGED payments
  BY WriteIs
<1> PICK u \in Purchases : u = p.purchase
  BY <1>0
<1>3. purchase'[u] = row /\ \A v \in Purchases : v # u => purchase'[v] = purchase[v]
  BY <1>1 DEF TypeInv, TablesOK
<1>4. p.row.paid \in Int /\ p.row.paid - Owes(p) <= BoundOf(payments, req, used.faults, u)
  <2>1. p.row \in PurchaseRow
    BY <1>0 DEF Request
  <2> QED
    BY <1>0, <2>1 DEF PurchaseRow, PaidInv, InHandPaid
<1>5. CASE p.op = "update" /\ Becomes(r, Idle)
  <2>1. row.paid = purchase[u].paid \/ row.paid <= BoundOf(payments, req, used.faults, u)
    BY <1>1, <1>4, <1>5 DEF Owes
  <2>2. req' = [req EXCEPT ![r] = Idle] /\ used'.faults = used.faults /\ Idle.pc = "idle"
    BY <1>5, IdleTyped DEF Becomes
  <2> QED
    BY <1>0, <1>2, <1>3, <2>1, <2>2, PaidStill DEF InHandPaid
<1>6. ASSUME p.op = "pay", NEW q, Becomes(r, q), q.pc = "receipt", SamePurchase(q, p)
      PROVE  PaidInv'
  <2>1. req' = [req EXCEPT ![r] = q] /\ used'.faults = used.faults
    BY <1>6 DEF Becomes
  <2>2. \A v \in Purchases : Way(req[r], v) = 0 /\ Way(q, v) = IF v = u THEN p.qty ELSE 0
    BY <1>0, <1>6 DEF Way, SamePurchase
  <2>3. ASSUME NEW v \in Purchases
        PROVE  /\ BoundOf(payments, req, used.faults, v) \in Int
               /\ BoundOf(payments', req', used'.faults, v)
                    = BoundOf(payments, req, used.faults, v) + (Way(q, v) - Way(req[r], v))
    BY <1>2, <2>1, BoundGoesOn
  <2>4. p.qty \in Nat /\ Owes(p) = p.qty
    BY <1>0, <1>6 DEF Owes
  <2>5. ASSUME NEW v \in Purchases
        PROVE  /\ BoundOf(payments, req, used.faults, v) \in Int
               /\ BoundOf(payments', req', used'.faults, v) \in Int
               /\ BoundOf(payments, req, used.faults, v) <= BoundOf(payments', req', used'.faults, v)
               /\ v = u => BoundOf(payments', req', used'.faults, v)
                             = BoundOf(payments, req, used.faults, v) + p.qty
    <3> PICK low \in Int : low = BoundOf(payments, req, used.faults, v)
      BY <2>3
    <3> PICK more \in Nat : more = Way(q, v) - Way(req[r], v) /\ (v = u => more = p.qty)
      BY <2>2, <2>4
    <3>1. BoundOf(payments', req', used'.faults, v) = low + more
      BY <2>3
    <3>2. low + more \in Int /\ low <= low + more
      OBVIOUS
    <3> QED
      BY <3>1, <3>2
  <2>6. \/ row.paid = purchase[u].paid
        \/ row.paid <= BoundOf(payments', req', used'.faults, u)
    <3> PICK low \in Int : low = BoundOf(payments, req, used.faults, u)
      BY <2>5
    <3>1. p.row.paid - p.qty <= low
      BY <1>4, <2>4
    <3>2. p.row.paid <= low + p.qty
      BY <1>4, <2>4, <3>1
    <3>3. BoundOf(payments', req', used'.faults, u) = low + p.qty
      BY <2>5
    <3> QED
      BY <1>1, <3>2, <3>3
  <2>7. ~InHandPaid(q)
    BY <1>6 DEF InHandPaid
  <2> QED
    BY <1>3, <2>1, <2>5, <2>6, <2>7, PaidGoesOn
<1> QED
  BY <1>5, <1>6, WriteIs

\* The insertion of a payment.
LEMMA ReceiptPaid ==
    ASSUME TypeInv, TypeInv', PaidInv, NEW r \in Requests, InsertPayment(r)
    PROVE  PaidInv'
<1> PICK u \in Purchases : u = req[r].purchase
  BY ReceiptIs
<1> PICK x \in Nat \ {0} : x = req[r].qty
  BY ReceiptIs, InputsTyped
<1>1. /\ payments' = [payments EXCEPT ![u] = Append(payments[u], x)]
      /\ req' = [req EXCEPT ![r] = Idle] /\ UNCHANGED <<purchase, used>> /\ req[r].pc = "receipt"
  BY ReceiptIs DEF Becomes
<1>2. req \in [Requests -> Request] /\ payments \in [Purchases -> Seq(Nat \ {0})] /\ used.faults \in Nat
  BY RowsTyped DEF TypeInv, RequestsHold, TablesOK
<1>3. payments[u] \in Seq(Nat \ {0}) /\ payments'[u] = Append(payments[u], x)
      /\ \A v \in Purchases : v # u => payments'[v] = payments[v]
  BY <1>1, <1>2
<1>4. GotOf(payments', u) = x + GotOf(payments, u) /\ \A v \in Purchases : v # u => GotOf(payments', v) = GotOf(payments, v)
  BY <1>3, ReceivedGrows DEF GotOf
<1>5. ASSUME NEW v \in Purchases
      PROVE  /\ WayOf(req, v) \in Int /\ Way(Idle, v) = 0 /\ Way(req[r], v) = IF v = u THEN x ELSE 0
             /\ WayOf(req', v) = WayOf(req, v) + (Way(Idle, v) - Way(req[r], v))
  <2>1. Way(Idle, v) = 0 /\ Way(req[r], v) = IF v = u THEN x ELSE 0
    BY <1>1, IdleTyped DEF Way
  <2>2. Idle \in Request
    BY IdleTyped
  <2>3. WayOf(req, v) \in Int
        /\ WayOf([req EXCEPT ![r] = Idle], v) = WayOf(req, v) + (Way(Idle, v) - Way(req[r], v))
    BY <1>2, <2>2, WayChanges
  <2> QED
    BY <1>1, <2>1, <2>3
<1>6. ASSUME NEW v \in Purchases
      PROVE  /\ BoundOf(payments', req', used'.faults, v) = BoundOf(payments, req, used.faults, v)
             /\ BoundOf(payments, req, used.faults, v) \in Int
             /\ BoundOf(payments, req, used.faults, v) <= BoundOf(payments', req', used'.faults, v)
  <2>1. /\ BoundOf(payments, req, used.faults, v) \in Int /\ PaidUpFront[v] \in Nat
        /\ GotOf(payments, v) \in Nat /\ WayOf(req, v) \in Int /\ used.faults * LargestAmount \in Nat
    BY <1>2, BoundTyped
  <2> PICK crashed : crashed = used.faults * LargestAmount
    OBVIOUS
  <2>2. BoundOf(payments, req, used.faults, v) = PaidUpFront[v] + GotOf(payments, v) + WayOf(req, v) + crashed
    BY DEF BoundOf
  <2>3. BoundOf(payments', req', used'.faults, v)
          = PaidUpFront[v] + GotOf(payments', v) + WayOf(req', v) + crashed
    BY <1>1 DEF BoundOf
  <2>4. GotOf(payments', v) + WayOf(req', v) = GotOf(payments, v) + WayOf(req, v)
    BY <1>4, <1>5, <2>1
  <2>5. GotOf(payments', v) \in Int /\ WayOf(req', v) \in Int
    BY <1>4, <1>5, <2>1
  <2>6. BoundOf(payments', req', used'.faults, v) = BoundOf(payments, req, used.faults, v)
    BY <2>1, <2>2, <2>3, <2>4, <2>5
  <2> PICK low \in Int : low = BoundOf(payments, req, used.faults, v)
    BY <2>1
  <2>7. low <= low
    OBVIOUS
  <2> QED
    BY <2>6, <2>7
<1>7. ~InHandPaid(Idle)
  BY IdleTyped DEF InHandPaid
<1> QED
  BY <1>1, <1>6, <1>7, PaidGoesOn

\* A request that dies between its two saves costs one payment.
LEMMA DiePaid ==
    ASSUME TypeInv, TypeInv', PaidInv, NEW r \in Requests, Die(r)
    PROVE  PaidInv'
<1>1. /\ req' = [req EXCEPT ![r] = Idle] /\ UNCHANGED <<purchase, payments>>
      /\ used'.faults = used.faults + 1
  BY DEF Die, Throw, Goto, TypeInv, UsedOK
<1>2. req \in [Requests -> Request] /\ payments \in [Purchases -> Seq(Nat \ {0})] /\ used.faults \in Nat
  BY RowsTyped DEF TypeInv, RequestsHold, TablesOK
<1>3. ASSUME NEW v \in Purchases
      PROVE  /\ BoundOf(payments', req', used'.faults, v) \in Int
             /\ BoundOf(payments, req, used.faults, v) \in Int
             /\ BoundOf(payments, req, used.faults, v) <= BoundOf(payments', req', used'.faults, v)
  <2>1. Idle \in Request /\ Way(Idle, v) = 0
    BY IdleTyped DEF Way
  <2>2. Way(req[r], v) \in Nat /\ Way(req[r], v) <= LargestAmount
    BY WayBounded
  <2>3. WayOf(req, v) \in Int
        /\ WayOf([req EXCEPT ![r] = Idle], v) = WayOf(req, v) + (Way(Idle, v) - Way(req[r], v))
    BY <1>2, <2>1, WayChanges
  <2>4. /\ PaidUpFront[v] \in Nat /\ GotOf(payments, v) \in Nat
    BY <1>2, BoundTyped
  <2> PICK large \in Nat : large = LargestAmount
    BY LargestAmountIs
  <2> PICK faults \in Nat : faults = used.faults
    BY <1>2
  <2> PICK crashed \in Nat : crashed = faults * large
    OBVIOUS
  <2>5. (faults + 1) * large = crashed + large
    OBVIOUS
  <2> PICK way \in Int : way = WayOf(req, v)
    BY <2>3
  <2> PICK lost \in Nat : lost = Way(req[r], v) /\ lost <= large
    BY <2>2
  <2> PICK base \in Int : base = PaidUpFront[v] + GotOf(payments, v)
    BY <2>4
  <2>6. WayOf(req', v) = way - lost
    BY <1>1, <2>1, <2>3
  <2>7. BoundOf(payments, req, used.faults, v) = base + way + crashed
    BY DEF BoundOf
  <2>8. BoundOf(payments', req', used'.faults, v) = base + (way - lost) + (crashed + large)
    BY <1>1, <2>5, <2>6 DEF BoundOf
  <2>9. base + way + crashed <= base + (way - lost) + (crashed + large)
    OBVIOUS
  <2> QED
    BY <2>7, <2>8, <2>9
<1>4. ~InHandPaid(Idle)
  BY IdleTyped DEF InHandPaid
<1> QED
  BY <1>1, <1>3, <1>4, PaidGoesOn

\* The statements.
LEMMA RunPaid ==
    ASSUME TypeInv, TypeInv', RoomInv, PaidInv, NEW r \in Requests, Run(r)
    PROVE  PaidInv'
<1>0. ASSUME NEW q, Becomes(r, q), UNCHANGED <<purchase, payments>>, req[r].pc # "receipt",
             q.pc # "receipt", ~InHandPaid(q)
      PROVE  PaidInv'
  BY <1>0, PaidStill DEF Becomes
<1>i. ASSUME Becomes(r, Idle), UNCHANGED <<purchase, payments>>, req[r].pc # "receipt"
      PROVE  PaidInv'
  BY <1>0, <1>i, IdleTyped DEF InHandPaid
<1>p. ASSUME NEW q, Becomes(r, q), UNCHANGED <<purchase, payments>>, InHandPaid(req[r]), InHandPaid(q),
             SamePurchase(q, req[r])
      PROVE  PaidInv'
  <2>1. req[r].pc # "receipt" /\ q.pc # "receipt"
    BY <1>p DEF InHandPaid
  <2>2. \A u \in Purchases :
          q.purchase = u => q.row.paid - Owes(q) <= BoundOf(payments, req, used.faults, u)
    BY <1>p DEF PaidInv, SamePurchase, Owes
  <2> QED
    BY <1>p, <2>1, <2>2, PaidStill DEF Becomes
<1>1. CASE SelectPurchase(r)
  <2>1. PICK q : Becomes(r, q) /\ (q = Idle \/ (q.pc = "write" /\ SamePurchase(q, req[r])))
    BY <1>1, SelectIs
  <2>2. req[r].pc = "select" /\ UNCHANGED <<purchase, payments>>
    BY <1>1, SelectIs DEF Reading
  <2> QED
    BY <1>i, <1>p, <2>1, <2>2 DEF InHandPaid
<1>2. CASE WritePurchase(r)
  BY <1>2, WritePaid
<1>3. CASE InsertPayment(r)
  BY <1>3, ReceiptPaid
<1>4. CASE LoadBatches(r)
  <2>1. PICK q : Becomes(r, q) /\ q.pc = "block" /\ SamePurchase(q, req[r])
    BY <1>4, LoadIs
  <2>2. req[r].pc = "load" /\ UNCHANGED <<purchase, payments>>
    BY <1>4, LoadIs DEF Reading
  <2> QED
    BY <1>p, <2>1, <2>2 DEF InHandPaid
<1>5. CASE CommitCancel(r)
  <2>1. req[r].pc = "block" /\ req[r].op = "cancel" /\ Becomes(r, Idle) /\ UNCHANGED payments
    BY <1>5, CommitIs DEF Reading
  <2>2. CASE Reading
    BY <1>i, <2>1, <2>2 DEF Reading
  <2>3. CASE purchase' = [purchase EXCEPT ![req[r].purchase] = req[r].row]
    <3> PICK p : p = req[r]
      OBVIOUS
    <3>1. p \in Request /\ p.row \in PurchaseRow /\ p.row.paid \in Int
      BY RowsTyped DEF Request, PurchaseRow
    <3>2. \A u \in Purchases :
            purchase'[u].paid = purchase[u].paid \/ (u = p.purchase /\ purchase'[u].paid = p.row.paid)
      BY <2>3 DEF TypeInv, TablesOK
    <3>3. \A u \in Purchases :
            u = p.purchase => p.row.paid <= BoundOf(payments, req, used.faults, u)
      <4>1. Owes(p) = 0 /\ InHandPaid(p)
        BY <2>1 DEF Owes, InHandPaid
      <4>2. p.row.paid - Owes(p) = p.row.paid
        BY <3>1, <4>1
      <4> QED
        BY <4>1, <4>2 DEF PaidInv
    <3>4. Idle.pc # "receipt" /\ ~InHandPaid(Idle) /\ req[r].pc # "receipt"
      BY <2>1, IdleTyped DEF InHandPaid
    <3> QED
      BY <2>1, <3>2, <3>3, <3>4, PaidStill DEF Becomes
  <2> QED
    BY <1>5, <2>2, <2>3, CommitIs
<1>6. CASE FindLegacy(r)
  <2>1. PICK q : Becomes(r, q) /\ q.pc \in {"idle", "insert", "adjust", "plan", "find"}
    BY <1>6, FindIs, IdleTyped DEF PastLegacy
  <2>2. req[r].pc = "find" /\ UNCHANGED <<purchase, payments>>
    BY <1>6, FindIs DEF Reading
  <2> QED
    BY <1>0, <2>1, <2>2 DEF InHandPaid
<1>7. CASE InsertLegacy(r)
  <2>1. PICK q : Becomes(r, q) /\ q.pc \in {"idle", "adjust", "plan", "find"}
    BY <1>7, InsertIs, IdleTyped DEF PastLegacy
  <2>2. req[r].pc = "insert" /\ UNCHANGED <<purchase, payments>>
    BY <1>7, LegacyAdded
  <2> QED
    BY <1>0, <2>1, <2>2 DEF InHandPaid
<1>8. CASE AdjustBatch(r)
  BY <1>0, <1>8, AdjustIs DEF InHandPaid
<1>9. CASE InsertMovement(r)
  BY <1>9, <1>i, MoveIs
<1>10. CASE ReadCandidates(r)
  BY <1>0, <1>10, <1>i, ReadIs, RoomFits DEF Reading, InHandPaid
<1>11. CASE TakeBatch(r)
  <2>1. PICK q : Becomes(r, q) /\ q.pc = "alloc"
    BY <1>11, TakeIs DEF Takes
  <2>2. req[r].pc = "take" /\ UNCHANGED <<purchase, payments>>
    BY <1>11, TakeIs
  <2> QED
    BY <1>0, <2>1, <2>2 DEF InHandPaid
<1>12. CASE InsertAllocation(r)
  BY <1>0, <1>12, <1>i, AllocIs DEF InHandPaid
<1>13. CASE GiveBack(r)
  BY <1>0, <1>13, GiveIs DEF InHandPaid
<1>14. CASE MarkRestored(r)
  BY <1>14, <1>i, MarkIs
<1> QED
  BY <1>1, <1>2, <1>3, <1>4, <1>5, <1>6, <1>7, <1>8, <1>9, <1>10, <1>11, <1>12, <1>13, <1>14 DEF Run

\* Every step.
LEMMA NextPaid ==
    ASSUME TypeInv, RoomInv, PaidInv, [Next]_vars
    PROVE  TypeInv' /\ RoomInv' /\ PaidInv'
<1>0. TypeInv' /\ RoomInv'
  BY NextTypes
<1>1. CASE UNCHANGED vars
  BY <1>0, <1>1 DEF vars, PaidInv
<1>2. ASSUME NEW b \in DOMAIN batch, Expire(b)
      PROVE  PaidInv'
  BY <1>2 DEF Expire, PaidInv
<1> QED
  BY <1>0, <1>1, <1>2, BeginPaid, RunPaid, DiePaid DEF Next

\* In every behaviour.
LEMMA PaidAlways == Spec => [](TypeInv /\ RoomInv /\ PaidInv)
<1>1. Init => PaidInv
  <2> SUFFICES ASSUME Init
               PROVE  PaidInv
    OBVIOUS
  <2>1. TypeInv
    BY InitTypes
  <2>2. ASSUME NEW u \in Purchases
        PROVE  purchase[u].paid <= BoundOf(payments, req, used.faults, u)
    <3>1. purchase[u].paid = 0 /\ used.faults = 0
      BY DEF Init, NoPurchase
    <3>2. PaidUpFront[u] \in Nat /\ WayOf(req, u) \in Nat /\ LargestAmount \in Nat
      BY <2>1, WayBounded, LargestAmountIs, StockroomAssumption
    <3>3. GotOf(payments, u) \in Nat
      <4>1. payments[u] \in Seq(Nat \ {0}) /\ 1 \in Nat \ {0}
        BY DEF Init
      <4> QED
        BY <4>1, ReceivedGrows DEF GotOf
    <3> QED
      BY <3>1, <3>2, <3>3 DEF BoundOf
  <2>3. \A r \in Requests : ~InHandPaid(req[r])
    BY IdleTyped DEF Init, InHandPaid
  <2> QED
    BY <2>2, <2>3 DEF PaidInv
<1> QED
  BY <1>1, InitTypes, NextPaid, PTL DEF Spec

\* However payments, saves and cancellations overlap and whatever dies between two saves,
\* no purchase counts as paid what nobody paid: neither its row nor an entity that a
\* request will save is ahead of the payments, but for one amount per dead request.
THEOREM PaidHolds == Spec => []PaidNeverInvented
<1>1. TypeInv /\ PaidInv => PaidNeverInvented
  <2> SUFFICES ASSUME TypeInv, PaidInv, NEW u \in Purchases
               PROVE  purchase[u].paid <= PaidUpFront[u] + Received(u)
                        + MapThenSumSet(LAMBDA r : req[r].qty, OnTheWay(u))
                        + used.faults * Max({0} \cup Amounts)
    BY DEF PaidNeverInvented
  <2>1. purchase[u].paid <= BoundOf(payments, req, used.faults, u)
    BY DEF PaidInv
  <2> QED
    BY <2>1, PaidIsSum DEF BoundOf, LargestAmount
<1> QED
  BY <1>1, PaidAlways, PTL

-----------------------------------------------------------------------------
(* When requests neither overlap nor die, the columns of a purchase agree with its *)
(* payments, and what a request has in hand is the purchase as it is.               *)

GotInAll(pays, rq, u) == GotOf(pays, u) + WayOf(rq, u)
BookedRow(row, u, got) ==
    IF row.status = "ABSENT" THEN got = 0
    ELSE /\ row.paid = PaidUpFront[u] + got
         /\ IF row.status = "CANCELLED" THEN row.balance = 0
            ELSE row.balance = Total(u) - row.paid /\ row.status = ResolveStatus(Total(u), row.paid)
Standing(row) == row.status \notin {"ABSENT", "CANCELLED"}
SavesUpdate(q, rows) ==
    q.op = "update" => Standing(rows[q.purchase]) /\ q.row = rows[q.purchase]
SavesPayment(q, rows) ==
    q.op = "pay" /\ q.pc # "receipt" =>
      /\ Standing(rows[q.purchase]) /\ q.qty <= rows[q.purchase].balance
      /\ q.row = Paid(rows[q.purchase], Total(q.purchase), q.qty)
SavesCancel(q, rows) ==
    q.op = "cancel" =>
      /\ Standing(rows[q.purchase])
      /\ q.row = [rows[q.purchase] EXCEPT !.status = "CANCELLED", !.balance = 0]
Compared(q, rows) ==
    q.pc = "write" =>
      \A c \in Columns \ q.cols :
        /\ c = "status" => q.row.status = rows[q.purchase].status
        /\ c = "paid" => q.row.paid = rows[q.purchase].paid
        /\ c = "balance" => q.row.balance = rows[q.purchase].balance
BookedSlot(q, rows) ==
    SavesUpdate(q, rows) /\ SavesPayment(q, rows) /\ SavesCancel(q, rows) /\ Compared(q, rows)
Booked(rows, pays, rq) ==
    /\ \A u \in Purchases : BookedRow(rows[u], u, GotInAll(pays, rq, u))
    /\ \A r \in Requests : BookedSlot(rq[r], rows)
BooksInv == Clean => Booked(purchase, payments, req)

\* A slot in which nothing runs has nothing in hand.
LEMMA IdleBooked ==
    ASSUME NEW rows
    PROVE  BookedSlot(Idle, rows)
  BY IdleTyped DEF BookedSlot, SavesUpdate, SavesPayment, SavesCancel, Compared

\* What was got when a request goes on.
LEMMA GotChanges ==
    ASSUME TypeInv, TypeInv', NEW r \in Requests, NEW q, req' = [req EXCEPT ![r] = q],
           NEW u \in Purchases
    PROVE  /\ GotOf(payments, u) \in Nat /\ WayOf(req, u) \in Int
           /\ Way(q, u) \in Int /\ Way(req[r], u) \in Int
           /\ WayOf(req', u) = WayOf(req, u) + (Way(q, u) - Way(req[r], u))
<1>1. req \in [Requests -> Request] /\ payments \in [Purchases -> Seq(Nat \ {0})]
  BY DEF TypeInv, RequestsHold, TablesOK
<1>2. q \in Request
  BY <1>1 DEF TypeInv, RequestsHold
<1>3. GotOf(payments, u) \in Nat
  <2>1. payments[u] \in Seq(Nat \ {0}) /\ 1 \in Nat \ {0}
    BY <1>1
  <2> QED
    BY <2>1, ReceivedGrows DEF GotOf
<1> QED
  BY <1>1, <1>2, <1>3, WayChanges

\* A request goes on that has no payment on its way, and the purchases stay.
LEMMA BooksStill ==
    ASSUME TypeInv, TypeInv', Booked(purchase, payments, req), NEW r \in Requests, NEW q,
           req' = [req EXCEPT ![r] = q], UNCHANGED <<purchase, payments>>,
           q.pc # "receipt", req[r].pc # "receipt", BookedSlot(q, purchase)
    PROVE  Booked(purchase', payments', req')
<1>1. ASSUME NEW u \in Purchases
      PROVE  BookedRow(purchase'[u], u, GotInAll(payments', req', u))
  <2>1. Way(q, u) = 0 /\ Way(req[r], u) = 0
    BY DEF Way
  <2>2. /\ GotOf(payments, u) \in Nat /\ WayOf(req, u) \in Int
        /\ WayOf(req', u) = WayOf(req, u) + (Way(q, u) - Way(req[r], u))
    BY GotChanges
  <2> PICK w \in Int : w = WayOf(req, u)
    BY <2>2
  <2>3. WayOf(req', u) = w
    BY <2>1, <2>2
  <2>4. GotInAll(payments', req', u) = GotInAll(payments, req, u)
    BY <2>3 DEF GotInAll
  <2> QED
    BY <2>4 DEF Booked
<1>2. ASSUME NEW s \in Requests
      PROVE  BookedSlot(req'[s], purchase')
  <2>1. req'[s] = IF s = r THEN q ELSE req[s]
    BY DEF TypeInv, RequestsHold
  <2> QED
    BY <2>1 DEF Booked
<1> QED
  BY <1>1, <1>2 DEF Booked

\* A request that runs alone changes the purchase u only.
LEMMA BooksWritten ==
    ASSUME TypeInv, TypeInv', Booked(purchase, payments, req), NEW r \in Requests, NEW q,
           req' = [req EXCEPT ![r] = q], UNCHANGED payments,
           \A s \in Requests : s # r => req'[s] = Idle,
           NEW u \in Purchases, NEW row, purchase' = [purchase EXCEPT ![u] = row],
           \A v \in Purchases : v # u => Way(q, v) = 0 /\ Way(req[r], v) = 0,
           BookedRow(row, u, GotInAll(payments, req, u) + (Way(q, u) - Way(req[r], u))),
           BookedSlot(q, purchase')
    PROVE  Booked(purchase', payments', req')
<1>1. ASSUME NEW v \in Purchases
      PROVE  BookedRow(purchase'[v], v, GotInAll(payments', req', v))
  <2>1. /\ GotOf(payments, v) \in Nat /\ WayOf(req, v) \in Int
        /\ Way(q, v) \in Int /\ Way(req[r], v) \in Int
        /\ WayOf(req', v) = WayOf(req, v) + (Way(q, v) - Way(req[r], v))
    BY GotChanges
  <2>2. GotInAll(payments', req', v) = GotInAll(payments, req, v) + (Way(q, v) - Way(req[r], v))
    BY <2>1 DEF GotInAll
  <2>3. CASE v = u
    BY <2>2, <2>3 DEF TypeInv, TablesOK
  <2>4. CASE v # u
    <3>1. GotInAll(payments, req, v) \in Int
      BY <2>1 DEF GotInAll
    <3> PICK g \in Int : g = GotInAll(payments, req, v)
      BY <3>1
    <3>2. GotInAll(payments', req', v) = g
      BY <2>2, <2>4
    <3> QED
      BY <2>4, <3>2 DEF Booked, TypeInv, TablesOK
  <2> QED
    BY <2>3, <2>4
<1>2. ASSUME NEW s \in Requests
      PROVE  BookedSlot(req'[s], purchase')
  <2>1. CASE s = r
    BY <2>1 DEF TypeInv, RequestsHold
  <2>2. CASE s # r
    BY <2>2, IdleBooked
  <2> QED
    BY <2>1, <2>2
<1> QED
  BY <1>1, <1>2 DEF Booked

\* The status of a purchase that stands.
LEMMA ResolveStands ==
    ASSUME NEW total, NEW paid
    PROVE  ResolveStatus(total, paid) \notin {"ABSENT", "CANCELLED"}
  BY DEF ResolveStatus

\* A request of the inventory has no purchase in hand.
LEMMA InventoryBooked ==
    ASSUME NEW q, NEW rows, q.op \notin {"update", "pay", "cancel"}, q.pc # "write"
    PROVE  BookedSlot(q, rows)
  BY DEF BookedSlot, SavesUpdate, SavesPayment, SavesCancel, Compared

\* A purchase is created.
LEMMA CreateBooks ==
    ASSUME TypeInv, TypeInv', Booked(purchase, payments, req), NEW r \in Requests,
           req' = [req EXCEPT ![r] = Idle], req[r] = Idle,
           \A s \in Requests : s # r => req'[s] = Idle, NEW u \in Purchases, CreatePurchase(r, u)
    PROVE  Booked(purchase', payments', req')
<1> DEFINE row == [status |-> ResolveStatus(Total(u), PaidUpFront[u]),
                   paid |-> PaidUpFront[u], balance |-> Total(u) - PaidUpFront[u]]
<1>1. /\ purchase[u].status = "ABSENT" /\ purchase' = [purchase EXCEPT ![u] = row]
      /\ UNCHANGED payments
  BY DEF CreatePurchase
<1>2. \A v : Way(Idle, v) = 0
  BY IdleTyped DEF Way
<1>3. BookedRow(row, u, 0)
  <2>1. PaidUpFront[u] + 0 = PaidUpFront[u]
    BY StockroomAssumption
  <2>2. row.status \notin {"ABSENT", "CANCELLED"}
    BY ResolveStands
  <2> QED
    BY <2>1, <2>2 DEF BookedRow
<1> HIDE DEF row
<1>4. GotInAll(payments, req, u) + (Way(Idle, u) - Way(req[r], u)) = 0
  <2>1. GotInAll(payments, req, u) = 0
    BY <1>1 DEF Booked, BookedRow
  <2> QED
    BY <1>2, <2>1
<1>5. BookedRow(row, u, GotInAll(payments, req, u) + (Way(Idle, u) - Way(req[r], u)))
  BY <1>3, <1>4
<1> QED
  BY <1>1, <1>2, <1>5, BooksWritten, IdleBooked

\* The calls.
LEMMA BeginBooks ==
    ASSUME TypeInv, TypeInv', AloneInv, Booked(purchase, payments, req), NEW r \in Requests,
           Begin(r), Serial'
    PROVE  Booked(purchase', payments', req')
<1>1. PICK q : /\ req' = [req EXCEPT ![r] = q] /\ q.cols = {}
               /\ \/ Writing(r, q)
                  \/ /\ Reading
                     /\ \/ UpdateStarts(q) \/ PayStarts(q) \/ CancelStarts(q)
                        \/ FindStarts(q) \/ ConsumeStarts(q) \/ RestoreStarts(q)
  BY BeginIs
<1>2. req[r] = Idle /\ req[r].pc # "receipt" /\ \A s \in Requests : s # r => req'[s] = Idle
  BY BeginIs, OnlyOne, IdleTyped
<1>3. ASSUME UNCHANGED <<purchase, payments>>, q.pc # "receipt", BookedSlot(q, purchase)
      PROVE  Booked(purchase', payments', req')
  BY <1>1, <1>2, <1>3, BooksStill
<1>4. CASE Reading /\ UpdateStarts(q)
  <2>1. BookedSlot(q, purchase) /\ q.pc # "receipt"
    BY <1>4
    DEF UpdateStarts, BookedSlot, SavesUpdate, SavesPayment, SavesCancel, Compared, Editable, Standing
  <2> QED
    BY <1>3, <1>4, <2>1 DEF Reading
<1>5. CASE Reading /\ PayStarts(q)
  <2>1. BookedSlot(q, purchase) /\ q.pc # "receipt"
    BY <1>5
    DEF PayStarts, BookedSlot, SavesUpdate, SavesPayment, SavesCancel, Compared, Editable, Standing
  <2> QED
    BY <1>3, <1>5, <2>1 DEF Reading
<1>6. CASE Reading /\ CancelStarts(q)
  <2>1. BookedSlot(q, purchase) /\ q.pc # "receipt"
    BY <1>6
    DEF CancelStarts, BookedSlot, SavesUpdate, SavesPayment, SavesCancel, Compared, Editable, Standing
  <2> QED
    BY <1>3, <1>6, <2>1 DEF Reading
<1>7. CASE Reading /\ (FindStarts(q) \/ ConsumeStarts(q) \/ RestoreStarts(q))
  <2>1. q.op \notin {"update", "pay", "cancel"} /\ q.pc \notin {"write", "receipt"}
    BY <1>7 DEF FindStarts, ConsumeStarts, RestoreStarts
  <2> QED
    BY <1>3, <1>7, <2>1, InventoryBooked DEF Reading
<1>8. CASE Writing(r, q)
  <2>1. CASE q.op = "entry" /\ q.pc = "move" /\ UNCHANGED <<purchase, payments, allocs>>
    BY <1>3, <2>1, InventoryBooked
  <2>2. ASSUME q = Idle, NEW u \in Purchases, CreatePurchase(r, u)
        PROVE  Booked(purchase', payments', req')
    BY <1>1, <1>2, <2>2, CreateBooks
  <2> QED
    BY <1>8, <2>1, <2>2 DEF Writing
<1> QED
  BY <1>1, <1>4, <1>5, <1>6, <1>7, <1>8

\* A purchase that is saved is the one that was compared.
LEMMA WriteBooks ==
    ASSUME TypeInv, TypeInv', Booked(purchase, payments, req), NEW r \in Requests,
           \A s \in Requests : s # r => req'[s] = Idle, WritePurchase(r)
    PROVE  Booked(purchase', payments', req')
<1> PICK p : p = req[r]
  OBVIOUS
<1>0. /\ p \in Request /\ p.pc = "write" /\ p.op \in {"update", "pay"} /\ p.purchase \in Purchases
      /\ p.op = "pay" => p.qty \in Amounts
  <2>1. p \in Request /\ Holding(p, Len(batch), Len(allocs)) /\ p.pc = "write"
    BY RowsTyped DEF WritePurchase
  <2> QED
    BY <2>1 DEF Holding, HoldsPurchase, OpsAt
<1> PICK u \in Purchases : u = p.purchase
  BY <1>0
<1>1. BookedSlot(p, purchase) /\ p.row \in PurchaseRow /\ purchase[u] \in PurchaseRow
  BY <1>0, RowsTyped DEF Booked, Request
<1>2. PICK row \in PurchaseRow :
        /\ purchase' = [purchase EXCEPT ![u] = row]
        /\ row.status = IF "status" \in p.cols THEN p.row.status ELSE purchase[u].status
        /\ row.paid = IF "paid" \in p.cols THEN p.row.paid ELSE purchase[u].paid
        /\ row.balance = IF "balance" \in p.cols THEN p.row.balance ELSE purchase[u].balance
  BY WriteIs
<1>3. row.status = p.row.status /\ row.paid = p.row.paid /\ row.balance = p.row.balance
  BY <1>0, <1>1, <1>2 DEF BookedSlot, Compared, Columns
<1>4. row = p.row
  BY <1>1, <1>2, <1>3 DEF PurchaseRow
<1>5. UNCHANGED payments
  BY WriteIs
<1>6. /\ GotOf(payments, u) \in Nat /\ WayOf(req, u) \in Int
  <2>1. PICK q : req' = [req EXCEPT ![r] = q]
    BY WriteIs DEF Becomes
  <2> QED
    BY <2>1, GotChanges
<1> PICK got \in Int : got = GotInAll(payments, req, u)
  BY <1>6 DEF GotInAll
<1>7. BookedRow(purchase[u], u, got) /\ Total(u) \in Nat /\ PaidUpFront[u] \in Nat
  BY TotalType, StockroomAssumption DEF Booked
<1>8. Way(p, u) = 0 /\ \A v : Way(p, v) = 0 /\ Way(Idle, v) = 0
  BY <1>0, IdleTyped DEF Way
<1>9. CASE p.op = "update"
  <2>1. row = purchase[u]
    BY <1>1, <1>4, <1>9 DEF BookedSlot, SavesUpdate
  <2>2. purchase' = purchase
    BY <1>2, <2>1 DEF TypeInv, TablesOK
  <2>3. req' = [req EXCEPT ![r] = Idle]
    BY <1>9, WriteIs DEF Becomes
  <2> QED
    BY <1>0, <1>5, <2>2, <2>3, BooksStill, IdleBooked, IdleTyped
<1>10. CASE p.op = "pay"
  <2>1. PICK q : req' = [req EXCEPT ![r] = q] /\ q.pc = "receipt" /\ SamePurchase(q, p)
    BY <1>10, WriteIs DEF Becomes
  <2>2. q.purchase = u /\ q.op = "pay" /\ q.qty = p.qty
    BY <1>10, <2>1 DEF SamePurchase
  <2>3. Way(q, u) = p.qty /\ \A v \in Purchases : v # u => Way(q, v) = 0
    BY <2>1, <2>2 DEF Way
  <2>4. BookedSlot(q, purchase')
    BY <2>1, <2>2 DEF BookedSlot, SavesUpdate, SavesPayment, SavesCancel, Compared
  <2>5. /\ Standing(purchase[u]) /\ p.qty <= purchase[u].balance
        /\ row = Paid(purchase[u], Total(u), p.qty)
    BY <1>0, <1>1, <1>4, <1>10 DEF BookedSlot, SavesPayment
  <2>6. BookedRow(row, u, got + p.qty)
    <3> PICK total \in Nat : total = Total(u)
      BY <1>7
    <3> PICK front \in Nat : front = PaidUpFront[u]
      BY <1>7
    <3> PICK qty \in Nat : qty = p.qty
      BY <1>0, <1>10, InputsTyped
    <3>1. purchase[u].paid = front + got /\ purchase[u].balance = total - purchase[u].paid
      BY <1>7, <2>5 DEF BookedRow, Standing
    <3> PICK paid \in Int : paid = purchase[u].paid
      BY <3>1
    <3>2. /\ row.paid = paid + qty /\ row.status = ResolveStatus(total, paid + qty)
          /\ row.balance = Max({0, total - (paid + qty)})
      BY <2>5 DEF Paid
    <3>3. total - (paid + qty) \in Int /\ total - (paid + qty) >= 0
      BY <2>5, <3>1
    <3>4. row.balance = total - (paid + qty)
      <4> PICK left \in Int : left = total - (paid + qty)
        BY <3>3
      <4>1. Max({0, left}) = IF left > 0 THEN left ELSE 0
        BY MaxOfZero
      <4> QED
        BY <3>2, <3>3, <4>1
    <3>5. row.paid = front + (got + qty)
      BY <3>1, <3>2
    <3>6. row.status \notin {"ABSENT", "CANCELLED"}
      BY <3>2, ResolveStands
    <3> QED
      BY <3>2, <3>4, <3>5, <3>6 DEF BookedRow
  <2>7. BookedRow(row, u, GotInAll(payments, req, u) + (Way(q, u) - Way(req[r], u)))
    <3>1. p.qty \in Nat
      BY <1>0, <1>10, InputsTyped
    <3>2. got + (p.qty - 0) = got + p.qty
      BY <3>1
    <3> QED
      BY <1>8, <2>3, <2>6, <3>2
  <2> QED
    BY <1>2, <1>5, <1>8, <2>1, <2>3, <2>4, <2>7, BooksWritten, ZenonT(40)
<1> QED
  BY <1>0, <1>9, <1>10

\* A payment that is inserted was on its way.
LEMMA ReceiptBooks ==
    ASSUME TypeInv, TypeInv', Booked(purchase, payments, req), NEW r \in Requests, InsertPayment(r)
    PROVE  Booked(purchase', payments', req')
<1> PICK p : p = req[r]
  OBVIOUS
<1>0. /\ p.pc = "receipt" /\ p.op = "pay" /\ p.purchase \in Purchases
      /\ p.qty \in Amounts /\ req' = [req EXCEPT ![r] = Idle] /\ UNCHANGED purchase
      /\ payments' = [payments EXCEPT ![p.purchase] = Append(payments[p.purchase], p.qty)]
  BY ReceiptIs DEF Becomes
<1>1. p.qty \in Nat \ {0}
  BY <1>0, InputsTyped
<1>2. ASSUME NEW u \in Purchases
      PROVE  BookedRow(purchase'[u], u, GotInAll(payments', req', u))
  <2>1. /\ GotOf(payments, u) \in Nat /\ WayOf(req, u) \in Int
        /\ WayOf(req', u) = WayOf(req, u) + (Way(Idle, u) - Way(req[r], u))
    BY <1>0, GotChanges
  <2>2. Way(Idle, u) = 0
    BY IdleTyped DEF Way
  <2>3. GotInAll(payments', req', u) = GotInAll(payments, req, u)
    <3>1. CASE u = p.purchase
      <4>1. payments[u] \in Seq(Nat \ {0}) /\ payments'[u] = Append(payments[u], p.qty)
        BY <1>0, <3>1 DEF TypeInv, TablesOK
      <4>2. GotOf(payments', u) = p.qty + GotOf(payments, u)
        BY <1>1, <4>1, ReceivedGrows DEF GotOf
      <4>3. Way(p, u) = p.qty
        BY <1>0, <3>1 DEF Way
      <4> QED
        BY <1>1, <2>1, <2>2, <4>2, <4>3 DEF GotInAll
    <3>2. CASE u # p.purchase
      <4>1. payments'[u] = payments[u]
        BY <1>0, <3>2 DEF TypeInv, TablesOK
      <4>2. GotOf(payments', u) = GotOf(payments, u)
        BY <4>1 DEF GotOf
      <4>3. Way(p, u) = 0
        BY <3>2 DEF Way
      <4> QED
        BY <2>1, <2>2, <4>2, <4>3 DEF GotInAll
    <3> QED
      BY <3>1, <3>2
  <2> QED
    BY <1>0, <2>3 DEF Booked
<1>3. ASSUME NEW s \in Requests
      PROVE  BookedSlot(req'[s], purchase')
  <2>1. req'[s] = IF s = r THEN Idle ELSE req[s]
    BY <1>0 DEF TypeInv, RequestsHold
  <2> QED
    BY <1>0, <2>1, IdleBooked DEF Booked
<1> QED
  BY <1>2, <1>3 DEF Booked

\* A cancelled purchase keeps what was paid and owes nothing.
LEMMA CommitBooks ==
    ASSUME TypeInv, TypeInv', Booked(purchase, payments, req), NEW r \in Requests,
           \A s \in Requests : s # r => req'[s] = Idle, CommitCancel(r)
    PROVE  Booked(purchase', payments', req')
<1> PICK p : p = req[r]
  OBVIOUS
<1>0. /\ p.pc = "block" /\ p.op = "cancel" /\ p.purchase \in Purchases
      /\ req' = [req EXCEPT ![r] = Idle] /\ UNCHANGED payments
  BY CommitIs DEF Becomes, Reading
<1>1. CASE UNCHANGED purchase
  BY <1>0, <1>1, BooksStill, IdleBooked, IdleTyped
<1>2. CASE purchase' = [purchase EXCEPT ![p.purchase] = p.row]
  <2> PICK u \in Purchases : u = p.purchase
    BY <1>0
  <2>1. Standing(purchase[u]) /\ p.row = [purchase[u] EXCEPT !.status = "CANCELLED", !.balance = 0]
    BY <1>0 DEF Booked, BookedSlot, SavesCancel
  <2>2. p.row.status = "CANCELLED" /\ p.row.balance = 0 /\ p.row.paid = purchase[u].paid
    BY <2>1, RowsTyped DEF PurchaseRow
  <2>3. BookedRow(p.row, u, GotInAll(payments, req, u))
    BY <2>1, <2>2 DEF Booked, BookedRow, Standing
  <2>4. \A v : Way(p, v) = 0 /\ Way(Idle, v) = 0
    BY <1>0, IdleTyped DEF Way
  <2>5. GotInAll(payments, req, u) + (Way(Idle, u) - Way(req[r], u)) = GotInAll(payments, req, u)
    <3>1. GotOf(payments, u) \in Nat /\ WayOf(req, u) \in Int
      BY <1>0, GotChanges
    <3>2. GotInAll(payments, req, u) \in Int
      BY <3>1 DEF GotInAll
    <3> QED
      BY <2>4, <3>2
  <2>6. BookedRow(p.row, u, GotInAll(payments, req, u) + (Way(Idle, u) - Way(req[r], u)))
    BY <2>3, <2>5
  <2> QED
    BY <1>0, <1>2, <2>4, <2>6, BooksWritten, IdleBooked
<1> QED
  BY <1>1, <1>2, CommitIs DEF Reading

\* The statements.
LEMMA RunBooks ==
    ASSUME TypeInv, TypeInv', RoomInv, AloneInv, Booked(purchase, payments, req),
           NEW r \in Requests, Running(r), Run(r), Serial'
    PROVE  Booked(purchase', payments', req')
<1>0. \A s \in Requests : s # r => req'[s] = Idle
  BY OnlyOne
<1>b. BookedSlot(req[r], purchase)
  BY DEF Booked
<1>q. ASSUME NEW q, Becomes(r, q), UNCHANGED <<purchase, payments>>, req[r].pc # "receipt",
             q.pc # "receipt", BookedSlot(q, purchase)
      PROVE  Booked(purchase', payments', req')
  BY <1>q, BooksStill DEF Becomes
<1>i. ASSUME Becomes(r, Idle), UNCHANGED <<purchase, payments>>, req[r].pc # "receipt"
      PROVE  Booked(purchase', payments', req')
  BY <1>q, <1>i, IdleBooked, IdleTyped
<1>v. ASSUME NEW q, Becomes(r, q), UNCHANGED <<purchase, payments>>, req[r].pc # "receipt",
             q.op \notin {"update", "pay", "cancel"}, q.pc \notin {"write", "receipt"}
      PROVE  Booked(purchase', payments', req')
  BY <1>q, <1>v, InventoryBooked
<1>1. CASE SelectPurchase(r)
  <2>1. req[r].pc = "select" /\ UNCHANGED <<purchase, payments>>
    BY <1>1, SelectIs DEF Reading
  <2>2. ASSUME NEW q, Becomes(r, q), q.pc = "write", SamePurchase(q, req[r]), Compared(q, purchase)
        PROVE  Booked(purchase', payments', req')
    <3>1. BookedSlot(q, purchase)
      BY <1>b, <2>1, <2>2 DEF SamePurchase, BookedSlot, SavesUpdate, SavesPayment, SavesCancel
    <3> QED
      BY <1>q, <2>1, <2>2, <3>1
  <2> QED
    BY <1>1, <1>i, <2>1, <2>2, SelectIs DEF Compared
<1>2. CASE WritePurchase(r)
  BY <1>0, <1>2, WriteBooks
<1>3. CASE InsertPayment(r)
  BY <1>3, ReceiptBooks
<1>4. CASE LoadBatches(r)
  <2>1. PICK q : Becomes(r, q) /\ q.pc = "block" /\ SamePurchase(q, req[r])
    BY <1>4, LoadIs
  <2>2. req[r].pc = "load" /\ UNCHANGED <<purchase, payments>>
    BY <1>4, LoadIs DEF Reading
  <2>3. BookedSlot(q, purchase)
    BY <1>b, <2>1, <2>2
    DEF SamePurchase, BookedSlot, SavesUpdate, SavesPayment, SavesCancel, Compared
  <2> QED
    BY <1>q, <2>1, <2>2, <2>3
<1>5. CASE CommitCancel(r)
  BY <1>0, <1>5, CommitBooks
<1>6. CASE FindLegacy(r)
  <2>1. req[r].pc = "find" /\ UNCHANGED <<purchase, payments>>
    BY <1>6, FindIs DEF Reading
  <2>2. \E q : /\ Becomes(r, q)
               /\ q = Idle \/ (q.op \notin {"update", "pay", "cancel"} /\ q.pc \notin {"write", "receipt"})
    BY <1>6, FindIs DEF PastLegacy
  <2> QED
    BY <1>i, <1>v, <2>1, <2>2
<1>7. CASE InsertLegacy(r)
  <2>1. req[r].pc = "insert" /\ UNCHANGED <<purchase, payments>>
    BY <1>7, LegacyAdded
  <2>2. \E q : /\ Becomes(r, q)
               /\ q = Idle \/ (q.op \notin {"update", "pay", "cancel"} /\ q.pc \notin {"write", "receipt"})
    BY <1>7, InsertIs DEF PastLegacy
  <2> QED
    BY <1>i, <1>v, <2>1, <2>2
<1>8. CASE AdjustBatch(r)
  BY <1>8, <1>v, AdjustIs
<1>9. CASE InsertMovement(r)
  BY <1>9, <1>i, MoveIs
<1>10. CASE ReadCandidates(r)
  BY <1>10, <1>i, <1>v, ReadIs, RoomFits DEF Reading
<1>11. CASE TakeBatch(r)
  <2>1. PICK q : Becomes(r, q) /\ q.pc = "alloc" /\ q.op = "consume"
    BY <1>11, TakeIs DEF Takes
  <2>2. req[r].pc = "take" /\ UNCHANGED <<purchase, payments>>
    BY <1>11, TakeIs
  <2> QED
    BY <1>v, <2>1, <2>2
<1>12. CASE InsertAllocation(r)
  BY <1>12, <1>i, <1>v, AllocIs
<1>13. CASE GiveBack(r)
  BY <1>13, <1>v, GiveIs
<1>14. CASE MarkRestored(r)
  BY <1>14, <1>i, MarkIs
<1> QED
  BY <1>1, <1>2, <1>3, <1>4, <1>5, <1>6, <1>7, <1>8, <1>9, <1>10, <1>11, <1>12, <1>13, <1>14 DEF Run

\* A step of a clean history follows a clean history, and nobody dies in it.
LEMMA StaysClean ==
    ASSUME TypeInv, TypeInv', AloneInv, NEW r \in Requests,
           Begin(r) \/ (Running(r) /\ Run(r)) \/ Die(r), Clean'
    PROVE  Clean /\ ~Die(r)
<1>1. Serial
  BY OnlyOne DEF Clean
<1>2. used.faults \in Nat
  BY DEF TypeInv, UsedOK
<1>3. CASE Begin(r)
  <2>1. used'.faults = used.faults
    BY <1>3, BeginIs
  <2>2. ~Die(r)
    BY <1>3 DEF Begin, Free, Die
  <2> QED
    BY <1>1, <2>1, <2>2 DEF Clean
<1>4. CASE Die(r)
  <2>1. used'.faults = used.faults + 1
    BY <1>4 DEF Die, TypeInv, UsedOK
  <2> QED
    BY <1>2, <2>1 DEF Clean
<1>5. CASE Run(r)
  <2>1. UNCHANGED used
    BY <1>5
    DEF Run, SelectPurchase, WritePurchase, InsertPayment, LoadBatches, CommitCancel, FindLegacy,
        InsertLegacy, AdjustBatch, InsertMovement, ReadCandidates, TakeBatch, InsertAllocation,
        GiveBack, MarkRestored
  <2> QED
    BY <1>1, <1>4, <2>1 DEF Clean
<1> QED
  BY <1>3, <1>4, <1>5

\* Every step.
LEMMA NextBooks ==
    ASSUME TypeInv, RoomInv, AloneInv, LegacyInv, BooksInv, [Next]_vars
    PROVE  TypeInv' /\ RoomInv' /\ AloneInv' /\ LegacyInv' /\ BooksInv'
<1>0. TypeInv' /\ RoomInv' /\ AloneInv' /\ LegacyInv'
  BY NextLegacy
<1>1. CASE UNCHANGED vars
  BY <1>0, <1>1 DEF vars, BooksInv, Clean, Serial
<1>2. ASSUME NEW b \in DOMAIN batch, Expire(b)
      PROVE  BooksInv'
  BY <1>2 DEF Expire, BooksInv, Clean, Serial
<1>3. ASSUME NEW r \in Requests, Begin(r) \/ (Running(r) /\ Run(r)) \/ Die(r), Clean'
      PROVE  Booked(purchase', payments', req')
  <2>1. Clean /\ ~Die(r) /\ Serial'
    BY <1>0, <1>3, StaysClean DEF Clean
  <2>2. Booked(purchase, payments, req)
    BY <2>1 DEF BooksInv
  <2> QED
    BY <1>0, <1>3, <2>1, <2>2, BeginBooks, RunBooks
<1>4. ASSUME NEW r \in Requests, Begin(r) \/ (Running(r) /\ Run(r)) \/ Die(r)
      PROVE  BooksInv'
  BY <1>3, <1>4 DEF BooksInv
<1> QED
  BY <1>0, <1>1, <1>2, <1>4 DEF Next

\* Nothing runs, nothing is on its way.
LEMMA NothingOnTheWay ==
    ASSUME NEW rq, \A r \in Requests : rq[r] = Idle, NEW u
    PROVE  WayOf(rq, u) = 0
<1> DEFINE f == [r \in Requests |-> Way(rq[r], u)]
<1>1. \A r \in Requests : f[r] = IF r \in {} THEN f[r] ELSE 0
  BY IdleTyped DEF Way
<1>2. WayOf(rq, u) = SumOf(f, Requests)
  BY DEF WayOf
<1> HIDE DEF f
<1>3. IsFiniteSet(Requests) /\ {} \in SUBSET Requests /\ \A r \in {} : f[r] \in Int
  BY StockroomAssumption
<1>4. SumOf(f, Requests) = SumOf(f, {})
  BY ONLY <1>1, <1>3, SumWhere
<1> QED
  BY <1>2, <1>4, SumEmpty

\* At first no purchase exists.
LEMMA BooksAtFirst == Init => BooksInv
<1> SUFFICES ASSUME Init
             PROVE  Booked(purchase, payments, req)
  BY DEF BooksInv
<1>1. ASSUME NEW u \in Purchases
      PROVE  BookedRow(purchase[u], u, GotInAll(payments, req, u))
  <2>1. purchase[u].status = "ABSENT" /\ payments[u] = << >>
    BY DEF Init, NoPurchase
  <2>2. WayOf(req, u) = 0
    BY NothingOnTheWay DEF Init
  <2>3. GotOf(payments, u) = 0
    BY <2>1, SumEmpty DEF GotOf
  <2> QED
    BY <2>1, <2>2, <2>3 DEF BookedRow, GotInAll
<1>2. \A r \in Requests : BookedSlot(req[r], purchase)
  BY IdleBooked DEF Init
<1> QED
  BY <1>1, <1>2 DEF Booked

\* When requests neither overlap nor die, paid, balance and status of a purchase are those
\* that its payments make.
THEOREM BooksHold == Spec => []BooksBalance
<1>1. Init => AloneInv /\ LegacyInv
  BY IdleTyped DEF Init, AloneInv, LegacyInv, Running
<1>2. TypeInv /\ BooksInv => BooksBalance
  <2> SUFFICES ASSUME TypeInv, BooksInv, Clean, Quiet, NEW u \in Purchases,
                      purchase[u].status # "ABSENT"
               PROVE  /\ purchase[u].paid = PaidUpFront[u] + Received(u)
                      /\ purchase[u].balance = IF purchase[u].status = "CANCELLED" THEN 0
                                               ELSE Total(u) - purchase[u].paid
                      /\ ShownStatus(purchase[u]) = purchase[u].status \/ Total(u) = 0
    BY DEF BooksBalance
  <2>1. BookedRow(purchase[u], u, GotInAll(payments, req, u))
    BY DEF BooksInv, Booked
  <2>2. WayOf(req, u) = 0
    BY NothingOnTheWay DEF Quiet, Running
  <2>3. Received(u) = GotOf(payments, u)
    BY PaidIsSum
  <2>4. GotOf(payments, u) \in Nat
    <3>1. payments[u] \in Seq(Nat \ {0}) /\ 1 \in Nat \ {0}
      BY DEF TypeInv, TablesOK
    <3> QED
      BY <3>1, ReceivedGrows DEF GotOf
  <2>5. GotInAll(payments, req, u) = Received(u)
    BY <2>2, <2>3, <2>4 DEF GotInAll
  <2> PICK total \in Nat : total = Total(u)
    BY TotalType
  <2>6. purchase[u].paid \in Int /\ purchase[u].balance \in Int
    BY RowsTyped DEF PurchaseRow
  <2>7. ShownStatus(purchase[u]) = purchase[u].status \/ total = 0
    BY <2>1, <2>6 DEF BookedRow, ShownStatus, ResolveStatus
  <2> QED
    BY <2>1, <2>5, <2>7 DEF BookedRow
<1> QED
  BY <1>1, <1>2, BooksAtFirst, InitTypes, NextBooks, PTL DEF Spec

-----------------------------------------------------------------------------
(* When requests do not overlap, what a request has read is still so *)

\* The candidates of consumeStock hold what they held when they were read.
ReadsPlan(q, rows) ==
    q.pc \in {"take", "alloc"} =>
      \A c \in BatchIds : q.plan[c] > 0 => rows[c].avail = q.plan[c] /\ rows[c].status = "ACTIVE"
\* So does the batch that gets units back, the LEGACY batch of an adjustment and the lots
\* of the purchase that is cancelled.
ReadsUnits(q, rows) == q.pc = "give" => q.avail = rows[q.ent].avail + q.moving
ReadsLegacy(q, rows) ==
    q.pc = "adjust" => q.avail = rows[q.ent].avail /\ q.initial = rows[q.ent].initial
ReadsLots(q, rows) ==
    q.pc = "block" =>
      \A b \in DOMAIN rows : q.plan[b] = IF rows[b].purchase = q.purchase THEN rows[b].avail ELSE 0
FreshSlot(q, rows) ==
    ReadsPlan(q, rows) /\ ReadsUnits(q, rows) /\ ReadsLegacy(q, rows) /\ ReadsLots(q, rows)
FreshInv == Serial => \A r \in Requests : FreshSlot(req[r], batch)

\* A request elsewhere has read no batch that it will use.
LEMMA NothingRead ==
    ASSUME NEW q, NEW rows, q.pc \notin {"take", "alloc", "give", "adjust", "block"}
    PROVE  FreshSlot(q, rows)
  BY DEF FreshSlot, ReadsPlan, ReadsUnits, ReadsLegacy, ReadsLots

\* Idle slots have read nothing.
LEMMA IdleFresh ==
    ASSUME NEW rows
    PROVE  FreshSlot(Idle, rows)
  BY IdleTyped, NothingRead

\* The calls.
LEMMA BeginFresh ==
    ASSUME TypeInv, NEW r \in Requests, Begin(r)
    PROVE  \E q : req' = [req EXCEPT ![r] = q] /\ FreshSlot(q, batch')
<1>1. PICK q : /\ req' = [req EXCEPT ![r] = q]
               /\ \/ Writing(r, q)
                  \/ /\ Reading
                     /\ \/ UpdateStarts(q) \/ PayStarts(q) \/ CancelStarts(q)
                        \/ FindStarts(q) \/ ConsumeStarts(q) \/ RestoreStarts(q)
  BY BeginIs
<1>2. CASE Writing(r, q)
  <2>1. q = Idle \/ q.pc = "move"
    BY <1>2 DEF Writing
  <2> QED
    BY <1>1, <2>1, IdleFresh, NothingRead
<1>3. CASE Reading /\ RestoreStarts(q)
  <2>1. q.pc = "give" /\ q.avail = batch'[q.ent].avail + q.moving
    BY <1>3 DEF RestoreStarts, Reading
  <2>2. FreshSlot(q, batch')
    BY <2>1 DEF FreshSlot, ReadsPlan, ReadsUnits, ReadsLegacy, ReadsLots
  <2> QED
    BY <1>1, <2>2
<1>4. CASE UpdateStarts(q) \/ PayStarts(q) \/ CancelStarts(q) \/ FindStarts(q) \/ ConsumeStarts(q)
  <2>1. q.pc \notin {"take", "alloc", "give", "adjust", "block"}
    BY <1>4 DEF UpdateStarts, PayStarts, CancelStarts, FindStarts, ConsumeStarts
  <2> QED
    BY <1>1, <2>1, NothingRead
<1> QED
  BY <1>1, <1>2, <1>3, <1>4

\* A request that goes on from the LEGACY batch b.
LEMMA PastLegacyFresh ==
    ASSUME NEW q, NEW p, NEW b, NEW rows, PastLegacy(q, p, b, rows[b].avail, rows[b].initial)
    PROVE  FreshSlot(q, rows)
<1>1. q.pc \in {"adjust", "plan", "find", "idle"}
  BY IdleTyped DEF PastLegacy
<1>2. CASE q.pc = "adjust"
  <2>1. q.ent = b /\ q.avail = rows[b].avail /\ q.initial = rows[b].initial
    BY <1>2, IdleTyped DEF PastLegacy
  <2> QED
    BY <1>2, <2>1 DEF FreshSlot, ReadsPlan, ReadsUnits, ReadsLegacy, ReadsLots
<1> QED
  BY <1>1, <1>2, NothingRead

\* The statements.
LEMMA RunFresh ==
    ASSUME TypeInv, RoomInv, LotsInv, NEW r \in Requests, FreshSlot(req[r], batch), Run(r)
    PROVE  \E q : req' = [req EXCEPT ![r] = q] /\ FreshSlot(q, batch')
<1>0. ASSUME NEW q, Becomes(r, q), FreshSlot(q, batch')
      PROVE  \E k : req' = [req EXCEPT ![r] = k] /\ FreshSlot(k, batch')
  BY <1>0 DEF Becomes
<1>n. ASSUME NEW q, Becomes(r, q), q.pc \notin {"take", "alloc", "give", "adjust", "block"}
      PROVE  \E k : req' = [req EXCEPT ![r] = k] /\ FreshSlot(k, batch')
  BY <1>0, <1>n, NothingRead
<1>i. ASSUME Becomes(r, Idle)
      PROVE  \E k : req' = [req EXCEPT ![r] = k] /\ FreshSlot(k, batch')
  BY <1>0, <1>i, IdleFresh
<1>1. CASE SelectPurchase(r)
  BY <1>1, <1>i, <1>n, SelectIs
<1>2. CASE WritePurchase(r)
  BY <1>2, <1>i, <1>n, WriteIs
<1>3. CASE InsertPayment(r)
  BY <1>3, <1>i, ReceiptIs
<1>4. CASE LoadBatches(r)
  <2>1. PICK q : /\ Becomes(r, q) /\ q.pc = "block" /\ SamePurchase(q, req[r])
                 /\ q.plan = [b \in BatchIds |->
                                IF b \in BoughtWith(q.purchase) /\ batch[b].avail > 0
                                THEN batch[b].avail ELSE 0]
    BY <1>4, LoadIs
  <2>2. UNCHANGED batch /\ q.purchase \in Purchases
    <3>1. req[r].pc = "load" /\ Holding(req[r], Len(batch), Len(allocs)) /\ UNCHANGED batch
      BY <1>4, LoadIs, RowsTyped DEF Reading
    <3>2. req[r].purchase \in Purchases
      BY <3>1 DEF Holding, OpsAt, HoldsPurchase
    <3> QED
      BY <2>1, <3>1, <3>2 DEF SamePurchase
  <2>3. ASSUME NEW b \in DOMAIN batch
        PROVE  q.plan[b] = IF batch[b].purchase = q.purchase THEN batch[b].avail ELSE 0
    <3>1. b \in BatchIds /\ batch[b].avail \in Int
      BY RoomFits, RowsTyped DEF BatchRow
    <3>2. batch[b].purchase = q.purchase => batch[b].avail >= 0
      BY <2>2, StockroomAssumption DEF LotsInv, GoodRow
    <3>3. q.plan[b] = IF b \in BoughtWith(q.purchase) /\ batch[b].avail > 0 THEN batch[b].avail ELSE 0
      BY <2>1, <3>1
    <3>4. b \in BoughtWith(q.purchase) <=> batch[b].purchase = q.purchase
      BY DEF BoughtWith
    <3> QED
      BY <3>1, <3>2, <3>3, <3>4
  <2>4. FreshSlot(q, batch)
    BY <2>1, <2>3 DEF FreshSlot, ReadsPlan, ReadsUnits, ReadsLegacy, ReadsLots
  <2> QED
    BY <1>0, <2>1, <2>2, <2>4
<1>5. CASE CommitCancel(r)
  BY <1>5, <1>i, CommitIs
<1>6. CASE FindLegacy(r)
  <2>1. UNCHANGED batch /\ \E q : /\ Becomes(r, q)
                 /\ \/ q = Idle \/ q.pc = "insert"
                    \/ \E b \in LegacyOf(req[r].product) :
                         PastLegacy(q, req[r], b, batch[b].avail, batch[b].initial)
                    \/ req[r].op # "adjust" /\ PastLegacy(q, req[r], 0, req[r].avail, req[r].initial)
    BY <1>6, FindIs DEF Reading
  <2>2. PICK q : /\ Becomes(r, q)
                 /\ \/ q = Idle \/ q.pc = "insert"
                    \/ \E b \in LegacyOf(req[r].product) :
                         PastLegacy(q, req[r], b, batch[b].avail, batch[b].initial)
                    \/ req[r].op # "adjust" /\ PastLegacy(q, req[r], 0, req[r].avail, req[r].initial)
    BY <2>1
  <2>3. CASE req[r].op # "adjust" /\ PastLegacy(q, req[r], 0, req[r].avail, req[r].initial)
    <3>1. q = Idle \/ q.pc \in {"plan", "find"}
      BY <2>3 DEF PastLegacy
    <3> QED
      BY <1>i, <1>n, <2>2, <3>1
  <2>4. ASSUME NEW b, PastLegacy(q, req[r], b, batch[b].avail, batch[b].initial)
        PROVE  FreshSlot(q, batch)
    BY <2>4, PastLegacyFresh
  <2> QED
    BY <1>0, <1>i, <1>n, <2>1, <2>2, <2>3, <2>4
<1>7. CASE InsertLegacy(r)
  <2> PICK n : n = req[r].moving
    OBVIOUS
  <2>1. PICK q : Becomes(r, q) /\ PastLegacy(q, req[r], Len(batch) + 1, n, n)
    BY <1>7, InsertIs
  <2>2. batch'[Len(batch) + 1].avail = n /\ batch'[Len(batch) + 1].initial = n
    <3>1. batch'[Len(batch) + 1] = NewBatch(req[r].product, "none", TRUE, FALSE, n)
      BY <1>7, LegacyAdded
    <3> QED
      BY <3>1 DEF NewBatch
  <2>3. PastLegacy(q, req[r], Len(batch) + 1, batch'[Len(batch) + 1].avail, batch'[Len(batch) + 1].initial)
    BY <2>1, <2>2
  <2>4. FreshSlot(q, batch')
    BY <2>3, PastLegacyFresh
  <2> QED
    BY <1>0, <2>1, <2>4
<1>8. CASE AdjustBatch(r)
  BY <1>8, <1>n, AdjustIs
<1>9. CASE InsertMovement(r)
  BY <1>9, <1>i, MoveIs
<1>10. CASE ReadCandidates(r)
  <2>1. UNCHANGED batch /\ \/ Becomes(r, Idle)
                           \/ \E q : /\ Becomes(r, q) /\ q.pc = "take"
                                     /\ \A c \in BatchIds :
                                          q.plan[c] > 0 => /\ c \in Usable(req[r].product)
                                                           /\ q.plan[c] = batch[c].avail
    BY <1>10, ReadIs, RoomFits DEF Reading
  <2>2. ASSUME NEW q, Becomes(r, q), q.pc = "take",
               \A c \in BatchIds : q.plan[c] > 0 => /\ c \in Usable(req[r].product)
                                                    /\ q.plan[c] = batch[c].avail
        PROVE  FreshSlot(q, batch)
    BY <2>2 DEF Usable, OnSale, FreshSlot, ReadsPlan, ReadsUnits, ReadsLegacy, ReadsLots
  <2> QED
    BY <1>0, <1>i, <2>1, <2>2
<1>11. CASE TakeBatch(r)
  <2>t. PICK b \in DOMAIN batch, n \in Nat \ {0}, row \in BatchRow : \E q : Takes(r, b, n, row, q)
    BY <1>11, TakeIs
  <2>1. PICK q : Takes(r, b, n, row, q)
    BY <2>t
  <2>2. /\ Becomes(r, q) /\ q.pc = "alloc" /\ batch' = [batch EXCEPT ![b] = row]
        /\ \A c \in BatchIds : q.plan[c] = IF c = b THEN 0 ELSE req[r].plan[c]
    BY <2>1 DEF Takes
  <2>3. req[r].pc = "take" /\ Holding(req[r], Len(batch), Len(allocs)) /\ DOMAIN batch = 1..Len(batch)
    BY <1>11, TakeIs, RowsTyped
  <2>4. \A c \in DOMAIN batch : c # b => batch'[c] = batch[c]
    BY <2>2, ReplacesBatch
  <2>5. ASSUME NEW c \in BatchIds, q.plan[c] > 0
        PROVE  batch'[c].avail = q.plan[c] /\ batch'[c].status = "ACTIVE"
    <3>1. c # b /\ q.plan[c] = req[r].plan[c]
      BY <2>2, <2>5
    <3>2. c \in DOMAIN batch
      BY <2>3, <2>5, <3>1 DEF Holding, HoldsPlan
    <3>3. batch[c].avail = req[r].plan[c] /\ batch[c].status = "ACTIVE"
      BY <2>3, <2>5, <3>1 DEF FreshSlot, ReadsPlan
    <3> QED
      BY <2>4, <3>1, <3>2, <3>3
  <2>6. FreshSlot(q, batch')
    BY <2>2, <2>5 DEF FreshSlot, ReadsPlan, ReadsUnits, ReadsLegacy, ReadsLots
  <2> QED
    BY <1>0, <2>2, <2>6
<1>12. CASE InsertAllocation(r)
  <2>1. /\ req[r].pc = "alloc" /\ UNCHANGED batch
        /\ \/ Becomes(r, Idle)
           \/ \E q : Becomes(r, q) /\ q.pc = "take" /\ q.plan = req[r].plan
    BY <1>12, AllocIs
  <2>2. ASSUME NEW q, q.pc = "take", q.plan = req[r].plan
        PROVE  FreshSlot(q, batch)
    BY <2>1, <2>2 DEF FreshSlot, ReadsPlan, ReadsUnits, ReadsLegacy, ReadsLots
  <2> QED
    BY <1>0, <1>i, <2>1, <2>2
<1>13. CASE GiveBack(r)
  BY <1>13, <1>n, GiveIs
<1>14. CASE MarkRestored(r)
  BY <1>14, <1>i, MarkIs
<1> QED
  BY <1>1, <1>2, <1>3, <1>4, <1>5, <1>6, <1>7, <1>8, <1>9, <1>10, <1>11, <1>12, <1>13, <1>14 DEF Run

\* A day that passes changes an expiry date.
LEMMA ExpireIs ==
    ASSUME TypeInv, NEW b \in DOMAIN batch, Expire(b)
    PROVE  /\ DOMAIN batch' = DOMAIN batch
           /\ \A c \in DOMAIN batch :
                /\ batch'[c].avail = batch[c].avail /\ batch'[c].status = batch[c].status
                /\ batch'[c].initial = batch[c].initial /\ batch'[c].purchase = batch[c].purchase
<1> DEFINE row == [batch[b] EXCEPT !.expires = "past"]
<1>1. batch' = [batch EXCEPT ![b] = row]
  BY DEF Expire
<1>2. /\ row \in BatchRow /\ row.avail = batch[b].avail /\ row.status = batch[b].status
        /\ row.initial = batch[b].initial /\ row.purchase = batch[b].purchase
  BY RowsTyped, ZenonT(40) DEF BatchRow, Expiry
<1> HIDE DEF row
<1>3. /\ DOMAIN batch' = DOMAIN batch /\ batch'[b] = row
        /\ \A c \in DOMAIN batch : c # b => batch'[c] = batch[c]
  BY <1>1, <1>2, ReplacesBatch
<1> QED
  BY <1>2, <1>3

\* A day that passes changes nothing a request has read.
LEMMA ExpireFresh ==
    ASSUME TypeInv, NEW b \in DOMAIN batch, Expire(b), NEW r \in Requests, FreshSlot(req[r], batch)
    PROVE  FreshSlot(req[r], batch')
<1> PICK p : p = req[r]
  OBVIOUS
<1>1. /\ DOMAIN batch' = DOMAIN batch
      /\ \A c \in DOMAIN batch :
           /\ batch'[c].avail = batch[c].avail /\ batch'[c].status = batch[c].status
           /\ batch'[c].initial = batch[c].initial /\ batch'[c].purchase = batch[c].purchase
  BY ExpireIs
<1>2. Holding(p, Len(batch), Len(allocs)) /\ DOMAIN batch = 1..Len(batch)
  BY RowsTyped
<1>3. p.pc \in {"give", "adjust"} => p.ent \in DOMAIN batch
  BY <1>2 DEF Holding, HoldsBatch
<1>4. p.pc \in {"take", "alloc"} => \A c \in BatchIds : p.plan[c] > 0 => c \in DOMAIN batch
  BY <1>2 DEF Holding, HoldsPlan
<1>5. ReadsPlan(p, batch') /\ ReadsUnits(p, batch')
  BY <1>1, <1>3, <1>4 DEF FreshSlot, ReadsPlan, ReadsUnits
<1>6. ReadsLegacy(p, batch') /\ ReadsLots(p, batch')
  BY <1>1, <1>3 DEF FreshSlot, ReadsLegacy, ReadsLots
<1> QED
  BY <1>5, <1>6 DEF FreshSlot

\* Every step.
LEMMA NextFresh ==
    ASSUME TypeInv, RoomInv, AloneInv, LegacyInv, LotsInv, FreshInv, [Next]_vars
    PROVE  FreshInv'
<1>1. CASE UNCHANGED vars
  BY <1>1 DEF vars, FreshInv, Serial
<1>2. ASSUME NEW b \in DOMAIN batch, Expire(b)
      PROVE  FreshInv'
  <2>1. UNCHANGED <<req, used>>
    BY <1>2 DEF Expire
  <2> QED
    BY <1>2, <2>1, ExpireFresh DEF FreshInv, Serial
<1>3. ASSUME NEW r \in Requests, Begin(r) \/ (Running(r) /\ Run(r)) \/ Die(r), Serial'
      PROVE  \A s \in Requests : FreshSlot(req'[s], batch')
  <2>1. Serial /\ \A s \in Requests : s # r => req'[s] = Idle
    BY <1>3, OnlyOne
  <2>2. FreshSlot(req[r], batch)
    BY <2>1 DEF FreshInv
  <2>3. \E q : req' = [req EXCEPT ![r] = q] /\ FreshSlot(q, batch')
    <3>1. CASE Die(r)
      BY <3>1, IdleFresh DEF Die, Throw, Goto
    <3> QED
      BY <1>3, <2>2, <3>1, BeginFresh, RunFresh
  <2>4. FreshSlot(req'[r], batch')
    BY <2>3 DEF TypeInv, RequestsHold
  <2> QED
    BY <2>1, <2>4, IdleFresh
<1> QED
  BY <1>1, <1>2, <1>3 DEF Next, FreshInv

-----------------------------------------------------------------------------
(* When requests neither overlap nor die, a cancelled purchase leaves nothing behind: the *)
(* units of a lot are in it, held by orders or in the hands of the one request that runs, *)
(* so a lot that is still full is held by no order.                                       *)

\* The request that runs when there is only one.
OnlyOf(rq) ==
    IF \E r \in Requests : rq[r] # Idle THEN rq[CHOOSE r \in Requests : rq[r] # Idle] ELSE Idle

\* It is the one in slot r if nothing runs in the others.
LEMMA OnlyIs ==
    ASSUME NEW rq, NEW r \in Requests, \A s \in Requests : s # r => rq[s] = Idle
    PROVE  OnlyOf(rq) = rq[r]
  BY DEF OnlyOf

\* There is none when nothing runs.
LEMMA OnlyWhenQuiet ==
    ASSUME NEW rq, \A r \in Requests : rq[r] = Idle
    PROVE  OnlyOf(rq) = Idle
  BY DEF OnlyOf

\* The units of batch b that orders hold by the allocations in rows, and those that
\* request q has taken from it and not allocated yet, or given back and not marked yet.
HeldIn(row, b) == IF row.batch = b /\ ~row.restored THEN row.qty ELSE 0
HeldOf(rows, b) == SumOf([k \in DOMAIN rows |-> HeldIn(rows[k], b)], DOMAIN rows)
InHand(q, b) ==
    IF q.ent # b THEN 0
    ELSE CASE q.pc = "alloc" -> q.moving [] q.pc = "mark" -> -q.moving [] OTHER -> 0
SettledLot(b, row, rows, q) ==
    IF row.status = "BLOCKED"
    THEN row.avail = 0 /\ \A k \in DOMAIN rows : rows[k].batch = b => rows[k].restored
    ELSE row.avail + HeldOf(rows, b) + InHand(q, b) = row.initial
SettledPurchase(u, row, lots) ==
    /\ row.status = "ABSENT" => \A b \in DOMAIN lots : lots[b].purchase # u
    /\ row.status = "CANCELLED" =>
         \A b \in DOMAIN lots : lots[b].purchase = u => lots[b].status = "BLOCKED"
Draws(q, lots, rows) ==
    /\ q.op = "cancel" =>
         \A b \in DOMAIN lots : lots[b].purchase = q.purchase => lots[b].avail >= lots[b].initial
    /\ q.pc = "alloc" => lots[q.ent].status # "BLOCKED"
    /\ q.op = "restore" =>
         /\ ~rows[q.alloc].restored /\ rows[q.alloc].batch = q.ent
         /\ rows[q.alloc].qty = q.moving
Settled(rows, lots, al, q) ==
    /\ \A b \in DOMAIN lots : lots[b].purchase # "none" => SettledLot(b, lots[b], al, q)
    /\ \A u \in Purchases : SettledPurchase(u, rows[u], lots)
    /\ Draws(q, lots, al)
SettledInv == Clean => Settled(purchase, batch, allocs, OnlyOf(req))

\* What is held is no less than what any allocation holds.
LEMMA HeldTyped ==
    ASSUME NEW rows \in Seq(AllocationRow), NEW b
    PROVE  /\ HeldOf(rows, b) \in Nat
           /\ \A k \in DOMAIN rows : HeldIn(rows[k], b) \in Nat /\ HeldIn(rows[k], b) <= HeldOf(rows, b)
<1> DEFINE f == [k \in DOMAIN rows |-> HeldIn(rows[k], b)]
           S == DOMAIN rows
<1>1. \A k \in S : rows[k] \in AllocationRow
  OBVIOUS
<1>2. \A k \in S : f[k] \in Nat
  BY <1>1 DEF HeldIn, AllocationRow
<1>3. IsFiniteSet(S)
  <2>1. S = 1..Len(rows) /\ 1 \in Int /\ Len(rows) \in Int
    OBVIOUS
  <2> QED
    BY ONLY <2>1, FS_Interval
<1>4. HeldOf(rows, b) = SumOf(f, S) /\ \A k \in S : f[k] = HeldIn(rows[k], b)
  BY DEF HeldOf
<1> HIDE DEF f, S
<1>5. SumOf(f, S) \in Nat /\ \A k \in S : f[k] <= SumOf(f, S)
  BY ONLY <1>2, <1>3, SumOfNats
<1> QED
  BY <1>2, <1>4, <1>5 DEF S

\* An allocation more.
LEMMA HeldGrows ==
    ASSUME NEW rows \in Seq(AllocationRow), NEW x \in AllocationRow, NEW b
    PROVE  HeldOf(Append(rows, x), b) = HeldOf(rows, b) + HeldIn(x, b)
<1> DEFINE more == Append(rows, x)
           n == Len(rows)
           f == [k \in DOMAIN rows |-> HeldIn(rows[k], b)]
           g == [k \in DOMAIN more |-> HeldIn(more[k], b)]
<1>1. /\ n \in Nat /\ DOMAIN rows = 1..n /\ DOMAIN more = 1..n + 1
      /\ more[n + 1] = x /\ \A k \in 1..n : more[k] = rows[k] /\ rows[k] \in AllocationRow
  OBVIOUS
<1>2. 1..n + 1 = (1..n) \cup {n + 1} /\ n + 1 \notin 1..n
  BY <1>1
<1>3. IsFiniteSet(1..n)
  <2>1. 1 \in Int /\ n \in Int
    BY <1>1
  <2> QED
    BY ONLY <2>1, FS_Interval
<1>4. HeldOf(rows, b) = SumOf(f, 1..n) /\ HeldOf(more, b) = SumOf(g, (1..n) \cup {n + 1})
  BY <1>1, <1>2 DEF HeldOf
<1>5. (\A k \in 1..n : g[k] = f[k] /\ f[k] \in Int) /\ g[n + 1] = HeldIn(x, b)
  <2>1. \A k \in 1..n : HeldIn(rows[k], b) \in Int
    BY <1>1 DEF HeldIn, AllocationRow
  <2> QED
    BY <1>1, <1>2, <2>1
<1>6. HeldIn(x, b) \in Int
  BY DEF HeldIn, AllocationRow
<1> HIDE DEF f, g, more
<1>7. \A k \in (1..n) \cup {n + 1} : g[k] \in Int
  BY <1>5, <1>6
<1>8. SumOf(g, 1..n) = SumOf(f, 1..n)
  BY <1>3, <1>5, SumSame
<1>9. SumOf(g, (1..n) \cup {n + 1}) = g[n + 1] + SumOf(g, 1..n)
  BY <1>2, <1>3, <1>7, SumInsert
<1>10. SumOf(f, 1..n) \in Int
  BY <1>3, <1>5, SumType
<1> QED
  BY <1>4, <1>5, <1>6, <1>8, <1>9, <1>10 DEF more

\* An allocation is restored.
LEMMA HeldRestored ==
    ASSUME NEW rows \in Seq(AllocationRow), NEW less \in Seq(AllocationRow),
           DOMAIN less = DOMAIN rows, NEW j \in DOMAIN rows, ~rows[j].restored, NEW b,
           \A k \in DOMAIN rows : /\ less[k].batch = rows[k].batch /\ less[k].qty = rows[k].qty
                                  /\ less[k].restored = (k = j \/ rows[k].restored)
    PROVE  HeldOf(less, b) = HeldOf(rows, b) - (IF rows[j].batch = b THEN rows[j].qty ELSE 0)
<1> DEFINE S == DOMAIN rows
           f == [k \in S |-> HeldIn(rows[k], b)]
           g == [k \in S |-> HeldIn(less[k], b)]
<1>1. \A k \in S : rows[k] \in AllocationRow /\ less[k] \in AllocationRow
  OBVIOUS
<1>2. \A k \in S : f[k] \in Int /\ g[k] \in Int
  BY <1>1 DEF HeldIn, AllocationRow
<1>3. IsFiniteSet(S)
  <2>1. S = 1..Len(rows) /\ 1 \in Int /\ Len(rows) \in Int
    OBVIOUS
  <2> QED
    BY ONLY <2>1, FS_Interval
<1>4. HeldOf(rows, b) = SumOf(f, S) /\ HeldOf(less, b) = SumOf(g, S)
  BY DEF HeldOf
<1>5. \A k \in S \ {j} : g[k] = f[k]
  <2> SUFFICES ASSUME NEW k \in S \ {j}
               PROVE  HeldIn(less[k], b) = HeldIn(rows[k], b)
    OBVIOUS
  <2>1. less[k].batch = rows[k].batch /\ less[k].qty = rows[k].qty /\ less[k].restored = rows[k].restored
    BY <1>1 DEF AllocationRow
  <2> QED
    BY <2>1 DEF HeldIn
<1>6. g[j] = 0 /\ f[j] = IF rows[j].batch = b THEN rows[j].qty ELSE 0
  BY DEF HeldIn
<1>7. j \in S
  OBVIOUS
<1> HIDE DEF S, f, g
<1>8. SumOf(g, S) = SumOf(f, S) + (g[j] - f[j])
  BY ONLY <1>2, <1>3, <1>5, <1>7, SumChange
<1>9. SumOf(f, S) \in Int /\ f[j] \in Int
  BY <1>2, <1>3, <1>7, SumType
<1> QED
  BY <1>4, <1>6, <1>8, <1>9

\* A batch that no allocation is of.
LEMMA HeldNone ==
    ASSUME NEW rows \in Seq(AllocationRow), NEW b, \A k \in DOMAIN rows : rows[k].batch # b
    PROVE  HeldOf(rows, b) = 0
<1> DEFINE f == [k \in DOMAIN rows |-> HeldIn(rows[k], b)]
           S == DOMAIN rows
<1>1. \A k \in S : f[k] = 0
  BY DEF HeldIn
<1>3. IsFiniteSet(S)
  <2>1. S = 1..Len(rows) /\ 1 \in Int /\ Len(rows) \in Int
    OBVIOUS
  <2> QED
    BY ONLY <2>1, FS_Interval
<1>4. HeldOf(rows, b) = SumOf(f, S)
  BY DEF HeldOf
<1> HIDE DEF f, S
<1> QED
  BY <1>1, <1>3, <1>4, SumZeros

\* A lot's account while the allocations and what is in hand of it stay.
LEMMA SettledSame ==
    ASSUME NEW b, NEW row, NEW rows, NEW p, NEW q, NEW same, SettledLot(b, row, rows, p),
           same.avail = row.avail, same.initial = row.initial, same.status = row.status,
           InHand(q, b) = InHand(p, b)
    PROVE  SettledLot(b, same, rows, q)
  BY DEF SettledLot

\* A request goes on, and no purchase, lot or allocation is changed.
LEMMA SettledStill ==
    ASSUME NEW rows, NEW lots, NEW more, NEW al, NEW p, NEW q, Settled(rows, lots, al, p),
           \A b \in DOMAIN more : more[b].purchase # "none" =>
             /\ b \in DOMAIN lots /\ more[b].avail = lots[b].avail /\ more[b].status = lots[b].status
             /\ more[b].initial = lots[b].initial /\ more[b].purchase = lots[b].purchase,
           \A b : InHand(q, b) = InHand(p, b), Draws(q, more, al)
    PROVE  Settled(rows, more, al, q)
<1>1. ASSUME NEW b \in DOMAIN more, more[b].purchase # "none"
      PROVE  SettledLot(b, more[b], al, q)
  <2>1. SettledLot(b, lots[b], al, p)
    BY <1>1 DEF Settled
  <2> QED
    BY <1>1, <2>1, SettledSame
<1>2. ASSUME NEW u \in Purchases
      PROVE  SettledPurchase(u, rows[u], more)
  <2>1. SettledPurchase(u, rows[u], lots) /\ u # "none"
    BY StockroomAssumption DEF Settled
  <2> QED
    BY <2>1 DEF SettledPurchase
<1> QED
  BY <1>1, <1>2 DEF Settled

\* What is in the hands of a request that neither allocates nor marks.
LEMMA EmptyHands ==
    ASSUME NEW q, q.pc \notin {"alloc", "mark"}
    PROVE  \A b : InHand(q, b) = 0
  BY DEF InHand
\* An idle slot has nothing in hand and draws on nothing.
LEMMA IdleDraws ==
    ASSUME NEW lots, NEW rows
    PROVE  Draws(Idle, lots, rows) /\ \A b : InHand(Idle, b) = 0
  BY IdleTyped DEF Draws, InHand

\* A purchase is created with its lots.
LEMMA CreateSettled ==
    ASSUME TypeInv, NEW r \in Requests, NEW u \in Purchases, CreatePurchase(r, u),
           Settled(purchase, batch, allocs, Idle)
    PROVE  Settled(purchase', batch', allocs', Idle)
<1>1. /\ DOMAIN batch \subseteq DOMAIN batch'
      /\ \A b \in DOMAIN batch : batch'[b] = batch[b]
      /\ \A b \in DOMAIN batch' \ DOMAIN batch :
           \E i \in DOMAIN Lines[u] :
             batch'[b] = NewBatch(Lines[u][i].product, u, FALSE, Lines[u][i].dated, Lines[u][i].qty)
  BY CreateRows
<1>2. /\ purchase[u].status = "ABSENT" /\ UNCHANGED allocs
      /\ purchase' = [purchase EXCEPT ![u] =
            [status |-> ResolveStatus(Total(u), PaidUpFront[u]),
             paid |-> PaidUpFront[u], balance |-> Total(u) - PaidUpFront[u]]]
  BY DEF CreatePurchase
<1>3. ASSUME NEW b \in DOMAIN batch' \ DOMAIN batch
      PROVE  batch'[b].purchase = u /\ SettledLot(b, batch'[b], allocs, Idle)
  <2> PICK i \in DOMAIN Lines[u] :
        batch'[b] = NewBatch(Lines[u][i].product, u, FALSE, Lines[u][i].dated, Lines[u][i].qty)
    BY <1>1
  <2> PICK n : n = Lines[u][i].qty
    OBVIOUS
  <2>1. n \in Nat \ {0}
    BY LineTyped
  <2>2. /\ batch'[b].purchase = u /\ batch'[b].avail = n /\ batch'[b].initial = n
        /\ batch'[b].status = "ACTIVE"
    BY <2>1 DEF NewBatch
  <2>3. allocs \in Seq(AllocationRow) /\ \A k \in DOMAIN allocs : allocs[k].batch # b
    BY RowsTyped DEF TypeInv, TablesOK
  <2>4. HeldOf(allocs, b) = 0
    BY <2>3, HeldNone
  <2>5. InHand(Idle, b) = 0
    BY IdleDraws
  <2> PICK row : row = batch'[b]
    OBVIOUS
  <2>6. row.avail = n /\ row.initial = n /\ row.status = "ACTIVE"
    BY <2>2
  <2>7. row.avail + HeldOf(allocs, b) + InHand(Idle, b) = row.initial
    <3>1. n + 0 + 0 = n
      BY ONLY <2>1
    <3> QED
      BY ONLY <2>4, <2>5, <2>6, <3>1, Zenon
  <2> QED
    BY <2>2, <2>6, <2>7 DEF SettledLot
<1>4. ASSUME NEW b \in DOMAIN batch', batch'[b].purchase # "none"
      PROVE  SettledLot(b, batch'[b], allocs', Idle)
  BY <1>1, <1>2, <1>3, <1>4 DEF Settled
<1>5. ASSUME NEW v \in Purchases
      PROVE  SettledPurchase(v, purchase'[v], batch')
  <2>1. CASE v = u
    <3>1. purchase'[v].status = ResolveStatus(Total(u), PaidUpFront[u])
      BY <1>2, <2>1 DEF TypeInv, TablesOK
    <3> QED
      BY <3>1, ResolveStands DEF SettledPurchase
  <2>2. CASE v # u
    <3>1. purchase'[v] = purchase[v] /\ SettledPurchase(v, purchase[v], batch)
      BY <1>2, <2>2 DEF Settled, TypeInv, TablesOK
    <3>2. \A b \in DOMAIN batch' : batch'[b].purchase = v => b \in DOMAIN batch /\ batch'[b] = batch[b]
      BY <1>1, <1>3, <2>2
    <3> QED
      BY <3>1, <3>2 DEF SettledPurchase
  <2> QED
    BY <2>1, <2>2
<1> QED
  BY <1>4, <1>5, IdleDraws DEF Settled

\* The calls.
LEMMA BeginSettled ==
    ASSUME TypeInv, NEW r \in Requests, Begin(r), Settled(purchase, batch, allocs, Idle)
    PROVE  \E q : req' = [req EXCEPT ![r] = q] /\ Settled(purchase', batch', allocs', q)
<1>1. PICK q : /\ req' = [req EXCEPT ![r] = q]
               /\ \/ Writing(r, q)
                  \/ /\ Reading
                     /\ \/ UpdateStarts(q) \/ PayStarts(q) \/ CancelStarts(q)
                        \/ FindStarts(q) \/ ConsumeStarts(q) \/ RestoreStarts(q)
  BY BeginIs
<1>2. ASSUME Reading, q.pc \notin {"alloc", "mark"}, Draws(q, batch, allocs)
      PROVE  Settled(purchase', batch', allocs', q)
  <2>1. \A b : InHand(q, b) = InHand(Idle, b)
    BY <1>2, EmptyHands, IdleDraws
  <2>2. UNCHANGED <<purchase, batch, allocs>>
    BY <1>2 DEF Reading
  <2>3. Settled(purchase, batch, allocs, q)
    BY <1>2, <2>1, SettledStill
  <2> QED
    BY <2>2, <2>3
<1>3. CASE Reading /\ (UpdateStarts(q) \/ PayStarts(q) \/ FindStarts(q) \/ ConsumeStarts(q))
  <2>1. q.pc \notin {"alloc", "mark"} /\ q.op \notin {"cancel", "restore"}
    BY <1>3 DEF UpdateStarts, PayStarts, FindStarts, ConsumeStarts
  <2>2. Draws(q, batch, allocs)
    BY <2>1 DEF Draws
  <2> QED
    BY <1>1, <1>2, <1>3, <2>1, <2>2
<1>4. CASE Reading /\ CancelStarts(q)
  <2>1. q.pc = "load" /\ q.op = "cancel" /\ CanCancel(q.purchase)
    BY <1>4 DEF CancelStarts
  <2>2. Draws(q, batch, allocs)
    BY <2>1 DEF Draws, CanCancel, BoughtWith
  <2> QED
    BY <1>1, <1>2, <1>4, <2>1, <2>2
<1>5. CASE Reading /\ RestoreStarts(q)
  <2>1. q.pc = "give" /\ q.op = "restore" /\ Draws(q, batch, allocs)
    BY <1>5 DEF RestoreStarts, Draws
  <2> QED
    BY <1>1, <1>2, <1>5, <2>1
<1>6. ASSUME q = Idle, NEW u \in Purchases, CreatePurchase(r, u)
      PROVE  Settled(purchase', batch', allocs', q)
  BY <1>6, CreateSettled
<1>7. ASSUME q.op = "entry", q.pc = "move", q.moving \in Entries, NEW p \in Products, NEW dated \in BOOLEAN,
             batch' = Append(batch, NewBatch(p, "none", FALSE, dated, q.moving)),
             UNCHANGED <<purchase, allocs>>
      PROVE  Settled(purchase', batch', allocs', q)
  <2> DEFINE row == NewBatch(p, "none", FALSE, dated, q.moving)
  <2>1. row.purchase = "none"
    BY DEF NewBatch
  <2>2. batch' = Append(batch, row)
    BY <1>7
  <2> HIDE DEF row
  <2>3. /\ DOMAIN batch' = 1..Len(batch) + 1 /\ batch'[Len(batch) + 1] = row
        /\ \A b \in DOMAIN batch : batch'[b] = batch[b]
    BY <2>2 DEF TypeInv, TablesOK
  <2>4. \A b \in DOMAIN batch' : batch'[b].purchase # "none" => b \in DOMAIN batch /\ batch'[b] = batch[b]
    BY <2>1, <2>3, RowsTyped
  <2>5. Draws(q, batch', allocs)
    BY <1>7 DEF Draws
  <2>6. \A b : InHand(q, b) = InHand(Idle, b)
    BY <1>7, EmptyHands, IdleDraws
  <2>7. Settled(purchase, batch', allocs, q)
    BY <2>4, <2>5, <2>6, SettledStill
  <2> QED
    BY <1>7, <2>7
<1>8. CASE Writing(r, q)
  BY <1>1, <1>6, <1>7, <1>8 DEF Writing
<1> QED
  BY <1>1, <1>3, <1>4, <1>5, <1>8

\* The purchase is saved with a status that stands.
LEMMA WriteSettled ==
    ASSUME TypeInv, NEW r \in Requests, WritePurchase(r), Booked(purchase, payments, req),
           NEW q, q.pc \notin {"alloc", "mark"}, Draws(q, batch, allocs),
           Settled(purchase, batch, allocs, req[r])
    PROVE  Settled(purchase', batch', allocs', q)
<1> PICK p : p = req[r]
  OBVIOUS
<1>1. /\ p.pc = "write" /\ p.op \in {"update", "pay"} /\ p.purchase \in Purchases
      /\ p \in Request
  <2>1. p.pc = "write" /\ Holding(p, Len(batch), Len(allocs)) /\ p \in Request
    BY WriteIs, RowsTyped
  <2> QED
    BY <2>1 DEF Holding, OpsAt, HoldsPurchase
<1> PICK u \in Purchases : u = p.purchase
  BY <1>1
<1>2. /\ UNCHANGED <<batch, allocs>>
      /\ \E row \in PurchaseRow :
           /\ purchase' = [purchase EXCEPT ![u] = row]
           /\ row.status = IF "status" \in p.cols THEN p.row.status ELSE purchase[u].status
  BY WriteIs
<1> PICK row \in PurchaseRow :
      /\ purchase' = [purchase EXCEPT ![u] = row]
      /\ row.status = IF "status" \in p.cols THEN p.row.status ELSE purchase[u].status
  BY <1>2
<1>3. Standing(purchase[u]) /\ p.row.status \notin {"ABSENT", "CANCELLED"}
  <2>1. BookedSlot(p, purchase)
    BY DEF Booked
  <2>2. CASE p.op = "update"
    BY <2>1, <2>2 DEF BookedSlot, SavesUpdate, Standing
  <2>3. CASE p.op = "pay"
    <3>1. Standing(purchase[u]) /\ p.row = Paid(purchase[u], Total(u), p.qty)
      BY <1>1, <2>1, <2>3 DEF BookedSlot, SavesPayment
    <3>2. p.row.status = ResolveStatus(Total(u), purchase[u].paid + p.qty)
      BY <3>1 DEF Paid
    <3> QED
      BY <3>1, <3>2, ResolveStands
  <2> QED
    BY <1>1, <2>2, <2>3
<1>4. row.status \notin {"ABSENT", "CANCELLED"}
  BY <1>3 DEF Standing
<1>5. ASSUME NEW v \in Purchases
      PROVE  SettledPurchase(v, purchase'[v], batch)
  <2>1. purchase'[v] = IF v = u THEN row ELSE purchase[v]
    BY DEF TypeInv, TablesOK
  <2> QED
    BY <1>4, <2>1 DEF Settled, SettledPurchase
<1>6. \A b : InHand(q, b) = InHand(p, b)
  BY <1>1, EmptyHands
<1>7. ASSUME NEW b \in DOMAIN batch, batch[b].purchase # "none"
      PROVE  SettledLot(b, batch[b], allocs, q)
  <2>1. SettledLot(b, batch[b], allocs, p)
    BY <1>7 DEF Settled
  <2> QED
    BY <1>6, <2>1, SettledSame
<1>8. Settled(purchase', batch, allocs, q)
  BY <1>5, <1>7 DEF Settled
<1> QED
  BY <1>2, <1>8

\* cancel commits: a lot that is full is held by no order.
LEMMA CommitSettled ==
    ASSUME TypeInv, LotsInv, NEW r \in Requests, CommitCancel(r), Booked(purchase, payments, req),
           Settled(purchase, batch, allocs, req[r])
    PROVE  Settled(purchase', batch', allocs', Idle)
<1> PICK p : p = req[r]
  OBVIOUS
<1>0. /\ p.pc = "block" /\ p.op = "cancel" /\ p.purchase \in Purchases
      /\ \/ Reading
         \/ /\ purchase' = [purchase EXCEPT ![p.purchase] = p.row]
            /\ batch' = [b \in DOMAIN batch |->
                           IF b \in BoughtWith(p.purchase) THEN Blocked(batch[b]) ELSE batch[b]]
            /\ UNCHANGED allocs
  BY CommitIs
<1>1. \A b : InHand(p, b) = 0 /\ InHand(Idle, b) = 0
  BY <1>0, EmptyHands, IdleDraws
<1>2. CASE Reading
  <2>1. UNCHANGED <<purchase, batch, allocs>>
    BY <1>2 DEF Reading
  <2>2. Settled(purchase, batch, allocs, Idle)
    BY <1>1, SettledStill, IdleDraws
  <2> QED
    BY <2>1, <2>2
<1>3. CASE /\ purchase' = [purchase EXCEPT ![p.purchase] = p.row]
           /\ batch' = [b \in DOMAIN batch |->
                          IF b \in BoughtWith(p.purchase) THEN Blocked(batch[b]) ELSE batch[b]]
           /\ UNCHANGED allocs
  <2> PICK u \in Purchases : u = p.purchase
    BY <1>0
  <2>0. u # "none" /\ allocs \in Seq(AllocationRow)
    BY StockroomAssumption DEF TypeInv, TablesOK
  <2>1. DOMAIN batch' = DOMAIN batch
    BY <1>3
  <2>2. \A b \in DOMAIN batch : batch'[b] = IF batch[b].purchase = u THEN Blocked(batch[b]) ELSE batch[b]
    BY <1>3 DEF BoughtWith
  <2>3. \A b \in DOMAIN batch :
          /\ Blocked(batch[b]).avail = 0 /\ Blocked(batch[b]).status = "BLOCKED"
          /\ Blocked(batch[b]).purchase = batch[b].purchase
    BY RowsTyped, BlockedTyped
  <2>4. ASSUME NEW b \in DOMAIN batch, batch[b].purchase = u, NEW k \in DOMAIN allocs,
               allocs[k].batch = b
        PROVE  allocs[k].restored
    <3> PICK row : row = batch[b]
      OBVIOUS
    <3>1. SettledLot(b, row, allocs, p) /\ row.avail >= row.initial
      BY <1>0, <2>0, <2>4 DEF Settled, Draws
    <3>2. CASE row.status = "BLOCKED"
      BY <2>4, <3>1, <3>2 DEF SettledLot
    <3>3. CASE row.status # "BLOCKED"
      <4> PICK held \in Nat : held = HeldOf(allocs, b)
        BY <2>0, HeldTyped
      <4>1. row.avail + held + InHand(p, b) = row.initial /\ InHand(p, b) = 0
        BY <1>1, <3>1, <3>3 DEF SettledLot
      <4>2. row.avail \in Int /\ row.initial \in Int
        BY RowsTyped DEF BatchRow
      <4>3. row.avail + held + 0 = row.initial
        BY <4>1
      <4>4. held = 0
        BY ONLY <3>1, <4>2, <4>3
      <4>5. HeldIn(allocs[k], b) \in Nat /\ HeldIn(allocs[k], b) <= held
        BY <2>0, HeldTyped
      <4>6. HeldIn(allocs[k], b) = 0
        BY <4>4, <4>5
      <4>7. allocs[k].qty > 0
        BY RowsTyped
      <4> QED
        BY <2>4, <4>6, <4>7 DEF HeldIn
    <3> QED
      BY <3>2, <3>3
  <2>5. ASSUME NEW b \in DOMAIN batch', batch'[b].purchase # "none"
        PROVE  SettledLot(b, batch'[b], allocs', Idle)
    <3>1. CASE batch[b].purchase = u
      <4>1. batch'[b].avail = 0 /\ batch'[b].status = "BLOCKED"
        BY <2>1, <2>2, <2>3, <3>1
      <4>2. \A k \in DOMAIN allocs' : allocs'[k].batch = b => allocs'[k].restored
        BY <1>3, <2>1, <2>4, <3>1
      <4> QED
        BY <4>1, <4>2 DEF SettledLot
    <3>2. CASE batch[b].purchase # u
      <4>1. batch'[b] = batch[b]
        BY <2>1, <2>2, <3>2
      <4>2. SettledLot(b, batch[b], allocs, p)
        BY <2>1, <2>5, <4>1 DEF Settled
      <4>3. SettledLot(b, batch[b], allocs, Idle)
        BY <1>1, <4>2, SettledSame
      <4> QED
        BY <1>3, <4>1, <4>3
    <3> QED
      BY <3>1, <3>2
  <2>6. p.row.status = "CANCELLED"
    <3>1. p.row = [purchase[u] EXCEPT !.status = "CANCELLED", !.balance = 0]
      BY <1>0 DEF Booked, BookedSlot, SavesCancel
    <3> QED
      BY <3>1, RowsTyped DEF PurchaseRow
  <2>7. ASSUME NEW v \in Purchases
        PROVE  SettledPurchase(v, purchase'[v], batch')
    <3>1. CASE v = u
      <4>1. purchase'[v] = p.row
        BY <1>3, <3>1 DEF TypeInv, TablesOK
      <4>2. \A b \in DOMAIN batch' : batch'[b].purchase = v => batch'[b].status = "BLOCKED"
        BY <2>1, <2>2, <2>3, <3>1
      <4> QED
        BY <2>6, <4>1, <4>2 DEF SettledPurchase
    <3>2. CASE v # u
      <4>1. purchase'[v] = purchase[v] /\ SettledPurchase(v, purchase[v], batch)
        BY <1>3, <3>2 DEF Settled, TypeInv, TablesOK
      <4>2. \A b \in DOMAIN batch' : batch'[b].purchase = v => batch[b].purchase = v /\ batch'[b] = batch[b]
        BY <2>1, <2>2, <2>3, <3>2
      <4> QED
        BY <2>1, <4>1, <4>2 DEF SettledPurchase
    <3> QED
      BY <3>1, <3>2
  <2> QED
    BY <2>5, <2>7, IdleDraws DEF Settled
<1> QED
  BY <1>0, <1>2, <1>3

\* Units go from a lot that is not blocked into the hands of the request, or back.
LEMMA LotSettled ==
    ASSUME TypeInv, NEW p, NEW q, Settled(purchase, batch, allocs, p),
           UNCHANGED <<purchase, allocs>>, NEW e \in DOMAIN batch, NEW row \in BatchRow,
           batch' = [batch EXCEPT ![e] = row], row.purchase = batch[e].purchase,
           row.initial = batch[e].initial, row.status # "BLOCKED",
           batch[e].purchase # "none" => batch[e].status # "BLOCKED",
           InHand(p, e) \in Int, InHand(q, e) \in Int,
           row.avail + InHand(q, e) = batch[e].avail + InHand(p, e),
           \A b : b # e => InHand(q, b) = InHand(p, b), Draws(q, batch', allocs)
    PROVE  Settled(purchase', batch', allocs', q)
<1>1. /\ DOMAIN batch' = DOMAIN batch /\ batch'[e] = row
      /\ \A b \in DOMAIN batch : b # e => batch'[b] = batch[b]
  BY ReplacesBatch
<1>2. ASSUME NEW b \in DOMAIN batch', batch'[b].purchase # "none"
      PROVE  SettledLot(b, batch'[b], allocs', q)
  <2>1. CASE b # e
    <3>1. SettledLot(b, batch[b], allocs, p) /\ batch'[b] = batch[b] /\ InHand(q, b) = InHand(p, b)
      BY <1>1, <1>2, <2>1 DEF Settled
    <3> QED
      BY <3>1, SettledSame
  <2>2. CASE b = e
    <3>1. SettledLot(e, batch[e], allocs, p) /\ batch[e].status # "BLOCKED"
      BY <1>1, <1>2, <2>2 DEF Settled
    <3> PICK held \in Nat : held = HeldOf(allocs, e)
      BY HeldTyped DEF TypeInv, TablesOK
    <3> PICK old \in Int : old = InHand(p, e)
      OBVIOUS
    <3> PICK new \in Int : new = InHand(q, e)
      OBVIOUS
    <3>2. batch[e].avail + held + old = batch[e].initial
      BY <3>1 DEF SettledLot
    <3>3. batch[e].avail \in Int /\ row.avail \in Int /\ row.avail + new = batch[e].avail + old
      BY RowsTyped DEF BatchRow
    <3>4. row.avail + held + new = row.initial
      BY <3>2, <3>3
    <3>5. SettledLot(e, row, allocs, q)
      BY <3>4 DEF SettledLot
    <3> QED
      BY <1>1, <2>2, <3>5
  <2> QED
    BY <2>1, <2>2
<1>3. ASSUME NEW u \in Purchases
      PROVE  SettledPurchase(u, purchase'[u], batch')
  <2>1. SettledPurchase(u, purchase[u], batch)
    BY DEF Settled
  <2>2. \A b \in DOMAIN batch' : batch'[b].purchase = batch[b].purchase
    BY <1>1
  <2>3. \A b \in DOMAIN batch' :
          batch'[b].purchase = u /\ batch[b].status = "BLOCKED" => batch'[b].status = "BLOCKED"
    BY <1>1, StockroomAssumption
  <2> QED
    BY <1>1, <2>1, <2>2, <2>3 DEF SettledPurchase
<1> QED
  BY <1>2, <1>3 DEF Settled

\* consumeStock takes units.
LEMMA TakeSettled ==
    ASSUME TypeInv, NEW r \in Requests, TakeBatch(r), FreshSlot(req[r], batch),
           Settled(purchase, batch, allocs, req[r])
    PROVE  \E q : req' = [req EXCEPT ![r] = q] /\ Settled(purchase', batch', allocs', q)
<1> PICK p : p = req[r]
  OBVIOUS
<1>0. p.pc = "take" /\ UNCHANGED <<purchase, allocs>> /\ p \in Request
  BY TakeIs, RowsTyped
<1>t. PICK e \in DOMAIN batch, n \in Nat \ {0}, row \in BatchRow : \E q : Takes(r, e, n, row, q)
  BY TakeIs
<1>1. PICK q : Takes(r, e, n, row, q)
  BY <1>t
<1>2. /\ e \in BatchIds /\ p.plan[e] > 0 /\ batch' = [batch EXCEPT ![e] = row]
      /\ row.purchase = batch[e].purchase /\ row.initial = batch[e].initial
      /\ row.avail = p.plan[e] - n /\ row.status = StatusFor(row.avail)
      /\ req' = [req EXCEPT ![r] = q] /\ q.pc = "alloc" /\ q.op = "consume" /\ q.ent = e /\ q.moving = n
  BY <1>1 DEF Takes, Becomes
<1>3. batch[e].avail = p.plan[e] /\ batch[e].status = "ACTIVE" /\ batch[e].avail \in Int
  BY <1>0, <1>2, RowsTyped DEF FreshSlot, ReadsPlan, BatchRow
<1>4. row.status # "BLOCKED"
  BY <1>2 DEF StatusFor
<1>5. InHand(q, e) = n /\ \A b : InHand(p, b) = 0 /\ (b # e => InHand(q, b) = 0)
  BY <1>0, <1>2 DEF InHand
<1>6. row.avail + InHand(q, e) = batch[e].avail + InHand(p, e)
  <2>1. row.avail + n = batch[e].avail + 0
    BY <1>2, <1>3
  <2> QED
    BY ONLY <1>5, <2>1, Zenon
<1>7. Draws(q, batch', allocs)
  <2>1. batch'[e].status # "BLOCKED"
    BY <1>2, <1>4, ReplacesBatch
  <2> QED
    BY <1>2, <2>1 DEF Draws
<1>8. /\ InHand(p, e) \in Int /\ InHand(q, e) \in Int
      /\ \A b : b # e => InHand(q, b) = InHand(p, b)
  BY <1>5
<1>9. /\ batch' = [batch EXCEPT ![e] = row] /\ row.purchase = batch[e].purchase
      /\ row.initial = batch[e].initial /\ batch[e].status # "BLOCKED"
  BY <1>2, <1>3
<1>10. Settled(purchase, batch, allocs, p) /\ UNCHANGED <<purchase, allocs>>
  BY <1>0
<1>11. Settled(purchase', batch', allocs', q)
  BY ONLY TypeInv, row \in BatchRow, <1>4, <1>6, <1>7, <1>8, <1>9, <1>10, LotSettled
<1> QED
  BY <1>2, <1>11

\* A batch gets units back: it is of an allocation that is not restored, so it is not blocked.
LEMMA GiveSettled ==
    ASSUME TypeInv, NEW r \in Requests, GiveBack(r), FreshSlot(req[r], batch),
           Settled(purchase, batch, allocs, req[r])
    PROVE  \E q : req' = [req EXCEPT ![r] = q] /\ Settled(purchase', batch', allocs', q)
<1> PICK p : p = req[r]
  OBVIOUS
<1>0. /\ p.pc = "give" /\ p.op = "restore" /\ p.ent \in DOMAIN batch /\ p.alloc \in DOMAIN allocs
      /\ p.moving \in Nat \ {0} /\ UNCHANGED <<purchase, allocs>>
  BY GiveIs
<1> PICK e \in DOMAIN batch : e = p.ent
  BY <1>0
<1>1. \E row \in BatchRow :
        /\ batch' = [batch EXCEPT ![e] = row]
        /\ row.purchase = batch[e].purchase /\ row.initial = batch[e].initial
        /\ row.avail = p.avail /\ row.status = "ACTIVE"
  BY GiveIs
<1> PICK row \in BatchRow :
        /\ batch' = [batch EXCEPT ![e] = row]
        /\ row.purchase = batch[e].purchase /\ row.initial = batch[e].initial
        /\ row.avail = p.avail /\ row.status = "ACTIVE"
  BY <1>1
<1>2. \E q : /\ req' = [req EXCEPT ![r] = q] /\ q.pc = "mark" /\ q.op = "restore" /\ q.ent = p.ent
             /\ q.alloc = p.alloc /\ q.moving = p.moving
  BY GiveIs DEF Becomes
<1> PICK q : /\ req' = [req EXCEPT ![r] = q] /\ q.pc = "mark" /\ q.op = "restore" /\ q.ent = p.ent
             /\ q.alloc = p.alloc /\ q.moving = p.moving
  BY <1>2
<1> PICK n \in Nat \ {0} : n = p.moving
  BY <1>0
<1>3. row.avail = batch[e].avail + n /\ batch[e].avail \in Int
  BY <1>0, RowsTyped DEF FreshSlot, ReadsUnits, BatchRow
<1>4. ~allocs[p.alloc].restored /\ allocs[p.alloc].batch = e /\ allocs[p.alloc].qty = p.moving
  BY <1>0 DEF Settled, Draws
<1>5. InHand(q, e) = -n /\ \A b : InHand(p, b) = 0 /\ (b # e => InHand(q, b) = 0)
  BY <1>0 DEF InHand
<1>6. row.avail + InHand(q, e) = batch[e].avail + InHand(p, e)
  <2>1. row.avail + (-n) = batch[e].avail + 0
    BY <1>3
  <2> QED
    BY ONLY <1>5, <2>1, Zenon
<1>7. Draws(q, batch', allocs)
  BY <1>4 DEF Draws
<1>8. /\ InHand(p, e) \in Int /\ InHand(q, e) \in Int
      /\ \A b : b # e => InHand(q, b) = InHand(p, b)
  BY <1>5
<1>9. ASSUME batch[e].purchase # "none"
      PROVE  batch[e].status # "BLOCKED"
  <2>1. SettledLot(e, batch[e], allocs, p)
    BY <1>9 DEF Settled
  <2> QED
    BY <1>0, <1>4, <2>1 DEF SettledLot
<1>10. row.status # "BLOCKED"
  OBVIOUS
<1>11. Settled(purchase', batch', allocs', q)
  BY <1>0, <1>6, <1>7, <1>8, <1>9, <1>10, LotSettled
<1> QED
  BY <1>11

\* An allocation is inserted, of a lot that is not blocked.
LEMMA AllocSettled ==
    ASSUME TypeInv, NEW r \in Requests, InsertAllocation(r), Settled(purchase, batch, allocs, req[r])
    PROVE  \E q : req' = [req EXCEPT ![r] = q] /\ Settled(purchase', batch', allocs', q)
<1> PICK p : p = req[r]
  OBVIOUS
<1>0. /\ p.pc = "alloc" /\ p.ent \in DOMAIN batch /\ p.moving \in Nat \ {0}
      /\ UNCHANGED <<purchase, batch>>
      /\ allocs' = Append(allocs, [batch |-> p.ent, qty |-> p.moving, restored |-> FALSE])
      /\ \/ Becomes(r, Idle)
         \/ \E q : Becomes(r, q) /\ q.pc = "take" /\ q.op = "consume"
  BY AllocIs
<1> PICK e \in DOMAIN batch : e = p.ent
  BY <1>0
<1> PICK n \in Nat \ {0} : n = p.moving
  BY <1>0
<1>1. \E q : req' = [req EXCEPT ![r] = q] /\ Draws(q, batch, allocs') /\ \A b : InHand(q, b) = 0
  <2>1. CASE Becomes(r, Idle)
    BY <2>1, IdleDraws DEF Becomes
  <2>2. ASSUME NEW q, Becomes(r, q), q.pc = "take", q.op = "consume"
        PROVE  req' = [req EXCEPT ![r] = q] /\ Draws(q, batch, allocs') /\ \A b : InHand(q, b) = 0
    BY <2>2, EmptyHands DEF Becomes, Draws
  <2> QED
    BY <1>0, <2>1, <2>2
<1> PICK q : req' = [req EXCEPT ![r] = q] /\ Draws(q, batch, allocs') /\ \A b : InHand(q, b) = 0
  BY <1>1
<1> DEFINE x == [batch |-> e, qty |-> n, restored |-> FALSE]
<1>2. x \in AllocationRow /\ x.batch = e /\ x.qty = n /\ x.restored = FALSE
  <2>1. e \in Nat
    BY RowsTyped
  <2> QED
    BY <2>1 DEF AllocationRow
<1>3. allocs' = Append(allocs, x) /\ allocs \in Seq(AllocationRow)
  BY <1>0 DEF TypeInv, TablesOK
<1> HIDE DEF x
<1>4. batch[e].status # "BLOCKED"
  BY <1>0 DEF Settled, Draws
<1>5. ASSUME NEW b \in DOMAIN batch, batch[b].purchase # "none"
      PROVE  SettledLot(b, batch[b], allocs', q)
  <2>1. SettledLot(b, batch[b], allocs, p)
    BY <1>5 DEF Settled
  <2>2. CASE batch[b].status = "BLOCKED"
    <3>1. \A k \in DOMAIN allocs' : allocs'[k].batch = b => allocs'[k].restored
      <4>1. b # e /\ \A k \in DOMAIN allocs : allocs[k].batch = b => allocs[k].restored
        BY <1>4, <2>1, <2>2 DEF SettledLot
      <4>2. \A k \in DOMAIN allocs' : (k \in DOMAIN allocs /\ allocs'[k] = allocs[k]) \/ allocs'[k] = x
        BY <1>3
      <4> QED
        BY <1>2, <4>1, <4>2
    <3> QED
      BY <2>1, <2>2, <3>1 DEF SettledLot
  <2>3. CASE batch[b].status # "BLOCKED"
    <3> PICK held \in Nat : held = HeldOf(allocs, b)
      BY <1>3, HeldTyped
    <3>1. HeldOf(allocs', b) = held + HeldIn(x, b)
      BY <1>2, <1>3, HeldGrows
    <3>2. HeldIn(x, b) = InHand(p, b) /\ HeldIn(x, b) \in Nat
      BY <1>0, <1>2 DEF HeldIn, InHand
    <3> PICK m \in Nat : m = HeldIn(x, b)
      BY <3>2
    <3>3. batch[b].avail + held + m = batch[b].initial
      BY <2>1, <2>3, <3>2 DEF SettledLot
    <3>4. batch[b].avail \in Int
      BY RowsTyped DEF BatchRow
    <3>5. batch[b].avail + (held + m) + 0 = batch[b].initial
      BY ONLY <3>3, <3>4
    <3>6. batch[b].avail + HeldOf(allocs', b) + InHand(q, b) = batch[b].initial
      <4>1. HeldOf(allocs', b) = held + m /\ InHand(q, b) = 0
        BY <3>1
      <4> QED
        BY ONLY <3>5, <4>1, Zenon
    <3> QED
      BY <2>3, <3>6 DEF SettledLot
  <2> QED
    BY <2>2, <2>3
<1>6. \A u \in Purchases : SettledPurchase(u, purchase[u], batch)
  BY DEF Settled
<1>7. Settled(purchase, batch, allocs', q)
  BY <1>5, <1>6 DEF Settled
<1> QED
  BY <1>0, <1>7

\* An allocation is marked.
LEMMA MarkSettled ==
    ASSUME TypeInv, TypeInv', NEW r \in Requests, MarkRestored(r),
           Settled(purchase, batch, allocs, req[r])
    PROVE  req' = [req EXCEPT ![r] = Idle] /\ Settled(purchase', batch', allocs', Idle)
<1> PICK p : p = req[r]
  OBVIOUS
<1>0. /\ p.pc = "mark" /\ p.op = "restore" /\ p.moving \in Nat \ {0} /\ p.alloc \in DOMAIN allocs
      /\ UNCHANGED <<purchase, batch>> /\ req' = [req EXCEPT ![r] = Idle]
      /\ DOMAIN allocs' = DOMAIN allocs
      /\ \A k \in DOMAIN allocs :
           /\ allocs'[k].batch = allocs[k].batch /\ allocs'[k].qty = allocs[k].qty
           /\ allocs'[k].restored = (k = p.alloc \/ allocs[k].restored)
  BY MarkIs DEF Becomes
<1> PICK j \in DOMAIN allocs : j = p.alloc
  BY <1>0
<1> PICK n \in Nat \ {0} : n = p.moving
  BY <1>0
<1>1. ~allocs[j].restored /\ allocs[j].batch = p.ent /\ allocs[j].qty = n
  BY <1>0 DEF Settled, Draws
<1>2. allocs \in Seq(AllocationRow) /\ allocs' \in Seq(AllocationRow)
  BY DEF TypeInv, TablesOK
<1>3. ASSUME NEW b \in DOMAIN batch, batch[b].purchase # "none"
      PROVE  SettledLot(b, batch[b], allocs', Idle)
  <2>1. SettledLot(b, batch[b], allocs, p)
    BY <1>3 DEF Settled
  <2>2. CASE batch[b].status = "BLOCKED"
    <3>1. \A k \in DOMAIN allocs' : allocs'[k].batch = b => allocs'[k].restored
      BY <1>0, <2>1, <2>2 DEF SettledLot
    <3> QED
      BY <2>1, <2>2, <3>1 DEF SettledLot
  <2>3. CASE batch[b].status # "BLOCKED"
    <3> PICK held \in Nat : held = HeldOf(allocs, b)
      BY <1>2, HeldTyped
    <3> PICK m : m = IF allocs[j].batch = b THEN n ELSE 0
      OBVIOUS
    <3>a. /\ DOMAIN allocs' = DOMAIN allocs /\ ~allocs[j].restored
          /\ \A k \in DOMAIN allocs :
               /\ allocs'[k].batch = allocs[k].batch /\ allocs'[k].qty = allocs[k].qty
               /\ allocs'[k].restored = (k = j \/ allocs[k].restored)
      BY <1>0, <1>1
    <3>b. HeldOf(allocs', b)
            = HeldOf(allocs, b) - (IF allocs[j].batch = b THEN allocs[j].qty ELSE 0)
      BY <1>2, <3>a, HeldRestored, SMTT(40)
    <3>1. HeldOf(allocs', b) = held - m
      BY <1>1, <3>b
    <3>2. InHand(p, b) = -m /\ m \in Nat
      BY <1>0, <1>1 DEF InHand
    <3>3. batch[b].avail + held + (-m) = batch[b].initial
      BY <2>1, <2>3, <3>2 DEF SettledLot
    <3>4. batch[b].avail \in Int
      BY RowsTyped DEF BatchRow
    <3>5. batch[b].avail + (held - m) + 0 = batch[b].initial
      BY ONLY <3>2, <3>3, <3>4
    <3>6. batch[b].avail + HeldOf(allocs', b) + InHand(Idle, b) = batch[b].initial
      <4>1. InHand(Idle, b) = 0
        BY IdleDraws
      <4> QED
        BY ONLY <3>1, <3>5, <4>1, Zenon
    <3> QED
      BY <2>3, <3>6 DEF SettledLot
  <2> QED
    BY <2>2, <2>3
<1>4. \A u \in Purchases : SettledPurchase(u, purchase[u], batch)
  BY DEF Settled
<1>5. Settled(purchase, batch, allocs', Idle)
  BY <1>3, <1>4, IdleDraws DEF Settled
<1> QED
  BY <1>0, <1>5

\* The statements.
LEMMA RunSettled ==
    ASSUME TypeInv, TypeInv', RoomInv, LotsInv, NEW r \in Requests, Run(r),
           Booked(purchase, payments, req), FreshSlot(req[r], batch),
           Settled(purchase, batch, allocs, req[r])
    PROVE  \E q : req' = [req EXCEPT ![r] = q] /\ Settled(purchase', batch', allocs', q)
<1>s. ASSUME NEW q, Becomes(r, q), UNCHANGED <<purchase, batch, allocs>>,
             req[r].pc \notin {"alloc", "mark"}, q.pc \notin {"alloc", "mark"}, Draws(q, batch, allocs)
      PROVE  \E k : req' = [req EXCEPT ![r] = k] /\ Settled(purchase', batch', allocs', k)
  <2>1. \A b : InHand(q, b) = InHand(req[r], b)
    BY <1>s, EmptyHands
  <2>2. Settled(purchase, batch, allocs, q)
    BY <1>s, <2>1, SettledStill
  <2> QED
    BY <1>s, <2>2 DEF Becomes
<1>i. ASSUME Becomes(r, Idle), UNCHANGED <<purchase, batch, allocs>>, req[r].pc \notin {"alloc", "mark"}
      PROVE  \E k : req' = [req EXCEPT ![r] = k] /\ Settled(purchase', batch', allocs', k)
  BY <1>i, <1>s, IdleDraws, IdleTyped
<1>v. ASSUME NEW q, Becomes(r, q), UNCHANGED <<purchase, batch, allocs>>,
             req[r].pc \notin {"alloc", "mark"}, q.pc \notin {"alloc", "mark"},
             q.op \notin {"cancel", "restore"}
      PROVE  \E k : req' = [req EXCEPT ![r] = k] /\ Settled(purchase', batch', allocs', k)
  BY <1>s, <1>v DEF Draws
<1>d. Draws(req[r], batch, allocs) /\ Holding(req[r], Len(batch), Len(allocs))
  BY RowsTyped DEF Settled
<1>1. CASE SelectPurchase(r)
  <2>1. req[r].pc = "select" /\ UNCHANGED <<purchase, batch, allocs>>
    BY <1>1, SelectIs DEF Reading
  <2>2. req[r].op \in {"update", "pay"}
    BY <1>d, <2>1 DEF Holding, OpsAt
  <2>3. \/ Becomes(r, Idle)
        \/ \E q : Becomes(r, q) /\ q.pc = "write" /\ q.op = req[r].op
    BY <1>1, SelectIs DEF SamePurchase
  <2> QED
    BY <1>i, <1>v, <2>1, <2>2, <2>3
<1>2. CASE WritePurchase(r)
  <2>1. ASSUME NEW q, Becomes(r, q), q.pc \notin {"alloc", "mark"}, Draws(q, batch, allocs)
        PROVE  \E k : req' = [req EXCEPT ![r] = k] /\ Settled(purchase', batch', allocs', k)
    BY <1>2, <2>1, WriteSettled DEF Becomes
  <2>2. \/ Becomes(r, Idle)
        \/ \E q : Becomes(r, q) /\ q.pc = "receipt" /\ q.op = "pay"
    BY <1>2, WriteIs DEF SamePurchase
  <2>3. \A q : q.pc = "receipt" /\ q.op = "pay" => Draws(q, batch, allocs)
    BY DEF Draws
  <2> QED
    BY <2>1, <2>2, <2>3, IdleDraws, IdleTyped
<1>3. CASE InsertPayment(r)
  BY <1>3, <1>i, ReceiptIs
<1>4. CASE LoadBatches(r)
  <2>1. req[r].pc = "load" /\ UNCHANGED <<purchase, batch, allocs>>
    BY <1>4, LoadIs DEF Reading
  <2>2. PICK q : Becomes(r, q) /\ q.pc = "block" /\ q.op = req[r].op /\ q.purchase = req[r].purchase
    BY <1>4, LoadIs DEF SamePurchase
  <2>3. Draws(q, batch, allocs)
    <3>1. req[r].op = "cancel"
      BY <1>d, <2>1 DEF Holding, OpsAt
    <3> QED
      BY <1>d, <2>2, <3>1 DEF Draws
  <2> QED
    BY <1>s, <2>1, <2>2, <2>3
<1>5. CASE CommitCancel(r)
  BY <1>5, CommitIs, CommitSettled DEF Becomes
<1>6. CASE FindLegacy(r)
  <2>1. req[r].pc = "find" /\ UNCHANGED <<purchase, batch, allocs>>
    BY <1>6, FindIs DEF Reading
  <2>2. \E q : /\ Becomes(r, q)
               /\ q = Idle \/ (q.op \notin {"cancel", "restore"} /\ q.pc \notin {"alloc", "mark"})
    BY <1>6, FindIs DEF PastLegacy
  <2> QED
    BY <1>i, <1>v, <2>1, <2>2
<1>7. CASE InsertLegacy(r)
  <2> DEFINE n == Len(batch) + 1
  <2>1. PICK q : /\ Becomes(r, q)
                 /\ q = Idle \/ (q.op \notin {"cancel", "restore"} /\ q.pc \notin {"alloc", "mark"})
    BY <1>7, InsertIs DEF PastLegacy
  <2>2. /\ DOMAIN batch' = DOMAIN batch \cup {n} /\ req[r].pc = "insert"
        /\ \A b \in DOMAIN batch : batch'[b] = batch[b]
        /\ batch'[n] = NewBatch(req[r].product, "none", TRUE, FALSE, req[r].moving)
        /\ UNCHANGED <<purchase, allocs>>
    BY <1>7, LegacyAdded DEF MoreLegacy
  <2>3. batch'[n].purchase = "none"
    BY <2>2 DEF NewBatch
  <2> HIDE DEF n
  <2>4. \A b \in DOMAIN batch' : batch'[b].purchase # "none" => b \in DOMAIN batch /\ batch'[b] = batch[b]
    BY <2>2, <2>3
  <2>5. (\A b : InHand(q, b) = InHand(req[r], b)) /\ Draws(q, batch', allocs)
    BY <2>1, <2>2, EmptyHands, IdleDraws DEF Draws
  <2>6. Settled(purchase, batch', allocs, q)
    BY <2>4, <2>5, SettledStill
  <2> QED
    BY <2>1, <2>2, <2>6 DEF Becomes
<1>8. CASE AdjustBatch(r)
  <2> PICK e : e = req[r].ent
    OBVIOUS
  <2>1. /\ req[r].pc = "adjust" /\ e \in DOMAIN batch /\ UNCHANGED <<purchase, allocs>>
        /\ \E row \in BatchRow : batch' = [batch EXCEPT ![e] = row] /\ row.purchase = batch[e].purchase
        /\ \E q : Becomes(r, q) /\ q.pc = "move" /\ q.op = "adjust"
    BY <1>8, AdjustIs
  <2>2. batch[e].purchase = "none"
    BY <2>1 DEF LotsInv, GoodRow, GoodSlot
  <2>3. PICK row \in BatchRow : batch' = [batch EXCEPT ![e] = row] /\ row.purchase = batch[e].purchase
    BY <2>1
  <2>4. PICK q : Becomes(r, q) /\ q.pc = "move" /\ q.op = "adjust"
    BY <2>1
  <2>5. \A b \in DOMAIN batch' : batch'[b].purchase # "none" => b \in DOMAIN batch /\ batch'[b] = batch[b]
    BY <2>1, <2>2, <2>3, ReplacesBatch
  <2>6. (\A b : InHand(q, b) = InHand(req[r], b)) /\ Draws(q, batch', allocs)
    BY <2>1, <2>4, EmptyHands DEF Draws
  <2>7. Settled(purchase, batch', allocs, q)
    BY <2>5, <2>6, SettledStill
  <2> QED
    BY <2>1, <2>4, <2>7 DEF Becomes
<1>9. CASE InsertMovement(r)
  BY <1>9, <1>i, MoveIs
<1>10. CASE ReadCandidates(r)
  <2>1. /\ req[r].pc = "plan" /\ UNCHANGED <<purchase, batch, allocs>>
        /\ Becomes(r, Idle) \/ \E q : Becomes(r, q) /\ q.pc = "take" /\ q.op = "consume"
    BY <1>10, ReadIs, RoomFits DEF Reading
  <2> QED
    BY <1>i, <1>v, <2>1
<1>11. CASE TakeBatch(r)
  BY <1>11, TakeSettled
<1>12. CASE InsertAllocation(r)
  BY <1>12, AllocSettled
<1>13. CASE GiveBack(r)
  BY <1>13, GiveSettled
<1>14. CASE MarkRestored(r)
  BY <1>14, MarkSettled
<1> QED
  BY <1>1, <1>2, <1>3, <1>4, <1>5, <1>6, <1>7, <1>8, <1>9, <1>10, <1>11, <1>12, <1>13, <1>14 DEF Run

\* A day that passes.
LEMMA ExpireSettled ==
    ASSUME TypeInv, NEW b \in DOMAIN batch, Expire(b), NEW q \in Request,
           Holding(q, Len(batch), Len(allocs)), Settled(purchase, batch, allocs, q)
    PROVE  Settled(purchase', batch', allocs', q)
<1>1. /\ DOMAIN batch' = DOMAIN batch /\ UNCHANGED <<purchase, allocs>>
      /\ \A c \in DOMAIN batch :
           /\ batch'[c].avail = batch[c].avail /\ batch'[c].status = batch[c].status
           /\ batch'[c].initial = batch[c].initial /\ batch'[c].purchase = batch[c].purchase
  BY ExpireIs DEF Expire
<1>2. q.pc = "alloc" => q.ent \in DOMAIN batch
  BY RowsTyped DEF Holding, HoldsBatch
<1>3. Draws(q, batch', allocs)
  BY <1>1, <1>2 DEF Settled, Draws
<1>4. Settled(purchase, batch', allocs, q)
  BY <1>1, <1>3, SettledStill
<1> QED
  BY <1>1, <1>4

\* Every step.
LEMMA NextSettled ==
    ASSUME TypeInv, RoomInv, AloneInv, LegacyInv, LotsInv, FreshInv, BooksInv, SettledInv, [Next]_vars
    PROVE  SettledInv'
<1>0. TypeInv'
  BY NextTypes
<1>1. CASE UNCHANGED vars
  BY <1>1 DEF vars, SettledInv, Clean, Serial
<1>2. ASSUME NEW b \in DOMAIN batch, Expire(b)
      PROVE  SettledInv'
  <2>1. UNCHANGED <<req, used>>
    BY <1>2 DEF Expire
  <2>2. OnlyOf(req) \in Request /\ Holding(OnlyOf(req), Len(batch), Len(allocs))
    BY RowsTyped, IdleTyped, IdleHolds DEF OnlyOf
  <2> QED
    BY <1>2, <2>1, <2>2, ExpireSettled DEF SettledInv, Clean, Serial
<1>3. ASSUME NEW r \in Requests, Begin(r) \/ (Running(r) /\ Run(r)) \/ Die(r), Clean'
      PROVE  Settled(purchase', batch', allocs', OnlyOf(req'))
  <2>1. Clean /\ ~Die(r) /\ Serial'
    BY <1>0, <1>3, StaysClean DEF Clean
  <2>2. \A s \in Requests : s # r => req[s] = Idle /\ req'[s] = Idle
    BY <1>3, <2>1, OnlyOne
  <2>3. OnlyOf(req) = req[r]
    BY <2>2, OnlyIs
  <2>4. OnlyOf(req') = req'[r]
    BY <2>2, OnlyIs
  <2>5. Settled(purchase, batch, allocs, req[r]) /\ Booked(purchase, payments, req)
    BY <2>1, <2>3 DEF SettledInv, BooksInv
  <2>6. FreshSlot(req[r], batch)
    BY <2>1 DEF FreshInv, Clean
  <2>7. \E q : req' = [req EXCEPT ![r] = q] /\ Settled(purchase', batch', allocs', q)
    <3>1. CASE Begin(r)
      BY <2>5, <3>1, BeginSettled, BeginIs
    <3>2. CASE Run(r)
      BY <1>0, <2>5, <2>6, <3>2, RunSettled
    <3> QED
      BY <1>3, <2>1, <3>1, <3>2
  <2>8. Settled(purchase', batch', allocs', req'[r])
    BY <2>7 DEF TypeInv, RequestsHold
  <2> QED
    BY <2>4, <2>8
<1> QED
  BY <1>1, <1>2, <1>3 DEF Next, SettledInv

\* When requests neither overlap nor die, the lots of a cancelled purchase are blocked and
\* empty, and every unit that orders took of them was given back.
THEOREM CancelledHolds == Spec => []CancelledHoldsNothing
<1>1. Init => AloneInv /\ LegacyInv /\ LotsInv /\ FreshInv
  BY IdleTyped, IdleFresh DEF Init, AloneInv, LegacyInv, Running, LotsInv, GoodSlot, FreshInv
<1>2. Init => SettledInv
  <2> SUFFICES ASSUME Init
               PROVE  Settled(purchase, batch, allocs, OnlyOf(req))
    BY DEF SettledInv
  <2>1. OnlyOf(req) = Idle
    BY OnlyWhenQuiet DEF Init
  <2>2. DOMAIN batch = {}
    BY DEF Init
  <2>3. \A u \in Purchases : purchase[u].status = "ABSENT"
    BY DEF Init, NoPurchase
  <2> QED
    BY <2>1, <2>2, <2>3, IdleDraws DEF Settled, SettledPurchase
<1>3. SettledInv => CancelledHoldsNothing
  <2> SUFFICES ASSUME SettledInv, Clean, NEW u \in Purchases, purchase[u].status = "CANCELLED",
                      NEW b \in BoughtWith(u)
               PROVE  /\ batch[b].status = "BLOCKED" /\ batch[b].avail = 0
                      /\ \A k \in DOMAIN allocs : allocs[k].batch = b => allocs[k].restored
    BY DEF CancelledHoldsNothing
  <2>1. b \in DOMAIN batch /\ batch[b].purchase = u /\ u # "none"
    BY StockroomAssumption DEF BoughtWith
  <2>2. batch[b].status = "BLOCKED" /\ SettledLot(b, batch[b], allocs, OnlyOf(req))
    BY <2>1 DEF SettledInv, Settled, SettledPurchase
  <2> QED
    BY <2>2 DEF SettledLot
<1> QED
  BY <1>1, <1>2, <1>3, BooksAtFirst, InitTypes, NextLots, NextBooks, NextFresh, NextSettled, PTL DEF Spec

-----------------------------------------------------------------------------
(* When requests do not overlap, the movements of a batch explain its units: what is not  *)
(* explained is in the hands of the request that runs, or was in those of one that died.  *)

\* The units that request q moved and has not recorded yet.
Pend(q, b) ==
    IF q.ent # b THEN 0
    ELSE CASE q.pc = "alloc" -> -q.moving
           [] q.pc = "mark" -> q.moving
           [] q.pc = "move" /\ q.op = "adjust" -> q.moving - Raised(q.moving)
           [] OTHER -> 0
\* What neither movements nor the request explain.
Off(b, lot, sums, q) == lot.avail - (lot.initial - sums.raised + sums.sum) - Pend(q, b)
Near(n, faults) == n <= faults * LargestMove /\ -n <= faults * LargestMove
\* No request moves more than was ever entered or corrected.
Small(q) ==
    /\ q.op = "consume" => q.qty <= LargestMove
    /\ q.pc = "alloc" \/ q.op = "restore" => q.moving <= LargestMove
    /\ q.pc = "move" /\ q.op = "adjust" => q.moving \in Deltas
Explained(lots, sums, al, q, faults) ==
    /\ \A b \in DOMAIN lots : Near(Off(b, lots[b], sums[b], q), faults)
    /\ \A k \in DOMAIN al : al[k].qty <= LargestMove
    /\ Small(q)
ExplainedInv == Serial => Explained(batch, moved, allocs, OnlyOf(req), used.faults)

\* No entry, order or correction moves more than the largest one.
LEMMA LargestMoveIs ==
    /\ LargestMove \in Nat /\ \A n \in Entries : n <= LargestMove
    /\ \A d \in Deltas : d <= LargestMove /\ -d <= LargestMove
<1> DEFINE Down == {-d : d \in Deltas}
           S == {0} \cup Entries \cup Deltas \cup Down
<1>1. IsFiniteSet({0}) /\ IsFiniteSet(Entries) /\ IsFiniteSet(Deltas)
  BY FS_Singleton, StockroomAssumption
<1>2. IsFiniteSet(Down)
  <2> DEFINE f == [d \in Deltas |-> -d]
  <2>1. f \in Surjection(Deltas, Down)
    BY DEF Surjection
  <2> QED
    BY ONLY <1>1, <2>1, FS_Surjection
<1>3. S # {} /\ S \subseteq Int /\ 0 \in S /\ Entries \subseteq S /\ Deltas \subseteq S /\ Down \subseteq S
  BY InputsTyped
<1>4. LargestMove = Max(S)
  BY DEF LargestMove
<1>5. \A d \in Deltas : -d \in Down
  OBVIOUS
<1> HIDE DEF Down
<1>6. IsFiniteSet(S)
  <2>1. IsFiniteSet({0} \cup Entries)
    BY ONLY <1>1, FS_Union
  <2>2. IsFiniteSet(({0} \cup Entries) \cup Deltas)
    BY ONLY <1>1, <2>1, FS_Union
  <2> QED
    BY ONLY <1>2, <2>2, FS_Union
<1> HIDE DEF S
<1>7. Max(S) \in S /\ \A y \in S : y <= Max(S)
  BY ONLY <1>3, <1>6, MaxIsLargest
<1>8. Max(S) \in Int /\ 0 <= Max(S)
  BY <1>3, <1>7
<1> QED
  BY <1>3, <1>4, <1>5, <1>7, <1>8

\* A batch that its movements explain.
LEMMA NearZero ==
    ASSUME NEW faults \in Nat
    PROVE  Near(0, faults)
<1> PICK m \in Nat : m = LargestMove
  BY LargestMoveIs
<1>1. faults * m \in Nat
  OBVIOUS
<1> QED
  BY <1>1 DEF Near

\* One request more that died.
LEMMA NearMore ==
    ASSUME NEW faults \in Nat, NEW n \in Int, NEW d \in Int, d <= LargestMove, -d <= LargestMove,
           Near(n, faults)
    PROVE  Near(n + d, faults + 1)
<1> PICK m \in Nat : m = LargestMove
  BY LargestMoveIs
<1> PICK f \in Nat : f = faults * m
  OBVIOUS
<1>1. (faults + 1) * m = f + m
  OBVIOUS
<1>2. n <= f /\ -n <= f /\ d <= m /\ -d <= m
  BY DEF Near
<1>3. n + d <= f + m /\ -(n + d) <= f + m
  BY <1>2
<1> QED
  BY <1>1, <1>3 DEF Near

\* A request that moved units is at one of three statements.
LEMMA NothingPending ==
    ASSUME NEW q, q.pc \notin {"alloc", "mark"}, q.pc # "move" \/ q.op # "adjust"
    PROVE  \A b : Pend(q, b) = 0
  BY DEF Pend
\* An idle slot has moved nothing.
LEMMA IdleSmall == Small(Idle) /\ \A b : Pend(Idle, b) = 0
  BY IdleTyped, NothingPending DEF Small

\* What a request has moved is small.
LEMMA PendSmall ==
    ASSUME NEW q \in Request, NEW n, NEW k, Holding(q, n, k), Small(q), NEW b
    PROVE  Pend(q, b) \in Int /\ Pend(q, b) <= LargestMove /\ -Pend(q, b) <= LargestMove
<1> PICK m \in Nat : m = LargestMove
  BY LargestMoveIs
<1> PICK x \in Int : x = q.moving
  BY DEF Request
<1>1. q.pc = "alloc" => x \in Nat
  BY DEF Holding, HoldsPlan
<1>2. q.pc = "mark" => x \in Nat /\ q.op = "restore"
  BY DEF Holding, HoldsBatch, OpsAt
<1>3. CASE q.ent # b
  BY <1>3 DEF Pend
<1>4. CASE q.ent = b /\ q.pc = "alloc"
  <2>1. Pend(q, b) = -x /\ x <= m
    BY <1>4 DEF Pend, Small
  <2> QED
    BY <1>1, <1>4, <2>1
<1>5. CASE q.ent = b /\ q.pc = "mark"
  <2>1. Pend(q, b) = x /\ x <= m
    BY <1>2, <1>5 DEF Pend, Small
  <2> QED
    BY <1>2, <1>5, <2>1
<1>6. CASE q.ent = b /\ q.pc = "move" /\ q.op = "adjust"
  <2>1. Pend(q, b) = x - Raised(x) /\ x \in Deltas
    BY <1>6 DEF Pend, Small
  <2>2. x <= m /\ -x <= m
    BY <2>1, LargestMoveIs
  <2>3. x - Raised(x) = IF x > 0 THEN 0 ELSE x
    BY DEF Raised
  <2> QED
    BY <2>1, <2>2, <2>3
<1>7. CASE q.pc \notin {"alloc", "mark"} /\ (q.pc # "move" \/ q.op # "adjust")
  <2>1. Pend(q, b) = 0
    BY <1>7, NothingPending
  <2> QED
    BY <2>1
<1> QED
  BY <1>3, <1>4, <1>5, <1>6, <1>7

\* Every batch is explained as before, or fully.
LEMMA StaysExplained ==
    ASSUME NEW faults \in Nat, NEW p, NEW q, Explained(batch, moved, allocs, p, faults), Small(q),
           \A b \in DOMAIN batch' :
             \/ Off(b, batch'[b], moved'[b], q) = 0
             \/ b \in DOMAIN batch /\ Off(b, batch'[b], moved'[b], q) = Off(b, batch[b], moved[b], p),
           \A k \in DOMAIN allocs' : allocs'[k].qty <= LargestMove
    PROVE  Explained(batch', moved', allocs', q, faults)
<1> SUFFICES ASSUME NEW b \in DOMAIN batch'
             PROVE  Near(Off(b, batch'[b], moved'[b], q), faults)
  BY DEF Explained
<1>1. CASE Off(b, batch'[b], moved'[b], q) = 0
  BY <1>1, NearZero
<1>2. CASE /\ b \in DOMAIN batch
           /\ Off(b, batch'[b], moved'[b], q) = Off(b, batch[b], moved[b], p)
  BY <1>2 DEF Explained
<1> QED
  BY <1>1, <1>2

\* A step that writes no batch, no movement and no allocation, by a request that moved nothing.
LEMMA ExplainedStill ==
    ASSUME NEW faults \in Nat, NEW p, NEW q, Explained(batch, moved, allocs, p, faults), Small(q),
           UNCHANGED <<batch, moved, allocs>>, \A b : Pend(q, b) = Pend(p, b)
    PROVE  Explained(batch', moved', allocs', q, faults)
<1>1. \A b \in DOMAIN batch : Off(b, batch[b], moved[b], q) = Off(b, batch[b], moved[b], p)
  BY DEF Off
<1> QED
  BY <1>1, StaysExplained DEF Explained

\* A step that writes one batch, or its movements.
LEMMA OneExplained ==
    ASSUME NEW faults \in Nat, NEW p, NEW q, Explained(batch, moved, allocs, p, faults), Small(q),
           DOMAIN batch' = DOMAIN batch, NEW e \in DOMAIN batch,
           \A b \in DOMAIN batch : b # e => /\ batch'[b] = batch[b] /\ moved'[b] = moved[b]
                                            /\ Pend(q, b) = Pend(p, b),
           Off(e, batch'[e], moved'[e], q) = Off(e, batch[e], moved[e], p),
           \A k \in DOMAIN allocs' : allocs'[k].qty <= LargestMove
    PROVE  Explained(batch', moved', allocs', q, faults)
<1>1. ASSUME NEW b \in DOMAIN batch
      PROVE  Off(b, batch'[b], moved'[b], q) = Off(b, batch[b], moved[b], p)
  <2>1. CASE b # e
    BY <2>1 DEF Off
  <2> QED
    BY <2>1
<1> QED
  BY <1>1, StaysExplained

\* The numbers of a batch.
LEMMA NumbersTyped ==
    ASSUME TypeInv, NEW b \in DOMAIN batch
    PROVE  /\ batch[b].avail \in Int /\ batch[b].initial \in Int
           /\ moved[b].sum \in Int /\ moved[b].raised \in Int
  BY RowsTyped DEF BatchRow, MovementSums

\* A batch that was just inserted, with or without its movement.
LEMMA NewIsExplained ==
    ASSUME NEW n \in Nat, NEW q, NEW b, Pend(q, b) = 0, NEW row, row.avail = n, row.initial = n, NEW sums,
           sums = [sum |-> 0, raised |-> 0] \/ sums = [sum |-> n, raised |-> n]
    PROVE  Off(b, row, sums, q) = 0
<1>1. row.avail = n /\ row.initial = n
  OBVIOUS
<1>2. n - (n - 0 + 0) - 0 = 0 /\ n - (n - n + n) - 0 = 0
  OBVIOUS
<1>3. CASE sums = [sum |-> 0, raised |-> 0]
  BY <1>1, <1>2, <1>3 DEF Off
<1>4. CASE sums = [sum |-> n, raised |-> n]
  BY <1>1, <1>2, <1>4 DEF Off
<1> QED
  BY <1>3, <1>4

\* Batches were inserted, with or without their movements.
LEMMA MoreExplained ==
    ASSUME NEW faults \in Nat, NEW p, NEW q, Explained(batch, moved, allocs, p, faults), Small(q),
           \A b : Pend(p, b) = 0 /\ Pend(q, b) = 0, UNCHANGED allocs,
           \A b \in DOMAIN batch : batch'[b] = batch[b] /\ moved'[b] = moved[b],
           \A b \in DOMAIN batch' \ DOMAIN batch : Off(b, batch'[b], moved'[b], q) = 0
    PROVE  Explained(batch', moved', allocs', q, faults)
<1>1. ASSUME NEW b \in DOMAIN batch
      PROVE  Off(b, batch'[b], moved'[b], q) = Off(b, batch[b], moved[b], p)
  BY DEF Off
<1>2. \A b \in DOMAIN batch' :
        \/ Off(b, batch'[b], moved'[b], q) = 0
        \/ b \in DOMAIN batch /\ Off(b, batch'[b], moved'[b], q) = Off(b, batch[b], moved[b], p)
  BY <1>1
<1> QED
  BY <1>2, StaysExplained DEF Explained

\* A purchase or an entry comes in.
LEMMA WritingExplained ==
    ASSUME TypeInv, NEW faults \in Nat, NEW r \in Requests, NEW q, Writing(r, q),
           Explained(batch, moved, allocs, Idle, faults)
    PROVE  Explained(batch', moved', allocs', q, faults)
<1>1. ASSUME NEW u \in Purchases, CreatePurchase(r, u), q = Idle
      PROVE  Explained(batch', moved', allocs', q, faults)
  <2>1. /\ \A b \in DOMAIN batch : batch'[b] = batch[b] /\ moved'[b] = moved[b]
        /\ \A b \in DOMAIN batch' \ DOMAIN batch :
             \E i \in DOMAIN Lines[u] :
               /\ b = Len(batch) + i
               /\ batch'[b] = NewBatch(Lines[u][i].product, u, FALSE, Lines[u][i].dated,
                                       Lines[u][i].qty)
               /\ moved'[b] = [sum |-> Lines[u][i].qty, raised |-> Lines[u][i].qty]
    BY <1>1, CreateRows
  <2>2. \A i \in DOMAIN Lines[u] : Lines[u][i].qty \in Nat
    BY LineTyped
  <2>3. ASSUME NEW b \in DOMAIN batch' \ DOMAIN batch
        PROVE  Off(b, batch'[b], moved'[b], Idle) = 0
    <3>1. PICK i \in DOMAIN Lines[u] :
            /\ batch'[b] = NewBatch(Lines[u][i].product, u, FALSE, Lines[u][i].dated, Lines[u][i].qty)
            /\ moved'[b] = [sum |-> Lines[u][i].qty, raised |-> Lines[u][i].qty]
      BY <2>1
    <3>2. Pend(Idle, b) = 0 /\ Lines[u][i].qty \in Nat
      BY <2>2, IdleSmall
    <3> QED
      BY ONLY <3>1, <3>2, NewIsExplained DEF NewBatch
  <2>4. UNCHANGED allocs
    BY <1>1 DEF CreatePurchase
  <2> QED
    BY <1>1, <2>1, <2>3, <2>4, IdleSmall, MoreExplained
<1>2. ASSUME NEW p \in Products, NEW dated \in BOOLEAN, q.op = "entry", q.pc = "move",
             q.moving \in Entries, batch' = Append(batch, NewBatch(p, "none", FALSE, dated, q.moving)),
             moved' = Append(moved, [sum |-> 0, raised |-> 0]), UNCHANGED <<purchase, payments, allocs>>
      PROVE  Explained(batch', moved', allocs', q, faults)
  <2> PICK n \in Nat \ {0} : n = q.moving
    BY <1>2, InputsTyped
  <2>1. NewBatch(p, "none", FALSE, dated, n) \in BatchRow
    BY StockroomAssumption DEF NewBatch, BatchRow, BatchStatus, Expiry
  <2>2. /\ DOMAIN batch' = 1..Len(batch) + 1
        /\ \A b \in DOMAIN batch : batch'[b] = batch[b] /\ moved'[b] = moved[b]
        /\ batch'[Len(batch) + 1] = NewBatch(p, "none", FALSE, dated, n)
        /\ moved'[Len(batch) + 1] = [sum |-> 0, raised |-> 0]
    BY <1>2, <2>1, AppendsBatch
  <2>3. \A b : Pend(q, b) = 0
    BY <1>2, NothingPending
  <2>4. Off(Len(batch) + 1, batch'[Len(batch) + 1], moved'[Len(batch) + 1], q) = 0
    <3> PICK b : b = Len(batch) + 1
      OBVIOUS
    <3>1. batch'[b].avail = n /\ batch'[b].initial = n /\ moved'[b] = [sum |-> 0, raised |-> 0]
      BY <2>2 DEF NewBatch
    <3>2. Pend(q, b) = 0 /\ n \in Nat
      BY <2>3
    <3>3. Off(b, batch'[b], moved'[b], q) = 0
      BY ONLY <3>1, <3>2, NewIsExplained
    <3> QED
      BY <3>3
  <2>5. \A b \in DOMAIN batch' \ DOMAIN batch : b = Len(batch) + 1
    BY <2>2, RowsTyped
  <2>6. Small(q)
    BY <1>2 DEF Small
  <2> QED
    BY <1>2, <2>2, <2>3, <2>4, <2>5, <2>6, IdleSmall, MoreExplained
<1> QED
  BY <1>1, <1>2 DEF Writing

\* The calls.
LEMMA BeginExplained ==
    ASSUME TypeInv, NEW faults \in Nat, NEW r \in Requests, Begin(r),
           Explained(batch, moved, allocs, Idle, faults)
    PROVE  \E q : req' = [req EXCEPT ![r] = q] /\ Explained(batch', moved', allocs', q, faults)
<1>1. PICK q : /\ req' = [req EXCEPT ![r] = q]
               /\ \/ Writing(r, q)
                  \/ /\ Reading
                     /\ \/ UpdateStarts(q) \/ PayStarts(q) \/ CancelStarts(q)
                        \/ FindStarts(q) \/ ConsumeStarts(q) \/ RestoreStarts(q)
  BY BeginIs
<1>2. ASSUME Reading, Small(q), q.pc \notin {"alloc", "mark", "move"}
      PROVE  Explained(batch', moved', allocs', q, faults)
  <2>1. \A b : Pend(q, b) = Pend(Idle, b)
    BY <1>2, IdleSmall, NothingPending
  <2> QED
    BY <1>2, <2>1, ExplainedStill DEF Reading
<1>3. CASE Writing(r, q)
  BY <1>1, <1>3, WritingExplained
<1>4. CASE Reading /\ (UpdateStarts(q) \/ PayStarts(q) \/ CancelStarts(q) \/ FindStarts(q))
  <2>1. q.pc \notin {"alloc", "mark", "move"} /\ Small(q)
    BY <1>4 DEF Small, UpdateStarts, PayStarts, CancelStarts, FindStarts
  <2> QED
    BY <1>1, <1>2, <1>4, <2>1
<1>5. CASE Reading /\ ConsumeStarts(q)
  <2>1. q.pc \notin {"alloc", "mark", "move"} /\ Small(q)
    BY <1>5, LargestMoveIs DEF Small, ConsumeStarts
  <2> QED
    BY <1>1, <1>2, <1>5, <2>1
<1>6. CASE Reading /\ RestoreStarts(q)
  <2>1. q.moving <= LargestMove
    BY <1>6 DEF RestoreStarts, Explained
  <2>2. q.pc \notin {"alloc", "mark", "move"} /\ Small(q)
    BY <1>6, <2>1 DEF Small, RestoreStarts
  <2> QED
    BY <1>1, <1>2, <1>6, <2>2
<1> QED
  BY <1>1, <1>3, <1>4, <1>5, <1>6

\* The LEGACY batch is saved with the correction.
LEMMA AdjustExplained ==
    ASSUME TypeInv, NEW faults \in Nat, NEW r \in Requests, AdjustBatch(r), FreshSlot(req[r], batch),
           Explained(batch, moved, allocs, req[r], faults)
    PROVE  \E q : req' = [req EXCEPT ![r] = q] /\ Explained(batch', moved', allocs', q, faults)
<1> PICK p : p = req[r]
  OBVIOUS
<1>1. p.pc = "adjust" /\ p.ent \in DOMAIN batch /\ p.qty \in Deltas /\ UNCHANGED <<moved, allocs>>
  BY AdjustIs
<1> PICK e \in DOMAIN batch : e = p.ent
  BY <1>1
<1> PICK d \in Int : d = p.qty
  BY <1>1, InputsTyped
<1> PICK up \in Int : up = Raised(d)
  BY DEF Raised
<1>2. PICK row \in BatchRow : /\ batch' = [batch EXCEPT ![e] = row] /\ row.avail = p.avail + d
                              /\ row.initial = p.initial + up
  BY AdjustIs
<1>3. PICK q : /\ Becomes(r, q) /\ q.pc = "move" /\ q.op = "adjust" /\ q.ent = e /\ q.moving = d
  BY AdjustIs
<1> PICK a \in Int, i \in Int : a = batch[e].avail /\ i = batch[e].initial
  BY NumbersTyped
<1> PICK s \in Int, u \in Int : s = moved[e].sum /\ u = moved[e].raised
  BY NumbersTyped
<1>4. p.avail = a /\ p.initial = i
  BY <1>1 DEF FreshSlot, ReadsLegacy
<1>5. /\ DOMAIN batch' = DOMAIN batch /\ batch'[e] = row
      /\ \A b \in DOMAIN batch : b # e => batch'[b] = batch[b]
  BY <1>2, ReplacesBatch
<1>6. \A b : Pend(p, b) = 0
  BY <1>1, NothingPending
<1>7. Pend(q, e) = d - up /\ \A b : b # e => Pend(q, b) = 0
  BY <1>3 DEF Pend
<1>8. Off(e, batch'[e], moved'[e], q) = Off(e, batch[e], moved[e], p)
  <2>1. row.avail = a + d /\ row.initial = i + up
    BY <1>2, <1>4
  <2>2. Off(e, batch'[e], moved'[e], q) = (a + d) - ((i + up) - u + s) - (d - up)
    BY <1>1, <1>5, <1>7, <2>1 DEF Off
  <2>3. Off(e, batch[e], moved[e], p) = a - (i - u + s) - 0
    BY <1>6 DEF Off
  <2>4. (a + d) - ((i + up) - u + s) - (d - up) = a - (i - u + s) - 0
    OBVIOUS
  <2> QED
    BY ONLY <2>2, <2>3, <2>4, Zenon
<1>9. Small(q)
  BY <1>1, <1>3 DEF Small
<1>10. Explained(batch', moved', allocs', q, faults)
  <2>1. \A b \in DOMAIN batch : b # e => /\ batch'[b] = batch[b] /\ moved'[b] = moved[b]
                                         /\ Pend(q, b) = Pend(p, b)
    BY <1>1, <1>5, <1>6, <1>7
  <2>2. \A k \in DOMAIN allocs' : allocs'[k].qty <= LargestMove
    BY <1>1 DEF Explained
  <2> QED
    BY <1>5, <1>8, <1>9, <2>1, <2>2, OneExplained
<1> QED
  BY <1>3, <1>10 DEF Becomes

\* The movement of an entry or a correction is inserted.
LEMMA MoveExplained ==
    ASSUME TypeInv, NEW faults \in Nat, NEW r \in Requests, InsertMovement(r),
           Explained(batch, moved, allocs, req[r], faults)
    PROVE  req' = [req EXCEPT ![r] = Idle] /\ Explained(batch', moved', allocs', Idle, faults)
<1> PICK p : p = req[r]
  OBVIOUS
<1>1. /\ p.pc = "move" /\ p.op \in {"entry", "adjust"} /\ p.ent \in DOMAIN batch
      /\ UNCHANGED <<batch, allocs>> /\ Becomes(r, Idle)
  BY MoveIs
<1> PICK e \in DOMAIN batch : e = p.ent
  BY <1>1
<1>2. p \in Request /\ Holding(p, Len(batch), Len(allocs))
  BY RowsTyped
<1> PICK d \in Int : d = p.moving
  BY <1>2 DEF Request
<1> PICK up \in Nat : up = Raised(d)
  BY DEF Raised
<1> PICK a \in Int, i \in Int : a = batch[e].avail /\ i = batch[e].initial
  BY NumbersTyped
<1>s. moved[e] \in MovementSums
  BY RowsTyped
<1> PICK s \in Int, u \in Nat : s = moved[e].sum /\ u = moved[e].raised
  BY <1>s DEF MovementSums
<1> DEFINE sums == [sum |-> s + d, raised |-> u + up]
<1>3. sums \in MovementSums /\ sums.sum = s + d /\ sums.raised = u + up
  BY DEF MovementSums
<1>4. moved' = [moved EXCEPT ![e] = sums]
  BY MoveIs
<1> HIDE DEF sums
<1>5. moved'[e] = sums /\ \A b \in DOMAIN batch : b # e => moved'[b] = moved[b]
  BY <1>3, <1>4, ReplacesSums
<1>6. Pend(p, e) = d - up
  <2>1. CASE p.op = "adjust"
    BY <1>1, <2>1 DEF Pend
  <2>2. CASE p.op = "entry"
    <3>1. d \in Entries
      BY <1>2, <2>2 DEF Holding, HoldsProduct
    <3>2. d > 0
      BY <3>1, InputsTyped
    <3>3. up = d /\ d - d = 0
      BY <3>2 DEF Raised
    <3>4. Pend(p, e) = 0
      BY <1>1, <2>2, NothingPending
    <3> QED
      BY <3>3, <3>4
  <2> QED
    BY <1>1, <2>1, <2>2
<1>7. \A b : b # e => Pend(p, b) = 0
  BY DEF Pend
<1>8. Off(e, batch'[e], moved'[e], Idle) = Off(e, batch[e], moved[e], p)
  <2>1. Off(e, batch'[e], moved'[e], Idle) = a - (i - (u + up) + (s + d)) - 0
    BY <1>1, <1>3, <1>5, IdleSmall DEF Off
  <2>2. Off(e, batch[e], moved[e], p) = a - (i - u + s) - (d - up)
    BY <1>6 DEF Off
  <2>3. a - (i - (u + up) + (s + d)) - 0 = a - (i - u + s) - (d - up)
    OBVIOUS
  <2> QED
    BY ONLY <2>1, <2>2, <2>3, Zenon
<1>9. Explained(batch', moved', allocs', Idle, faults)
  <2>1. \A b \in DOMAIN batch : b # e => /\ batch'[b] = batch[b] /\ moved'[b] = moved[b]
                                         /\ Pend(Idle, b) = Pend(p, b)
    BY <1>1, <1>5, <1>7, IdleSmall
  <2>2. \A k \in DOMAIN allocs' : allocs'[k].qty <= LargestMove
    BY <1>1 DEF Explained
  <2> QED
    BY <1>1, <1>8, <2>1, <2>2, IdleSmall, OneExplained
<1> QED
  BY <1>1, <1>9 DEF Becomes

\* An order takes units.
LEMMA TakeExplained ==
    ASSUME TypeInv, NEW faults \in Nat, NEW r \in Requests, TakeBatch(r), FreshSlot(req[r], batch),
           Explained(batch, moved, allocs, req[r], faults)
    PROVE  \E q : req' = [req EXCEPT ![r] = q] /\ Explained(batch', moved', allocs', q, faults)
<1> PICK p : p = req[r]
  OBVIOUS
<1>t. PICK e \in DOMAIN batch, n \in Nat \ {0}, row \in BatchRow : \E q : Takes(r, e, n, row, q)
  BY TakeIs
<1>1. PICK q : Takes(r, e, n, row, q)
  BY <1>t
<1>2. p.pc = "take" /\ p.op = "consume" /\ UNCHANGED <<moved, allocs>>
  BY TakeIs
<1>3. /\ e \in BatchIds /\ p.plan[e] > 0 /\ n <= p.qty /\ batch' = [batch EXCEPT ![e] = row]
      /\ row.initial = batch[e].initial /\ row.avail = p.plan[e] - n
      /\ Becomes(r, q) /\ q.pc = "alloc" /\ q.op = "consume" /\ q.ent = e /\ q.moving = n
      /\ q.qty = p.qty - n
  BY <1>1 DEF Takes
<1> PICK a \in Int, i \in Int : a = batch[e].avail /\ i = batch[e].initial
  BY NumbersTyped
<1> PICK s \in Int, u \in Int : s = moved[e].sum /\ u = moved[e].raised
  BY NumbersTyped
<1>4. p.plan[e] = a
  BY <1>2, <1>3 DEF FreshSlot, ReadsPlan
<1>5. /\ DOMAIN batch' = DOMAIN batch /\ batch'[e] = row
      /\ \A b \in DOMAIN batch : b # e => batch'[b] = batch[b]
  BY <1>3, ReplacesBatch
<1>6. \A b : Pend(p, b) = 0
  BY <1>2, NothingPending
<1>7. Pend(q, e) = -n /\ \A b : b # e => Pend(q, b) = 0
  BY <1>3 DEF Pend
<1>8. Off(e, batch'[e], moved'[e], q) = Off(e, batch[e], moved[e], p)
  <2>1. Off(e, batch'[e], moved'[e], q) = (a - n) - (i - u + s) - (-n)
    BY <1>2, <1>3, <1>4, <1>5, <1>7 DEF Off
  <2>2. Off(e, batch[e], moved[e], p) = a - (i - u + s) - 0
    BY <1>6 DEF Off
  <2>3. (a - n) - (i - u + s) - (-n) = a - (i - u + s) - 0
    OBVIOUS
  <2> QED
    BY ONLY <2>1, <2>2, <2>3, Zenon
<1>9. Small(q)
  <2> PICK m \in Nat : m = LargestMove
    BY LargestMoveIs
  <2>1. p.qty <= m /\ Holding(p, Len(batch), Len(allocs))
    BY <1>2, RowsTyped DEF Explained, Small
  <2>2. p.qty \in Nat
    BY <1>2, <2>1 DEF Holding, HoldsPlan
  <2>3. n <= m /\ p.qty - n <= m
    BY <1>3, <2>1, <2>2
  <2> QED
    BY <1>3, <2>3 DEF Small
<1>10. Explained(batch', moved', allocs', q, faults)
  <2>1. \A b \in DOMAIN batch : b # e => /\ batch'[b] = batch[b] /\ moved'[b] = moved[b]
                                         /\ Pend(q, b) = Pend(p, b)
    BY <1>2, <1>5, <1>6, <1>7
  <2>2. \A k \in DOMAIN allocs' : allocs'[k].qty <= LargestMove
    BY <1>2 DEF Explained
  <2> QED
    BY <1>5, <1>8, <1>9, <2>1, <2>2, OneExplained
<1> QED
  BY <1>3, <1>10 DEF Becomes

\* An allocation is inserted with its movement.
LEMMA AllocExplained ==
    ASSUME TypeInv, NEW faults \in Nat, NEW r \in Requests, InsertAllocation(r),
           Explained(batch, moved, allocs, req[r], faults)
    PROVE  \E q : req' = [req EXCEPT ![r] = q] /\ Explained(batch', moved', allocs', q, faults)
<1> PICK p : p = req[r]
  OBVIOUS
<1>1. /\ p.pc = "alloc" /\ p.op = "consume" /\ p.ent \in DOMAIN batch /\ p.moving \in Nat \ {0}
      /\ UNCHANGED batch /\ p.moving <= LargestMove /\ p.qty <= LargestMove
  BY AllocIs DEF Explained, Small
<1> PICK e \in DOMAIN batch : e = p.ent
  BY <1>1
<1> PICK n \in Nat \ {0} : n = p.moving
  BY <1>1
<1>2. PICK q : /\ req' = [req EXCEPT ![r] = q] /\ Small(q) /\ \A b : Pend(q, b) = 0
  <2>1. CASE Becomes(r, Idle)
    BY <2>1, IdleSmall DEF Becomes
  <2>2. ASSUME NEW q, Becomes(r, q), q.pc = "take", q.op = "consume", q.qty = p.qty
        PROVE  req' = [req EXCEPT ![r] = q] /\ Small(q) /\ \A b : Pend(q, b) = 0
    BY <1>1, <2>2, NothingPending DEF Becomes, Small
  <2>3. \/ Becomes(r, Idle)
        \/ \E q : Becomes(r, q) /\ q.pc = "take" /\ q.op = "consume" /\ q.qty = p.qty
    BY AllocIs
  <2> QED
    BY ONLY <2>1, <2>2, <2>3
<1> PICK a \in Int, i \in Int : a = batch[e].avail /\ i = batch[e].initial
  BY NumbersTyped
<1>s. moved[e] \in MovementSums
  BY RowsTyped
<1> PICK s \in Int, u \in Nat : s = moved[e].sum /\ u = moved[e].raised
  BY <1>s DEF MovementSums
<1> DEFINE sums == [sum |-> s - n, raised |-> u]
<1>3. sums \in MovementSums /\ sums.sum = s - n /\ sums.raised = u
  BY DEF MovementSums
<1>4. moved' = [moved EXCEPT ![e] = sums]
  BY AllocIs
<1> HIDE DEF sums
<1>5. moved'[e] = sums /\ \A b \in DOMAIN batch : b # e => moved'[b] = moved[b]
  BY <1>3, <1>4, ReplacesSums
<1>6. Pend(p, e) = -n /\ \A b : b # e => Pend(p, b) = 0
  BY <1>1 DEF Pend
<1>7. Off(e, batch'[e], moved'[e], q) = Off(e, batch[e], moved[e], p)
  <2>1. Off(e, batch'[e], moved'[e], q) = a - (i - u + (s - n)) - 0
    BY <1>1, <1>2, <1>3, <1>5 DEF Off
  <2>2. Off(e, batch[e], moved[e], p) = a - (i - u + s) - (-n)
    BY <1>6 DEF Off
  <2>3. a - (i - u + (s - n)) - 0 = a - (i - u + s) - (-n)
    OBVIOUS
  <2> QED
    BY ONLY <2>1, <2>2, <2>3, Zenon
<1>8. \A k \in DOMAIN allocs' : allocs'[k].qty <= LargestMove
  <2> DEFINE x == [batch |-> e, qty |-> n, restored |-> FALSE]
  <2>1. allocs' = Append(allocs, x) /\ x.qty <= LargestMove
    BY <1>1, AllocIs
  <2>2. allocs \in Seq(AllocationRow)
    BY DEF TypeInv, TablesOK
  <2> HIDE DEF x
  <2>3. \A k \in DOMAIN allocs' : (k \in DOMAIN allocs /\ allocs'[k] = allocs[k]) \/ allocs'[k] = x
    BY <2>1, <2>2
  <2> QED
    BY <2>1, <2>3 DEF Explained
<1>9. Explained(batch', moved', allocs', q, faults)
  <2>1. \A b \in DOMAIN batch : b # e => /\ batch'[b] = batch[b] /\ moved'[b] = moved[b]
                                         /\ Pend(q, b) = Pend(p, b)
    BY <1>1, <1>2, <1>5, <1>6
  <2> QED
    BY <1>1, <1>2, <1>7, <1>8, <2>1, OneExplained
<1> QED
  BY <1>2, <1>9

\* An order gives units back.
LEMMA GiveExplained ==
    ASSUME TypeInv, NEW faults \in Nat, NEW r \in Requests, GiveBack(r), FreshSlot(req[r], batch),
           Explained(batch, moved, allocs, req[r], faults)
    PROVE  \E q : req' = [req EXCEPT ![r] = q] /\ Explained(batch', moved', allocs', q, faults)
<1> PICK p : p = req[r]
  OBVIOUS
<1>1. /\ p.pc = "give" /\ p.op = "restore" /\ p.ent \in DOMAIN batch /\ p.moving \in Nat \ {0}
      /\ UNCHANGED <<moved, allocs>> /\ p.moving <= LargestMove
  BY GiveIs DEF Explained, Small
<1> PICK e \in DOMAIN batch : e = p.ent
  BY <1>1
<1> PICK n \in Nat \ {0} : n = p.moving
  BY <1>1
<1>2. PICK row \in BatchRow : /\ batch' = [batch EXCEPT ![e] = row] /\ row.avail = p.avail
                              /\ row.initial = batch[e].initial
  BY GiveIs
<1>3. PICK q : /\ Becomes(r, q) /\ q.pc = "mark" /\ q.op = "restore" /\ q.ent = e /\ q.moving = n
  BY GiveIs
<1> PICK a \in Int, i \in Int : a = batch[e].avail /\ i = batch[e].initial
  BY NumbersTyped
<1> PICK s \in Int, u \in Int : s = moved[e].sum /\ u = moved[e].raised
  BY NumbersTyped
<1>4. p.avail = a + n
  BY <1>1 DEF FreshSlot, ReadsUnits
<1>5. /\ DOMAIN batch' = DOMAIN batch /\ batch'[e] = row
      /\ \A b \in DOMAIN batch : b # e => batch'[b] = batch[b]
  BY <1>2, ReplacesBatch
<1>6. \A b : Pend(p, b) = 0
  BY <1>1, NothingPending
<1>7. Pend(q, e) = n /\ \A b : b # e => Pend(q, b) = 0
  BY <1>3 DEF Pend
<1>8. Off(e, batch'[e], moved'[e], q) = Off(e, batch[e], moved[e], p)
  <2>1. Off(e, batch'[e], moved'[e], q) = (a + n) - (i - u + s) - n
    BY <1>1, <1>2, <1>4, <1>5, <1>7 DEF Off
  <2>2. Off(e, batch[e], moved[e], p) = a - (i - u + s) - 0
    BY <1>6 DEF Off
  <2>3. (a + n) - (i - u + s) - n = a - (i - u + s) - 0
    OBVIOUS
  <2> QED
    BY ONLY <2>1, <2>2, <2>3, Zenon
<1>9. Small(q)
  BY <1>1, <1>3 DEF Small
<1>10. Explained(batch', moved', allocs', q, faults)
  <2>1. \A b \in DOMAIN batch : b # e => /\ batch'[b] = batch[b] /\ moved'[b] = moved[b]
                                         /\ Pend(q, b) = Pend(p, b)
    BY <1>1, <1>5, <1>6, <1>7
  <2>2. \A k \in DOMAIN allocs' : allocs'[k].qty <= LargestMove
    BY <1>1 DEF Explained
  <2> QED
    BY <1>5, <1>8, <1>9, <2>1, <2>2, OneExplained
<1> QED
  BY <1>3, <1>10 DEF Becomes

\* An allocation is marked and its movement inserted.
LEMMA MarkExplained ==
    ASSUME TypeInv, NEW faults \in Nat, NEW r \in Requests, MarkRestored(r),
           Explained(batch, moved, allocs, req[r], faults)
    PROVE  req' = [req EXCEPT ![r] = Idle] /\ Explained(batch', moved', allocs', Idle, faults)
<1> PICK p : p = req[r]
  OBVIOUS
<1>1. /\ p.pc = "mark" /\ p.op = "restore" /\ p.ent \in DOMAIN batch /\ p.moving \in Nat \ {0}
      /\ UNCHANGED batch /\ Becomes(r, Idle) /\ DOMAIN allocs' = DOMAIN allocs
      /\ \A k \in DOMAIN allocs : allocs'[k].qty = allocs[k].qty
  BY MarkIs
<1> PICK e \in DOMAIN batch : e = p.ent
  BY <1>1
<1> PICK n \in Nat \ {0} : n = p.moving
  BY <1>1
<1> PICK a \in Int, i \in Int : a = batch[e].avail /\ i = batch[e].initial
  BY NumbersTyped
<1>s. moved[e] \in MovementSums
  BY RowsTyped
<1> PICK s \in Int, u \in Nat : s = moved[e].sum /\ u = moved[e].raised
  BY <1>s DEF MovementSums
<1> DEFINE sums == [sum |-> s + n, raised |-> u]
<1>2. sums \in MovementSums /\ sums.sum = s + n /\ sums.raised = u
  BY DEF MovementSums
<1>3. moved' = [moved EXCEPT ![e] = sums]
  BY MarkIs
<1> HIDE DEF sums
<1>4. moved'[e] = sums /\ \A b \in DOMAIN batch : b # e => moved'[b] = moved[b]
  BY <1>2, <1>3, ReplacesSums
<1>5. Pend(p, e) = n /\ \A b : b # e => Pend(p, b) = 0
  BY <1>1 DEF Pend
<1>6. Off(e, batch'[e], moved'[e], Idle) = Off(e, batch[e], moved[e], p)
  <2>1. Off(e, batch'[e], moved'[e], Idle) = a - (i - u + (s + n)) - 0
    BY <1>1, <1>2, <1>4, IdleSmall DEF Off
  <2>2. Off(e, batch[e], moved[e], p) = a - (i - u + s) - n
    BY <1>5 DEF Off
  <2>3. a - (i - u + (s + n)) - 0 = a - (i - u + s) - n
    OBVIOUS
  <2> QED
    BY ONLY <2>1, <2>2, <2>3, Zenon
<1>7. Explained(batch', moved', allocs', Idle, faults)
  <2>1. \A b \in DOMAIN batch : b # e => /\ batch'[b] = batch[b] /\ moved'[b] = moved[b]
                                         /\ Pend(Idle, b) = Pend(p, b)
    BY <1>1, <1>4, <1>5, IdleSmall
  <2>2. \A k \in DOMAIN allocs' : allocs'[k].qty <= LargestMove
    BY <1>1 DEF Explained
  <2> QED
    BY <1>1, <1>6, <2>1, <2>2, IdleSmall, OneExplained
<1> QED
  BY <1>1, <1>7 DEF Becomes

\* A purchase is cancelled: the movement of a lot is what it held.
LEMMA CommitExplained ==
    ASSUME TypeInv, NEW faults \in Nat, NEW r \in Requests, CommitCancel(r), FreshSlot(req[r], batch),
           Explained(batch, moved, allocs, req[r], faults)
    PROVE  req' = [req EXCEPT ![r] = Idle] /\ Explained(batch', moved', allocs', Idle, faults)
<1> PICK p : p = req[r]
  OBVIOUS
<1>1. /\ p.pc = "block" /\ p.op = "cancel" /\ Becomes(r, Idle)
  BY CommitIs
<1>2. \A b : Pend(p, b) = 0 /\ Pend(Idle, b) = 0
  BY <1>1, NothingPending, IdleSmall
<1>3. CASE Reading
  BY <1>1, <1>2, <1>3, IdleSmall, ExplainedStill DEF Reading, Becomes
<1>4. ASSUME batch' = [b \in DOMAIN batch |->
                         IF b \in BoughtWith(p.purchase) THEN Blocked(batch[b]) ELSE batch[b]],
             moved' = [b \in DOMAIN moved |-> [moved[b] EXCEPT !.sum = moved[b].sum - p.plan[b]]],
             UNCHANGED allocs
      PROVE  Explained(batch', moved', allocs', Idle, faults)
  <2>1. DOMAIN batch' = DOMAIN batch /\ DOMAIN moved = DOMAIN batch
    BY <1>4, RowsTyped
  <2>2. ASSUME NEW b \in DOMAIN batch
        PROVE  Off(b, batch'[b], moved'[b], Idle) = Off(b, batch[b], moved[b], p)
    <3> PICK a \in Int, i \in Int : a = batch[b].avail /\ i = batch[b].initial
      BY NumbersTyped
    <3>s. moved[b] \in MovementSums /\ batch[b] \in BatchRow
      BY RowsTyped
    <3> PICK s \in Int, u \in Nat : s = moved[b].sum /\ u = moved[b].raised
      BY <3>s DEF MovementSums
    <3> PICK n \in Int : n = IF batch[b].purchase = p.purchase THEN a ELSE 0
      OBVIOUS
    <3>1. p.plan[b] = n
      BY <1>1 DEF FreshSlot, ReadsLots
    <3>2. moved'[b].sum = s - n /\ moved'[b].raised = u
      BY <1>4, <2>1, <3>1, <3>s DEF MovementSums
    <3>3. batch'[b].avail = a - n /\ batch'[b].initial = i
      <4>1. CASE batch[b].purchase = p.purchase
        <5>1. batch'[b] = Blocked(batch[b]) /\ a - n = 0
          BY <1>4, <4>1 DEF BoughtWith
        <5> QED
          BY <3>s, <5>1 DEF Blocked, BatchRow
      <4>2. CASE batch[b].purchase # p.purchase
        <5>1. batch'[b] = batch[b] /\ a - n = a
          BY <1>4, <4>2 DEF BoughtWith
        <5> QED
          BY <5>1
      <4> QED
        BY <4>1, <4>2
    <3>4. Off(b, batch'[b], moved'[b], Idle) = (a - n) - (i - u + (s - n)) - 0
      BY <1>2, <3>2, <3>3 DEF Off
    <3>5. Off(b, batch[b], moved[b], p) = a - (i - u + s) - 0
      BY <1>2 DEF Off
    <3>6. (a - n) - (i - u + (s - n)) - 0 = a - (i - u + s) - 0
      OBVIOUS
    <3> QED
      BY ONLY <3>4, <3>5, <3>6, Zenon
  <2> QED
    BY <1>4, <2>1, <2>2, IdleSmall, StaysExplained DEF Explained
<1> QED
  BY <1>1, <1>3, <1>4, CommitIs DEF Becomes

\* A request that goes on from the LEGACY batch is as small as it was.
LEMMA PastLegacySmall ==
    ASSUME NEW q, NEW p, Small(p), NEW b, NEW avail, NEW initial, PastLegacy(q, p, b, avail, initial)
    PROVE  Small(q) /\ \A c : Pend(q, c) = 0
<1>1. CASE q = Idle
  BY <1>1, IdleSmall
<1>2. CASE q # Idle
  <2>1. q.pc \notin {"alloc", "mark", "move"} /\ Small(q)
    BY <1>2 DEF PastLegacy, Small
  <2> QED
    BY <2>1, NothingPending
<1> QED
  BY <1>1, <1>2

\* The statements.
LEMMA RunExplained ==
    ASSUME TypeInv, RoomInv, NEW faults \in Nat, NEW r \in Requests, Run(r), FreshSlot(req[r], batch),
           Explained(batch, moved, allocs, req[r], faults)
    PROVE  \E q : req' = [req EXCEPT ![r] = q] /\ Explained(batch', moved', allocs', q, faults)
<1> PICK p : p = req[r]
  OBVIOUS
<1>p. Small(p) /\ Holding(p, Len(batch), Len(allocs))
  BY RowsTyped DEF Explained
<1>s. ASSUME NEW q, Becomes(r, q), UNCHANGED <<batch, moved, allocs>>,
             p.pc \notin {"alloc", "mark", "move"}, Small(q), \A b : Pend(q, b) = 0
      PROVE  \E k : req' = [req EXCEPT ![r] = k] /\ Explained(batch', moved', allocs', k, faults)
  <2>1. \A b : Pend(p, b) = 0
    BY <1>s, NothingPending
  <2>2. Explained(batch', moved', allocs', q, faults)
    BY <1>s, <2>1, ExplainedStill
  <2> QED
    BY <1>s, <2>2 DEF Becomes
<1>i. ASSUME Becomes(r, Idle), UNCHANGED <<batch, moved, allocs>>, p.pc \notin {"alloc", "mark", "move"}
      PROVE  \E k : req' = [req EXCEPT ![r] = k] /\ Explained(batch', moved', allocs', k, faults)
  BY <1>i, <1>s, IdleSmall
<1>v. ASSUME NEW q, Becomes(r, q), UNCHANGED <<batch, moved, allocs>>,
             p.pc \notin {"alloc", "mark", "move"}, q.pc \notin {"alloc", "mark", "move"},
             q.op # "restore", q.op = "consume" => p.op = "consume" /\ q.qty = p.qty
      PROVE  \E k : req' = [req EXCEPT ![r] = k] /\ Explained(batch', moved', allocs', k, faults)
  <2>1. Small(q)
    BY <1>p, <1>v DEF Small
  <2> QED
    BY <1>s, <1>v, <2>1, NothingPending
<1>1. CASE SelectPurchase(r)
  <2>1. p.pc = "select" /\ UNCHANGED <<batch, moved, allocs>>
    BY <1>1, SelectIs DEF Reading
  <2>2. p.op \in {"update", "pay"}
    BY <1>p, <2>1 DEF Holding, OpsAt
  <2>3. \/ Becomes(r, Idle)
        \/ \E q : Becomes(r, q) /\ q.pc = "write" /\ q.op = p.op
    BY <1>1, SelectIs DEF SamePurchase
  <2> QED
    BY <1>i, <1>v, <2>1, <2>2, <2>3
<1>2. CASE WritePurchase(r)
  <2>1. p.pc = "write" /\ UNCHANGED <<batch, moved, allocs>>
    BY <1>2, WriteIs
  <2>2. \/ Becomes(r, Idle)
        \/ \E q : Becomes(r, q) /\ q.pc = "receipt" /\ q.op = "pay"
    BY <1>2, WriteIs DEF SamePurchase
  <2> QED
    BY <1>i, <1>v, <2>1, <2>2
<1>3. CASE InsertPayment(r)
  BY <1>3, <1>i, ReceiptIs
<1>4. CASE LoadBatches(r)
  <2>1. p.pc = "load" /\ UNCHANGED <<batch, moved, allocs>>
    BY <1>4, LoadIs DEF Reading
  <2>2. p.op = "cancel"
    BY <1>p, <2>1 DEF Holding, OpsAt
  <2>3. \E q : Becomes(r, q) /\ q.pc = "block" /\ q.op = p.op
    BY <1>4, LoadIs DEF SamePurchase
  <2> QED
    BY <1>v, <2>1, <2>2, <2>3
<1>5. CASE CommitCancel(r)
  BY <1>5, CommitExplained
<1>6. CASE FindLegacy(r)
  <2>1. /\ p.pc = "find" /\ UNCHANGED <<batch, moved, allocs>>
        /\ p.op \in {"adjust", "consume", "backfill"}
    BY <1>6, FindIs DEF Reading
  <2>2. \E q : /\ Becomes(r, q)
               /\ \/ q = Idle
                  \/ q.pc = "insert" /\ q.op = p.op /\ q.qty = p.qty
                  \/ \E b, avail, initial : PastLegacy(q, p, b, avail, initial)
    BY <1>6, FindIs
  <2>3. PICK q : /\ Becomes(r, q)
                 /\ \/ q = Idle
                    \/ q.pc = "insert" /\ q.op = p.op /\ q.qty = p.qty
                    \/ \E b, avail, initial : PastLegacy(q, p, b, avail, initial)
    BY <2>2
  <2>4. CASE q = Idle
    BY <1>i, <2>1, <2>3, <2>4
  <2>5. CASE q.pc = "insert" /\ q.op = p.op /\ q.qty = p.qty
    BY <1>v, <2>1, <2>3, <2>5
  <2>6. ASSUME NEW b, NEW avail, NEW initial, PastLegacy(q, p, b, avail, initial)
        PROVE  \E k : req' = [req EXCEPT ![r] = k] /\ Explained(batch', moved', allocs', k, faults)
    <3>1. Small(q) /\ \A c : Pend(q, c) = 0
      BY <1>p, <2>6, PastLegacySmall
    <3> QED
      BY <1>s, <2>1, <2>3, <3>1
  <2> QED
    BY <2>3, <2>4, <2>5, <2>6
<1>7. CASE InsertLegacy(r)
  <2> PICK n \in Nat : n = p.moving
    BY <1>7, InsertIs
  <2>1. PICK q : Becomes(r, q) /\ PastLegacy(q, p, Len(batch) + 1, n, n)
    BY <1>7, InsertIs
  <2>2. Small(q) /\ \A c : Pend(q, c) = 0
    BY <1>p, <2>1, PastLegacySmall
  <2> PICK e : e = Len(batch) + 1
    OBVIOUS
  <2>3. /\ MoreLegacy(p.product) /\ p.pc = "insert" /\ UNCHANGED allocs
        /\ batch'[e] = NewBatch(p.product, "none", TRUE, FALSE, n)
        /\ moved'[e] = [sum |-> 0, raised |-> 0]
        /\ \A b \in DOMAIN batch : moved'[b] = moved[b]
    BY <1>7, LegacyAdded
  <2>4. DOMAIN batch' = DOMAIN batch \cup {e} /\ \A b \in DOMAIN batch : batch'[b] = batch[b]
    BY <2>3 DEF MoreLegacy
  <2>5. batch'[e].avail = n /\ batch'[e].initial = n /\ Pend(q, e) = 0
    BY <2>2, <2>3 DEF NewBatch
  <2>6. Off(e, batch'[e], moved'[e], q) = 0
    <3>1. moved'[e] = [sum |-> 0, raised |-> 0]
      BY <2>3
    <3> QED
      BY ONLY n \in Nat, <2>5, <3>1, NewIsExplained
  <2>7. \A b : Pend(p, b) = 0
    BY <2>3, NothingPending
  <2>8. Explained(batch', moved', allocs', q, faults)
    BY <2>2, <2>3, <2>4, <2>6, <2>7, MoreExplained
  <2> QED
    BY <2>1, <2>8 DEF Becomes
<1>8. CASE AdjustBatch(r)
  BY <1>8, AdjustExplained
<1>9. CASE InsertMovement(r)
  BY <1>9, MoveExplained
<1>10. CASE ReadCandidates(r)
  <2>1. /\ p.pc = "plan" /\ p.op = "consume" /\ UNCHANGED <<batch, moved, allocs>>
        /\ \/ Becomes(r, Idle)
           \/ \E q : Becomes(r, q) /\ q.pc = "take" /\ q.op = "consume" /\ q.qty = p.qty
    BY <1>10, ReadIs, RoomFits DEF Reading
  <2> QED
    BY <1>i, <1>v, <2>1
<1>11. CASE TakeBatch(r)
  BY <1>11, TakeExplained
<1>12. CASE InsertAllocation(r)
  BY <1>12, AllocExplained
<1>13. CASE GiveBack(r)
  BY <1>13, GiveExplained
<1>14. CASE MarkRestored(r)
  BY <1>14, MarkExplained
<1> QED
  BY <1>1, <1>2, <1>3, <1>4, <1>5, <1>6, <1>7, <1>8, <1>9, <1>10, <1>11, <1>12, <1>13, <1>14 DEF Run

\* A request that dies leaves what it has moved without a movement.
LEMMA DieExplained ==
    ASSUME TypeInv, NEW r \in Requests, Die(r), Explained(batch, moved, allocs, req[r], used.faults)
    PROVE  /\ req' = [req EXCEPT ![r] = Idle]
           /\ Explained(batch', moved', allocs', Idle, used'.faults)
<1> PICK p : p = req[r]
  OBVIOUS
<1> PICK f \in Nat : f = used.faults
  BY RowsTyped
<1>1. /\ req' = [req EXCEPT ![r] = Idle] /\ UNCHANGED <<batch, moved, allocs>>
      /\ used'.faults = f + 1
  BY DEF Die, Throw, Goto, TypeInv, UsedOK
<1>2. p \in Request /\ Holding(p, Len(batch), Len(allocs)) /\ Small(p)
  BY RowsTyped DEF Explained
<1>3. ASSUME NEW b \in DOMAIN batch
      PROVE  Near(Off(b, batch[b], moved[b], Idle), f + 1)
  <2> PICK a \in Int, i \in Int : a = batch[b].avail /\ i = batch[b].initial
    BY NumbersTyped
  <2> PICK s \in Int, u \in Int : s = moved[b].sum /\ u = moved[b].raised
    BY NumbersTyped
  <2> PICK d \in Int : d = Pend(p, b) /\ d <= LargestMove /\ -d <= LargestMove
    BY <1>2, PendSmall
  <2> PICK n \in Int : n = a - (i - u + s) - d
    OBVIOUS
  <2>1. Off(b, batch[b], moved[b], p) = n
    BY DEF Off
  <2>2. Near(n, f)
    BY <2>1 DEF Explained
  <2>3. Near(n + d, f + 1)
    BY <2>2, NearMore
  <2>4. Off(b, batch[b], moved[b], Idle) = a - (i - u + s) - 0
    BY IdleSmall DEF Off
  <2>5. a - (i - u + s) - 0 = n + d
    OBVIOUS
  <2> QED
    BY ONLY <2>3, <2>4, <2>5, Zenon
<1>4. \A k \in DOMAIN allocs : allocs[k].qty <= LargestMove
  BY DEF Explained
<1>5. Explained(batch, moved, allocs, Idle, f + 1)
  BY <1>3, <1>4, IdleSmall DEF Explained
<1> QED
  BY <1>1, <1>5

\* A day that passes moves no units.
LEMMA ExpireExplained ==
    ASSUME TypeInv, NEW b \in DOMAIN batch, Expire(b), NEW q, NEW faults,
           Explained(batch, moved, allocs, q, faults)
    PROVE  Explained(batch', moved', allocs', q, faults)
<1>1. UNCHANGED <<moved, allocs>>
  BY DEF Expire
<1>2. /\ DOMAIN batch' = DOMAIN batch
      /\ \A c \in DOMAIN batch : batch'[c].avail = batch[c].avail /\ batch'[c].initial = batch[c].initial
  BY ExpireIs
<1>3. \A c \in DOMAIN batch : Off(c, batch'[c], moved'[c], q) = Off(c, batch[c], moved[c], q)
  BY <1>1, <1>2 DEF Off
<1> QED
  BY <1>1, <1>2, <1>3 DEF Explained

\* Every step.
LEMMA NextExplained ==
    ASSUME TypeInv, RoomInv, AloneInv, FreshInv, ExplainedInv, [Next]_vars
    PROVE  ExplainedInv'
<1>1. CASE UNCHANGED vars
  BY <1>1 DEF vars, ExplainedInv, Serial
<1>2. ASSUME NEW b \in DOMAIN batch, Expire(b)
      PROVE  ExplainedInv'
  <2>1. UNCHANGED <<req, used>>
    BY <1>2 DEF Expire
  <2> QED
    BY <1>2, <2>1, ExpireExplained DEF ExplainedInv, Serial
<1>3. ASSUME NEW r \in Requests, Begin(r) \/ (Running(r) /\ Run(r)) \/ Die(r), Serial'
      PROVE  Explained(batch', moved', allocs', OnlyOf(req'), used'.faults)
  <2>1. Serial /\ \A s \in Requests : s # r => req[s] = Idle /\ req'[s] = Idle
    BY <1>3, OnlyOne
  <2>2. OnlyOf(req) = req[r] /\ OnlyOf(req') = req'[r]
    BY <2>1, OnlyIs
  <2>3. Explained(batch, moved, allocs, req[r], used.faults) /\ FreshSlot(req[r], batch)
    BY <2>1, <2>2 DEF ExplainedInv, FreshInv
  <2>4. used.faults \in Nat
    BY RowsTyped
  <2>5. \E q : req' = [req EXCEPT ![r] = q] /\ Explained(batch', moved', allocs', q, used'.faults)
    <3>1. CASE Begin(r)
      <4>1. req[r] = Idle /\ used'.faults = used.faults
        BY <3>1, BeginIs
      <4> QED
        BY <2>3, <2>4, <3>1, <4>1, BeginExplained
    <3>2. CASE Run(r)
      <4>1. UNCHANGED used
        BY <3>2 DEF Run, SelectPurchase, WritePurchase, InsertPayment, LoadBatches, CommitCancel,
                    FindLegacy, InsertLegacy, AdjustBatch, InsertMovement, ReadCandidates, TakeBatch,
                    InsertAllocation, GiveBack, MarkRestored
      <4> QED
        BY <2>3, <2>4, <3>2, <4>1, RunExplained
    <3>3. CASE Die(r)
      BY <2>3, <3>3, DieExplained
    <3> QED
      BY <1>3, <3>1, <3>2, <3>3
  <2>6. Explained(batch', moved', allocs', req'[r], used'.faults)
    BY <2>5 DEF TypeInv, RequestsHold
  <2> QED
    BY <2>2, <2>6
<1> QED
  BY <1>1, <1>2, <1>3 DEF Next, ExplainedInv

\* When requests do not overlap, the movements of a batch explain its units, but for at most
\* one movement for each request that died midway.
THEOREM MovementsHold == Spec => []MovementsExplainBatches
<1>1. Init => AloneInv /\ LegacyInv /\ LotsInv /\ FreshInv
  BY IdleTyped, IdleFresh DEF Init, AloneInv, LegacyInv, Running, LotsInv, GoodSlot, FreshInv
<1>2. Init => ExplainedInv
  <2> SUFFICES ASSUME Init
               PROVE  Explained(batch, moved, allocs, OnlyOf(req), used.faults)
    BY DEF ExplainedInv
  <2>1. OnlyOf(req) = Idle
    BY OnlyWhenQuiet DEF Init
  <2>2. DOMAIN batch = {} /\ DOMAIN allocs = {}
    BY DEF Init
  <2> QED
    BY <2>1, <2>2, IdleSmall DEF Explained
<1>3. TypeInv /\ ExplainedInv => MovementsExplainBatches
  <2> SUFFICES ASSUME TypeInv, ExplainedInv, Serial, Quiet, NEW b \in DOMAIN batch
               PROVE  /\ Unexplained(b) <= used.faults * LargestMove
                      /\ -Unexplained(b) <= used.faults * LargestMove
    BY DEF MovementsExplainBatches
  <2>1. OnlyOf(req) = Idle
    BY OnlyWhenQuiet DEF Quiet, Running
  <2>2. Near(Off(b, batch[b], moved[b], Idle), used.faults)
    BY <2>1 DEF ExplainedInv, Explained
  <2> PICK a \in Int, i \in Int : a = batch[b].avail /\ i = batch[b].initial
    BY NumbersTyped
  <2> PICK s \in Int, u \in Int : s = moved[b].sum /\ u = moved[b].raised
    BY NumbersTyped
  <2>3. Off(b, batch[b], moved[b], Idle) = a - (i - u + s) - 0
    BY IdleSmall DEF Off
  <2>4. Unexplained(b) = a - (i - u + s)
    BY DEF Unexplained
  <2>5. a - (i - u + s) = a - (i - u + s) - 0
    OBVIOUS
  <2>6. Near(Unexplained(b), used.faults)
    BY ONLY <2>2, <2>3, <2>4, <2>5, Zenon
  <2> QED
    BY <2>6 DEF Near
<1>4. Init => TypeInv /\ RoomInv
  BY InitTypes
<1>5. /\ TypeInv /\ RoomInv /\ AloneInv /\ LegacyInv /\ LotsInv /\ FreshInv /\ ExplainedInv
      /\ [Next]_vars
      => (TypeInv /\ RoomInv /\ AloneInv /\ LegacyInv /\ LotsInv /\ FreshInv /\ ExplainedInv)'
  BY NextLots, NextLegacy, NextFresh, NextExplained
<1> QED
  BY <1>1, <1>2, <1>3, <1>4, <1>5, PTL DEF Spec

-----------------------------------------------------------------------------
(* When requests neither overlap nor die, a product is short by no more than cancellations *)
(* emptied: consumeStock takes what is there, and an adjustment takes from the LEGACY      *)
(* batch no more than all batches of the product hold.                                     *)

\* The units a batch was created with that no movement tells of: those of the movements that
\* no batch had, if it is a LEGACY batch, and none otherwise.
Owed(q, b) == IF q.ent = b /\ q.pc = "move" THEN Raised(q.moving) ELSE 0
Origin(b, lot, sums, q) == lot.initial - sums.raised - Owed(q, b)
Stocked(b, lot, sums, q) ==
    /\ lot.status = "BLOCKED" => lot.purchase # "none"
    /\ lot.legacy => Origin(b, lot, sums, q) >= Moved[lot.product]
    /\ ~lot.legacy => Origin(b, lot, sums, q) = 0
Origins(lots, sums, q) == \A b \in DOMAIN lots : Stocked(b, lots[b], sums[b], q)
Foreseen(q) == q.pc = "insert" => q.moving >= Moved[q.product]
OriginInv == Clean => Origins(batch, moved, OnlyOf(req)) /\ Foreseen(OnlyOf(req))

\* The units of a product in lots, with those that cancellations took, and its movements.
InStock(row, p) == IF row.product = p THEN row.avail ELSE 0
Lost(row, p) == IF row.product = p /\ row.status = "BLOCKED" THEN row.initial ELSE 0
Worth(row, p) == InStock(row, p) + Lost(row, p)
Tally(row, sums, p) == IF row.product = p THEN sums.sum ELSE 0
StockOf(lots, p) == SumOf([b \in DOMAIN lots |-> InStock(lots[b], p)], DOMAIN lots)
WorthOf(lots, p) == SumOf([b \in DOMAIN lots |-> Worth(lots[b], p)], DOMAIN lots)
TallyOf(lots, sums, p) ==
    Moved[p] + SumOf([b \in DOMAIN lots |-> Tally(lots[b], sums[b], p)], DOMAIN lots)
NoLegacy(lots, p) == \A b \in DOMAIN lots : lots[b].product = p => ~lots[b].legacy

\* What a batch counts for is a whole number.
LEMMA WorthTyped ==
    ASSUME NEW row \in BatchRow, NEW sums \in MovementSums, NEW p
    PROVE  InStock(row, p) \in Int /\ Lost(row, p) \in Int /\ Worth(row, p) \in Int /\ Tally(row, sums, p) \in Int
  BY DEF InStock, Lost, Worth, Tally, BatchRow, MovementSums

\* The tables have finitely many rows.
LEMMA RowsFinite ==
    ASSUME NEW T, NEW rows \in Seq(T)
    PROVE  IsFiniteSet(DOMAIN rows) /\ \A b \in DOMAIN rows : rows[b] \in T
<1>1. DOMAIN rows = 1..Len(rows) /\ Len(rows) \in Int /\ 1 \in Int
  OBVIOUS
<1>2. IsFiniteSet(DOMAIN rows)
  BY ONLY <1>1, FS_Interval
<1> QED
  BY <1>2

\* The sums of the model.
LEMMA StockSums ==
    ASSUME TypeInv, NEW p \in Products
    PROVE  /\ StockOf(batch, p) = Units(BatchesOf(p)) /\ StockOf(batch, p) \in Int
           /\ TallyOf(batch, moved, p) = Ledger(p) /\ TallyOf(batch, moved, p) \in Int
           /\ WorthOf(batch, p) = Units(BatchesOf(p)) + Cancelled(p) /\ WorthOf(batch, p) \in Int
           /\ Cancelled(p) \in Int
<1> DEFINE S == DOMAIN batch
           T == BatchesOf(p)
           B == {b \in BatchesOf(p) : batch[b].status = "BLOCKED"}
           stock == [b \in S |-> InStock(batch[b], p)]
           lost == [b \in S |-> Lost(batch[b], p)]
           worth == [b \in S |-> Worth(batch[b], p)]
           tally == [b \in S |-> Tally(batch[b], moved[b], p)]
           avail == [b \in T |-> batch[b].avail]
           initial == [b \in B |-> batch[b].initial]
           sum == [b \in T |-> moved[b].sum]
<1>1. IsFiniteSet(S) /\ T \in SUBSET S /\ B \in SUBSET S /\ IsFiniteSet(T) /\ IsFiniteSet(B)
  <2>1. IsFiniteSet(S)
    BY StockTyped
  <2>2. T \in SUBSET S /\ B \in SUBSET S
    BY DEF BatchesOf
  <2> QED
    BY <2>1, <2>2, FS_Subset
<1>2. \A b \in S : b \in T <=> batch[b].product = p
  BY DEF BatchesOf
<1>3. \A b \in S : b \in B <=> batch[b].product = p /\ batch[b].status = "BLOCKED"
  BY DEF BatchesOf
<1>4. /\ \A b \in T : avail[b] \in Int /\ sum[b] \in Int
      /\ \A b \in B : initial[b] \in Int
  <2>1. \A b \in S : batch[b].avail \in Int /\ batch[b].initial \in Int /\ moved[b].sum \in Int
    BY NumbersTyped
  <2> QED
    BY <1>1, <2>1
<1>5. /\ \A b \in S : stock[b] = IF b \in T THEN avail[b] ELSE 0
      /\ \A b \in S : tally[b] = IF b \in T THEN sum[b] ELSE 0
  BY <1>2 DEF InStock, Tally
<1>6. \A b \in S : lost[b] = IF b \in B THEN initial[b] ELSE 0
  BY <1>3 DEF Lost
<1>7. \A b \in S : stock[b] \in Int /\ lost[b] \in Int /\ worth[b] = stock[b] + lost[b]
  <2>1. \A b \in S : batch[b] \in BatchRow /\ moved[b] \in MovementSums
    BY RowsTyped
  <2> QED
    BY <2>1, WorthTyped DEF Worth
<1>8. Units(T) = SumOf(avail, T)
  <2>1. \A b \in T : avail[b] = batch[b]["avail"]
    OBVIOUS
  <2> HIDE DEF avail, T
  <2>2. SumOfColumn(batch, "avail", T) = SumOf(avail, T)
    BY <1>1, <2>1, ColumnIsSum
  <2> QED
    BY <2>2, SumsAreColumns
<1>9. Ledger(p) = Moved[p] + SumOf(sum, T)
  <2>1. \A b \in T : sum[b] = moved[b]["sum"]
    OBVIOUS
  <2>2. Ledger(p) = Moved[p] + SumOfColumn(moved, "sum", T)
    BY SumsAreColumns DEF Ledger
  <2> HIDE DEF sum, T
  <2>3. SumOfColumn(moved, "sum", T) = SumOf(sum, T)
    BY <1>1, <2>1, ColumnIsSum
  <2> QED
    BY <2>2, <2>3
<1>10. Cancelled(p) = SumOf(initial, B)
  <2>1. \A b \in B : initial[b] = batch[b]["initial"]
    OBVIOUS
  <2>2. Cancelled(p) = MapThenSumSet(LAMBDA b : batch[b].initial, B)
    BY DEF Cancelled
  <2>3. MapThenSumSet(LAMBDA b : batch[b].initial, B) = SumOfColumn(batch, "initial", B)
    BY DEF SumOfColumn, MapThenSumSet, MapThenFoldSet
  <2>4. Cancelled(p) = SumOfColumn(batch, "initial", B)
    BY <2>2, <2>3
  <2> HIDE DEF initial, B
  <2>5. SumOfColumn(batch, "initial", B) = SumOf(initial, B)
    BY <1>1, <2>1, ColumnIsSum
  <2> QED
    BY <2>4, <2>5
<1>11. /\ StockOf(batch, p) = SumOf(stock, S) /\ WorthOf(batch, p) = SumOf(worth, S)
       /\ TallyOf(batch, moved, p) = Moved[p] + SumOf(tally, S)
  BY DEF StockOf, WorthOf, TallyOf
<1>m. Moved[p] \in Int
  BY StockroomAssumption
<1> HIDE DEF S, T, B, stock, lost, worth, tally, avail, initial, sum
<1>12. SumOf(stock, S) = SumOf(avail, T)
  BY <1>1, <1>4, <1>5, SumWhere
<1>13. SumOf(tally, S) = SumOf(sum, T)
  BY <1>1, <1>4, <1>5, SumWhere
<1>14. SumOf(lost, S) = SumOf(initial, B)
  BY <1>1, <1>4, <1>6, SumWhere
<1>15. SumOf(worth, S) = SumOf(stock, S) + SumOf(lost, S)
  BY <1>1, <1>7, SumPlus
<1>16. SumOf(stock, S) \in Int /\ SumOf(lost, S) \in Int
  BY <1>1, <1>7, SumType
<1>17. SumOf(sum, T) \in Int
  BY <1>1, <1>4, SumType
<1>18. StockOf(batch, p) = Units(T) /\ StockOf(batch, p) \in Int
  BY <1>8, <1>11, <1>12, <1>16
<1>19. TallyOf(batch, moved, p) = Ledger(p) /\ TallyOf(batch, moved, p) \in Int
  BY <1>9, <1>11, <1>13, <1>17, <1>m
<1>20. WorthOf(batch, p) = Units(T) + Cancelled(p) /\ WorthOf(batch, p) \in Int
  BY <1>8, <1>10, <1>11, <1>12, <1>14, <1>15, <1>16
<1>21. Cancelled(p) \in Int
  BY <1>10, <1>14, <1>16
<1> QED
  BY <1>18, <1>19, <1>20, <1>21 DEF T

\* What a batch holds, against its movements, when no request is about to record one.
LEMMA HoldsItsMovements ==
    ASSUME TypeInv, NEW q, Explained(batch, moved, allocs, q, 0), Origins(batch, moved, q),
           q.pc \notin {"alloc", "mark", "move"}, NEW b \in DOMAIN batch
    PROVE  /\ batch[b].legacy => batch[b].avail >= moved[b].sum + Moved[batch[b].product]
           /\ ~batch[b].legacy => batch[b].avail = moved[b].sum
<1> PICK a \in Int, i \in Int : a = batch[b].avail /\ i = batch[b].initial
  BY NumbersTyped
<1> PICK s \in Int, u \in Int : s = moved[b].sum /\ u = moved[b].raised
  BY NumbersTyped
<1> PICK m \in Int : m = Moved[batch[b].product]
  BY RowsTyped, StockroomAssumption DEF BatchRow
<1>1. Pend(q, b) = 0 /\ Owed(q, b) = 0
  BY NothingPending DEF Owed
<1>2. a - (i - u + s) - 0 = 0
  <2> PICK n \in Int : n = a - (i - u + s) - 0
    OBVIOUS
  <2>1. Off(b, batch[b], moved[b], q) = n
    BY <1>1 DEF Off
  <2>2. Near(n, 0)
    BY <2>1 DEF Explained
  <2> PICK l \in Nat : l = LargestMove
    BY LargestMoveIs
  <2>3. n <= 0 * l /\ -n <= 0 * l
    BY <2>2 DEF Near
  <2>4. 0 * l = 0
    OBVIOUS
  <2> QED
    BY <2>3, <2>4
<1>3. /\ batch[b].legacy => i - u - 0 >= m
      /\ ~batch[b].legacy => i - u - 0 = 0
  BY <1>1 DEF Origins, Stocked, Origin
<1> QED
  BY <1>2, <1>3

\* Before a product has a LEGACY batch, its movements are at least those no batch had.
LEMMA LedgerAlone ==
    ASSUME TypeInv, LotsInv, NEW q, Explained(batch, moved, allocs, q, 0), Origins(batch, moved, q),
           q.pc \notin {"alloc", "mark", "move"}, NEW p \in Products, NoLegacy(batch, p)
    PROVE  TallyOf(batch, moved, p) >= Moved[p]
<1> DEFINE S == DOMAIN batch
           tally == [b \in S |-> Tally(batch[b], moved[b], p)]
<1>1. \A b \in S : tally[b] \in Nat
  <2> SUFFICES ASSUME NEW b \in S
               PROVE  Tally(batch[b], moved[b], p) \in Nat
    OBVIOUS
  <2>1. CASE batch[b].product = p
    <3>1. ~batch[b].legacy /\ batch[b].avail = moved[b].sum
      BY <2>1, HoldsItsMovements DEF NoLegacy
    <3>2. batch[b].avail >= 0 /\ batch[b].avail \in Int
      BY <3>1, NumbersTyped DEF LotsInv, GoodRow
    <3> QED
      BY <2>1, <3>1, <3>2 DEF Tally
  <2>2. CASE batch[b].product # p
    BY <2>2 DEF Tally
  <2> QED
    BY <2>1, <2>2
<1>2. IsFiniteSet(S)
  BY StockTyped
<1>3. TallyOf(batch, moved, p) = Moved[p] + SumOf(tally, S)
  BY DEF TallyOf
<1> HIDE DEF tally, S
<1>4. SumOf(tally, S) \in Nat
  BY <1>1, <1>2, SumOfNats
<1>5. Moved[p] \in Nat
  BY StockroomAssumption
<1> QED
  BY <1>3, <1>4, <1>5

\* Once it has one, its batches hold what its movements add up to, or more.
LEMMA LedgerHeld ==
    ASSUME TypeInv, LegacyInv, Serial, NEW q, Explained(batch, moved, allocs, q, 0),
           Origins(batch, moved, q), q.pc \notin {"alloc", "mark", "move"},
           NEW p \in Products, ~NoLegacy(batch, p)
    PROVE  StockOf(batch, p) >= TallyOf(batch, moved, p)
<1> PICK a \in DOMAIN batch : batch[a].product = p /\ batch[a].legacy
  BY DEF NoLegacy
<1> PICK m \in Nat : m = Moved[p]
  BY StockroomAssumption
<1> DEFINE S == DOMAIN batch
           stock == [b \in S |-> InStock(batch[b], p)]
           tally == [b \in S |-> Tally(batch[b], moved[b], p)]
           more == [b \in S |-> IF b = a THEN Tally(batch[b], moved[b], p) + m
                                ELSE Tally(batch[b], moved[b], p)]
<1>1. \A b \in S : tally[b] \in Int /\ stock[b] \in Int
  BY RowsTyped, WorthTyped
<1>2. \A b \in S : more[b] = IF b = a THEN tally[b] + m ELSE tally[b]
  OBVIOUS
<1>3. \A b \in S : more[b] \in Int /\ more[b] <= stock[b]
  <2> SUFFICES ASSUME NEW b \in S
               PROVE  more[b] \in Int /\ more[b] <= stock[b]
    OBVIOUS
  <2> PICK v \in Int, s \in Int : v = batch[b].avail /\ s = moved[b].sum
    BY NumbersTyped
  <2>1. CASE batch[b].product # p
    <3>1. b # a /\ stock[b] = 0 /\ tally[b] = 0
      BY <2>1 DEF InStock, Tally
    <3> QED
      BY <1>2, <3>1
  <2>2. CASE batch[b].product = p /\ b = a
    <3>1. v >= s + m /\ stock[b] = v /\ tally[b] = s
      BY <2>2, HoldsItsMovements DEF InStock, Tally
    <3>2. more[b] = s + m
      BY <1>2, <2>2, <3>1
    <3> QED
      BY <3>1, <3>2
  <2>3. CASE batch[b].product = p /\ b # a
    <3>1. ~batch[b].legacy
      BY <2>3 DEF LegacyInv
    <3>2. v = s /\ stock[b] = v /\ tally[b] = s
      BY <2>3, <3>1, HoldsItsMovements DEF InStock, Tally
    <3>3. more[b] = s
      BY <1>2, <2>3, <3>2
    <3> QED
      BY <3>2, <3>3
  <2> QED
    BY <2>1, <2>2, <2>3
<1>4. IsFiniteSet(S) /\ a \in S
  BY StockTyped
<1>5. StockOf(batch, p) = SumOf(stock, S) /\ TallyOf(batch, moved, p) = m + SumOf(tally, S)
  BY DEF StockOf, TallyOf
<1> HIDE DEF stock, tally, more, S
<1>6. SumOf(more, S) <= SumOf(stock, S)
  BY <1>1, <1>3, <1>4, SumLess
<1>7. SumOf(more, S) = SumOf(tally, S) + (more[a] - tally[a])
  BY <1>1, <1>2, <1>3, <1>4, SumChange
<1>8. more[a] - tally[a] = m
  BY <1>1, <1>2, <1>4
<1>9. SumOf(tally, S) \in Int /\ SumOf(stock, S) \in Int
  BY <1>1, <1>4, SumType
<1> QED
  BY <1>5, <1>6, <1>7, <1>8, <1>9

\* Batches keep what they were created with.
LEMMA OriginsStay ==
    ASSUME NEW p, NEW q, Origins(batch, moved, p), DOMAIN batch \subseteq DOMAIN batch',
           \A b \in DOMAIN batch :
             /\ batch'[b].product = batch[b].product /\ batch'[b].legacy = batch[b].legacy
             /\ batch'[b].purchase = batch[b].purchase
             /\ batch'[b].status = "BLOCKED" =>
                  batch[b].status = "BLOCKED" \/ batch[b].purchase # "none"
             /\ Origin(b, batch'[b], moved'[b], q) = Origin(b, batch[b], moved[b], p),
           \A b \in DOMAIN batch' \ DOMAIN batch : Stocked(b, batch'[b], moved'[b], q)
    PROVE  Origins(batch', moved', q)
<1> SUFFICES ASSUME NEW b \in DOMAIN batch'
             PROVE  Stocked(b, batch'[b], moved'[b], q)
  BY DEF Origins
<1>1. CASE b \in DOMAIN batch
  <2>1. Stocked(b, batch[b], moved[b], p)
    BY <1>1 DEF Origins
  <2> QED
    BY <1>1, <2>1 DEF Stocked
<1> QED
  BY <1>1

\* Nothing is owed except by a request that is about to record a movement.
LEMMA NothingOwed ==
    ASSUME NEW q, q.pc # "move"
    PROVE  \A b : Owed(q, b) = 0
  BY DEF Owed

\* A step that changes neither initial_quantity nor what raised it.
LEMMA OriginsLast ==
    ASSUME NEW p, NEW q, Origins(batch, moved, p), p.pc # "move", q.pc # "move",
           DOMAIN batch' = DOMAIN batch,
           \A b \in DOMAIN batch :
             /\ batch'[b].product = batch[b].product /\ batch'[b].legacy = batch[b].legacy
             /\ batch'[b].purchase = batch[b].purchase /\ batch'[b].initial = batch[b].initial
             /\ batch'[b].status = "BLOCKED" =>
                  batch[b].status = "BLOCKED" \/ batch[b].purchase # "none"
             /\ moved'[b].raised = moved[b].raised
    PROVE  Origins(batch', moved', q)
<1>1. \A b : Owed(p, b) = 0 /\ Owed(q, b) = 0
  BY NothingOwed
<1>2. \A b \in DOMAIN batch : Origin(b, batch'[b], moved'[b], q) = Origin(b, batch[b], moved[b], p)
  BY <1>1 DEF Origin
<1> QED
  BY <1>2, OriginsStay

\* The same, when neither batches nor movements are written.
LEMMA OriginsStill ==
    ASSUME NEW p, NEW q, Origins(batch, moved, p), p.pc # "move", q.pc # "move", UNCHANGED <<batch, moved>>
    PROVE  Origins(batch', moved', q)
  BY OriginsLast

\* A batch that no LEGACY batch is.
LEMMA NewIsStocked ==
    ASSUME NEW row, NEW sums, NEW q, NEW b, NEW n \in Int, ~row.legacy, row.status # "BLOCKED",
           row.initial = n, sums.raised + Owed(q, b) = n, sums.raised \in Int, Owed(q, b) \in Int
    PROVE  Stocked(b, row, sums, q)
<1>1. n - sums.raised - Owed(q, b) = 0
  OBVIOUS
<1> QED
  BY <1>1 DEF Stocked, Origin

\* A purchase or an entry comes in.
LEMMA WritingOrigins ==
    ASSUME TypeInv, NEW r \in Requests, NEW q, Writing(r, q), Origins(batch, moved, Idle)
    PROVE  Origins(batch', moved', q) /\ Foreseen(q)
<1>0. Idle.pc # "move" /\ Idle.pc # "insert" /\ \A b : Owed(Idle, b) = 0
  BY IdleTyped, NothingOwed
<1>1. ASSUME NEW u \in Purchases, CreatePurchase(r, u), q = Idle
      PROVE  Origins(batch', moved', q)
  <2>1. /\ DOMAIN batch \subseteq DOMAIN batch'
        /\ \A b \in DOMAIN batch : batch'[b] = batch[b] /\ moved'[b] = moved[b]
        /\ \A b \in DOMAIN batch' \ DOMAIN batch :
             \E i \in DOMAIN Lines[u] :
               /\ batch'[b] = NewBatch(Lines[u][i].product, u, FALSE, Lines[u][i].dated,
                                       Lines[u][i].qty)
               /\ moved'[b] = [sum |-> Lines[u][i].qty, raised |-> Lines[u][i].qty]
    BY <1>1, CreateRows
  <2>2. ASSUME NEW b \in DOMAIN batch' \ DOMAIN batch
        PROVE  Stocked(b, batch'[b], moved'[b], q)
    <3>1. PICK i \in DOMAIN Lines[u] :
            /\ batch'[b] = NewBatch(Lines[u][i].product, u, FALSE, Lines[u][i].dated, Lines[u][i].qty)
            /\ moved'[b] = [sum |-> Lines[u][i].qty, raised |-> Lines[u][i].qty]
      BY <2>1
    <3> PICK n \in Nat : n = Lines[u][i].qty
      BY LineTyped
    <3>2. /\ ~batch'[b].legacy /\ batch'[b].status # "BLOCKED" /\ batch'[b].initial = n
          /\ moved'[b].raised = n
      BY <3>1 DEF NewBatch
    <3>3. Owed(q, b) = 0 /\ n + 0 = n
      BY <1>0, <1>1
    <3> QED
      BY <3>2, <3>3, NewIsStocked
  <2> QED
    BY <1>1, <2>1, <2>2, OriginsStay
<1>2. ASSUME NEW p \in Products, NEW dated \in BOOLEAN, q.op = "entry", q.pc = "move",
             q.ent = Len(batch) + 1, q.moving \in Entries,
             batch' = Append(batch, NewBatch(p, "none", FALSE, dated, q.moving)),
             moved' = Append(moved, [sum |-> 0, raised |-> 0]), UNCHANGED <<purchase, payments, allocs>>
      PROVE  Origins(batch', moved', q)
  <2> PICK n \in Nat \ {0} : n = q.moving
    BY <1>2, InputsTyped
  <2> PICK e : e = Len(batch) + 1
    OBVIOUS
  <2>1. NewBatch(p, "none", FALSE, dated, n) \in BatchRow
    BY StockroomAssumption DEF NewBatch, BatchRow, BatchStatus, Expiry
  <2>2. /\ DOMAIN batch' = 1..Len(batch) + 1
        /\ \A b \in DOMAIN batch : batch'[b] = batch[b] /\ moved'[b] = moved[b]
        /\ batch'[e] = NewBatch(p, "none", FALSE, dated, n)
        /\ moved'[e] = [sum |-> 0, raised |-> 0]
    BY <1>2, <2>1, AppendsBatch
  <2>3. DOMAIN batch \subseteq DOMAIN batch' /\ e \notin DOMAIN batch
        /\ \A b \in DOMAIN batch' \ DOMAIN batch : b = e
    BY <2>2, RowsTyped
  <2>4. Owed(q, e) = n /\ \A b : b # e => Owed(q, b) = 0
    BY <1>2 DEF Owed, Raised
  <2>5. \A b \in DOMAIN batch : Origin(b, batch'[b], moved'[b], q) = Origin(b, batch[b], moved[b], Idle)
    BY <1>0, <2>2, <2>3, <2>4 DEF Origin
  <2>6. Stocked(e, batch'[e], moved'[e], q)
    <3>1. /\ ~batch'[e].legacy /\ batch'[e].status # "BLOCKED" /\ batch'[e].initial = n
          /\ moved'[e].raised = 0
      BY <2>2 DEF NewBatch
    <3>2. moved'[e].raised + Owed(q, e) = n /\ moved'[e].raised \in Int /\ Owed(q, e) \in Int
      BY <2>4, <3>1
    <3> QED
      BY <3>1, <3>2, NewIsStocked
  <2> QED
    BY <2>2, <2>3, <2>5, <2>6, OriginsStay
<1>3. Foreseen(q)
  BY <1>0 DEF Writing, Foreseen
<1> QED
  BY <1>1, <1>2, <1>3 DEF Writing

\* The calls.
LEMMA BeginOrigins ==
    ASSUME TypeInv, NEW r \in Requests, Begin(r), Origins(batch, moved, Idle)
    PROVE  \E q : req' = [req EXCEPT ![r] = q] /\ Origins(batch', moved', q) /\ Foreseen(q)
<1>1. PICK q : /\ req' = [req EXCEPT ![r] = q]
               /\ \/ Writing(r, q)
                  \/ /\ Reading
                     /\ \/ UpdateStarts(q) \/ PayStarts(q) \/ CancelStarts(q)
                        \/ FindStarts(q) \/ ConsumeStarts(q) \/ RestoreStarts(q)
  BY BeginIs
<1>2. CASE Writing(r, q)
  BY <1>1, <1>2, WritingOrigins
<1>3. CASE ~Writing(r, q)
  <2>1. /\ q.pc \in {"select", "load", "find", "plan", "give"} /\ UNCHANGED <<batch, moved>>
        /\ Idle.pc # "move"
    BY <1>1, <1>3, IdleTyped
    DEF UpdateStarts, PayStarts, CancelStarts, FindStarts, ConsumeStarts, RestoreStarts, Reading
  <2>2. Origins(batch', moved', q) /\ Foreseen(q)
    BY <2>1, OriginsStill DEF Foreseen
  <2> QED
    BY <1>1, <2>2
<1> QED
  BY <1>2, <1>3


\* A correction that raises a batch owes it the movement that tells of it.
LEMMA AdjustOrigins ==
    ASSUME TypeInv, NEW r \in Requests, AdjustBatch(r), FreshSlot(req[r], batch),
           Origins(batch, moved, req[r])
    PROVE  \E q : req' = [req EXCEPT ![r] = q] /\ Origins(batch', moved', q) /\ Foreseen(q)
<1> PICK p : p = req[r]
  OBVIOUS
<1>1. p.pc = "adjust" /\ p.ent \in DOMAIN batch /\ p.qty \in Deltas /\ UNCHANGED moved
  BY AdjustIs
<1> PICK e \in DOMAIN batch : e = p.ent
  BY <1>1
<1> PICK d \in Int : d = p.qty
  BY <1>1, InputsTyped
<1> PICK up \in Int : up = Raised(d)
  BY DEF Raised
<1>2. PICK row \in BatchRow : /\ batch' = [batch EXCEPT ![e] = row] /\ row.initial = p.initial + up
                              /\ row.product = batch[e].product /\ row.legacy = batch[e].legacy
                              /\ row.purchase = batch[e].purchase /\ row.status = StatusFor(row.avail)
  BY AdjustIs
<1>3. PICK q : /\ Becomes(r, q) /\ q.pc = "move" /\ q.ent = e /\ q.moving = d
  BY AdjustIs
<1> PICK i \in Int, u \in Int : i = batch[e].initial /\ u = moved[e].raised
  BY NumbersTyped
<1>4. p.initial = i
  BY <1>1 DEF FreshSlot, ReadsLegacy
<1>5. /\ DOMAIN batch' = DOMAIN batch /\ batch'[e] = row
      /\ \A b \in DOMAIN batch : b # e => batch'[b] = batch[b]
  BY <1>2, ReplacesBatch
<1>6. \A b : Owed(p, b) = 0
  BY <1>1, NothingOwed
<1>7. Owed(q, e) = up /\ \A b : b # e => Owed(q, b) = 0
  BY <1>3 DEF Owed
<1>8. Origin(e, batch'[e], moved'[e], q) = Origin(e, batch[e], moved[e], p)
  <2>1. Origin(e, batch'[e], moved'[e], q) = (i + up) - u - up
    BY <1>1, <1>2, <1>4, <1>5, <1>7 DEF Origin
  <2>2. Origin(e, batch[e], moved[e], p) = i - u - 0
    BY <1>6 DEF Origin
  <2>3. (i + up) - u - up = i - u - 0
    OBVIOUS
  <2> QED
    BY ONLY <2>1, <2>2, <2>3, Zenon
<1>9. \A b \in DOMAIN batch : b # e =>
        Origin(b, batch'[b], moved'[b], q) = Origin(b, batch[b], moved[b], p)
  BY <1>1, <1>5, <1>6, <1>7 DEF Origin
<1>10. row.status # "BLOCKED"
  BY <1>2 DEF StatusFor
<1>11. Origins(batch', moved', q)
  <2>1. Origins(batch, moved, p) /\ DOMAIN batch' = DOMAIN batch
    BY <1>5
  <2>2. ASSUME NEW b \in DOMAIN batch
        PROVE  /\ batch'[b].product = batch[b].product /\ batch'[b].legacy = batch[b].legacy
               /\ batch'[b].purchase = batch[b].purchase
               /\ batch'[b].status = "BLOCKED" =>
                    batch[b].status = "BLOCKED" \/ batch[b].purchase # "none"
               /\ Origin(b, batch'[b], moved'[b], q) = Origin(b, batch[b], moved[b], p)
    <3>1. CASE b = e
      BY <1>2, <1>5, <1>8, <1>10, <3>1
    <3>2. CASE b # e
      BY <1>5, <1>9, <3>2
    <3> QED
      BY <3>1, <3>2
  <2> QED
    BY <2>1, <2>2, OriginsStay
<1> QED
  BY <1>3, <1>11 DEF Becomes, Foreseen

\* The movement tells of it.
LEMMA MoveOrigins ==
    ASSUME TypeInv, NEW r \in Requests, InsertMovement(r), Origins(batch, moved, req[r])
    PROVE  req' = [req EXCEPT ![r] = Idle] /\ Origins(batch', moved', Idle)
<1> PICK p : p = req[r]
  OBVIOUS
<1>1. /\ p.pc = "move" /\ p.ent \in DOMAIN batch /\ UNCHANGED batch /\ Becomes(r, Idle)
  BY MoveIs
<1> PICK e \in DOMAIN batch : e = p.ent
  BY <1>1
<1>2. p \in Request
  BY RowsTyped
<1> PICK d \in Int : d = p.moving
  BY <1>2 DEF Request
<1> PICK up \in Nat : up = Raised(d)
  BY DEF Raised
<1> PICK i \in Int : i = batch[e].initial
  BY NumbersTyped
<1>s. moved[e] \in MovementSums
  BY RowsTyped
<1> PICK s \in Int, u \in Nat : s = moved[e].sum /\ u = moved[e].raised
  BY <1>s DEF MovementSums
<1> DEFINE sums == [sum |-> s + d, raised |-> u + up]
<1>3. sums \in MovementSums /\ sums.raised = u + up
  BY DEF MovementSums
<1>4. moved' = [moved EXCEPT ![e] = sums]
  BY MoveIs
<1> HIDE DEF sums
<1>5. moved'[e] = sums /\ \A b \in DOMAIN batch : b # e => moved'[b] = moved[b]
  BY <1>3, <1>4, ReplacesSums
<1>6. Owed(p, e) = up /\ \A b : b # e => Owed(p, b) = 0
  BY <1>1 DEF Owed
<1>7. \A b : Owed(Idle, b) = 0
  BY IdleTyped, NothingOwed
<1>8. Origin(e, batch'[e], moved'[e], Idle) = Origin(e, batch[e], moved[e], p)
  <2>1. Origin(e, batch'[e], moved'[e], Idle) = i - (u + up) - 0
    BY <1>1, <1>3, <1>5, <1>7 DEF Origin
  <2>2. Origin(e, batch[e], moved[e], p) = i - u - up
    BY <1>6 DEF Origin
  <2>3. i - (u + up) - 0 = i - u - up
    OBVIOUS
  <2> QED
    BY ONLY <2>1, <2>2, <2>3, Zenon
<1>9. \A b \in DOMAIN batch : b # e =>
        Origin(b, batch'[b], moved'[b], Idle) = Origin(b, batch[b], moved[b], p)
  BY <1>1, <1>5, <1>6, <1>7 DEF Origin
<1>10. Origins(batch', moved', Idle)
  <2>1. Origins(batch, moved, p) /\ DOMAIN batch' = DOMAIN batch
    BY <1>1
  <2> QED
    BY <1>1, <1>8, <1>9, <2>1, OriginsStay
<1> QED
  BY <1>1, <1>10 DEF Becomes

\* The LEGACY batch gets at least the units of the movements that no batch had.
LEMMA FindOrigins ==
    ASSUME TypeInv, LotsInv, NEW r \in Requests, FindLegacy(r), Origins(batch, moved, req[r]),
           Explained(batch, moved, allocs, req[r], 0)
    PROVE  \E q : req' = [req EXCEPT ![r] = q] /\ Origins(batch', moved', q) /\ Foreseen(q)
<1> PICK p : p = req[r]
  OBVIOUS
<1>1. p.pc = "find" /\ UNCHANGED <<batch, moved>> /\ p.op \in {"adjust", "consume", "backfill"}
  BY FindIs DEF Reading
<1>2. PICK q : /\ Becomes(r, q)
               /\ \/ /\ q.pc = "insert" /\ q.product = p.product /\ LegacyOf(q.product) = {}
                     /\ q.moving = Max({0, Ledger(q.product)})
                  \/ q.pc \in {"idle", "adjust", "plan", "find"}
  BY FindIs, IdleTyped DEF PastLegacy
<1>3. q.pc # "move"
  BY <1>2
<1>4. Origins(batch', moved', q)
  BY <1>1, <1>3, OriginsStill
<1>5. ASSUME q.pc = "insert"
      PROVE  q.moving >= Moved[q.product]
  <2>1. q.product = p.product /\ LegacyOf(q.product) = {} /\ q.moving = Max({0, Ledger(q.product)})
    BY <1>2, <1>5
  <2>2. Holding(p, Len(batch), Len(allocs))
    BY RowsTyped
  <2>3. q.product \in Products
    BY <1>1, <2>1, <2>2 DEF Holding, HoldsProduct
  <2>4. NoLegacy(batch, q.product)
    BY <2>1 DEF NoLegacy, LegacyOf, BatchesOf
  <2>5. TallyOf(batch, moved, q.product) >= Moved[q.product]
    BY <1>1, <2>3, <2>4, LedgerAlone
  <2> PICK n \in Int : n = Ledger(q.product)
    BY <2>3, StockTyped
  <2>6. n >= Moved[q.product]
    BY <2>3, <2>5, StockSums
  <2>7. Moved[q.product] \in Nat
    BY <2>3, StockroomAssumption
  <2>8. q.moving = IF n > 0 THEN n ELSE 0
    BY <2>1, MaxOfZero
  <2> QED
    BY <2>6, <2>7, <2>8
<1> QED
  BY <1>2, <1>4, <1>5 DEF Becomes, Foreseen

\* It is inserted.
LEMMA InsertOrigins ==
    ASSUME TypeInv, NEW r \in Requests, InsertLegacy(r), Origins(batch, moved, req[r]), Foreseen(req[r])
    PROVE  \E q : req' = [req EXCEPT ![r] = q] /\ Origins(batch', moved', q) /\ Foreseen(q)
<1> PICK p : p = req[r]
  OBVIOUS
<1> PICK n \in Nat : n = p.moving
  BY InsertIs
<1> PICK e : e = Len(batch) + 1
  OBVIOUS
<1>1. PICK q : Becomes(r, q) /\ q.pc \in {"idle", "adjust", "plan", "find"}
  BY InsertIs, IdleTyped DEF PastLegacy
<1>2. /\ MoreLegacy(p.product) /\ p.pc = "insert" /\ p.product \in Products
      /\ batch'[e] = NewBatch(p.product, "none", TRUE, FALSE, n)
      /\ moved'[e] = [sum |-> 0, raised |-> 0]
      /\ \A b \in DOMAIN batch : moved'[b] = moved[b]
  BY LegacyAdded
<1>3. /\ DOMAIN batch' = DOMAIN batch \cup {e} /\ e \notin DOMAIN batch
      /\ \A b \in DOMAIN batch : batch'[b] = batch[b]
  BY <1>2 DEF MoreLegacy
<1>4. \A b : Owed(p, b) = 0 /\ Owed(q, b) = 0
  BY <1>1, <1>2, NothingOwed
<1>5. /\ batch'[e].initial = n /\ batch'[e].legacy /\ batch'[e].product = p.product
      /\ batch'[e].status # "BLOCKED" /\ moved'[e].raised = 0
  BY <1>2 DEF NewBatch
<1>6. n >= Moved[p.product]
  BY <1>2 DEF Foreseen
<1>7. Stocked(e, batch'[e], moved'[e], q)
  <2>1. n - 0 - 0 >= Moved[p.product]
    BY <1>2, <1>6, StockroomAssumption
  <2> QED
    BY <1>4, <1>5, <2>1 DEF Stocked, Origin
<1>8. \A b \in DOMAIN batch : Origin(b, batch'[b], moved'[b], q) = Origin(b, batch[b], moved[b], p)
  BY <1>2, <1>3, <1>4 DEF Origin
<1>9. Origins(batch', moved', q)
  <2>1. Origins(batch, moved, p)
    OBVIOUS
  <2>2. \A b \in DOMAIN batch' \ DOMAIN batch : Stocked(b, batch'[b], moved'[b], q)
    BY <1>3, <1>7
  <2> QED
    BY <1>3, <1>8, <2>1, <2>2, OriginsStay
<1> QED
  BY <1>1, <1>9 DEF Becomes, Foreseen

\* A cancellation blocks lots that were bought.
LEMMA CommitOrigins ==
    ASSUME TypeInv, NEW r \in Requests, CommitCancel(r), Origins(batch, moved, req[r])
    PROVE  req' = [req EXCEPT ![r] = Idle] /\ Origins(batch', moved', Idle)
<1> PICK p : p = req[r]
  OBVIOUS
<1>1. p.pc = "block" /\ p.purchase \in Purchases /\ Becomes(r, Idle) /\ Origins(batch, moved, p)
  BY CommitIs
<1>2. Idle.pc # "move" /\ p.pc # "move"
  BY <1>1, IdleTyped
<1>3. CASE Reading
  BY <1>1, <1>2, <1>3, OriginsStill DEF Reading, Becomes
<1>4. ASSUME batch' = [b \in DOMAIN batch |->
                         IF b \in BoughtWith(p.purchase) THEN Blocked(batch[b]) ELSE batch[b]],
             moved' = [b \in DOMAIN moved |-> [moved[b] EXCEPT !.sum = moved[b].sum - p.plan[b]]]
      PROVE  Origins(batch', moved', Idle)
  <2>1. DOMAIN batch' = DOMAIN batch /\ DOMAIN moved = DOMAIN batch /\ p.purchase # "none"
    BY <1>1, <1>4, RowsTyped, StockroomAssumption
  <2>2. ASSUME NEW b \in DOMAIN batch
        PROVE  /\ batch'[b].product = batch[b].product /\ batch'[b].legacy = batch[b].legacy
               /\ batch'[b].purchase = batch[b].purchase /\ batch'[b].initial = batch[b].initial
               /\ batch'[b].status = "BLOCKED" =>
                    batch[b].status = "BLOCKED" \/ batch[b].purchase # "none"
               /\ moved'[b].raised = moved[b].raised
    <3>1. batch[b] \in BatchRow /\ moved[b] \in MovementSums
      BY RowsTyped
    <3>2. moved'[b].raised = moved[b].raised
      BY <1>4, <2>1, <3>1 DEF MovementSums
    <3>3. CASE batch[b].purchase = p.purchase
      <4>1. batch'[b] = Blocked(batch[b])
        BY <1>4, <3>3 DEF BoughtWith
      <4> QED
        BY <2>1, <3>1, <3>2, <3>3, <4>1, BlockedTyped
    <3>4. CASE batch[b].purchase # p.purchase
      <4>1. batch'[b] = batch[b]
        BY <1>4, <3>4 DEF BoughtWith
      <4> QED
        BY <3>2, <4>1
    <3> QED
      BY <3>3, <3>4
  <2> QED
    BY <1>1, <1>2, <2>1, <2>2, OriginsLast
<1> QED
  BY <1>1, <1>3, <1>4, CommitIs DEF Becomes

\* The statements that write one batch, neither what it was created with nor what raised it.
LEMMA OneOrigin ==
    ASSUME TypeInv, NEW p, NEW q, Origins(batch, moved, p), p.pc # "move", q.pc # "move",
           NEW e \in DOMAIN batch, NEW row \in BatchRow, batch' = [batch EXCEPT ![e] = row],
           UNCHANGED moved, row.product = batch[e].product, row.legacy = batch[e].legacy,
           row.purchase = batch[e].purchase, row.initial = batch[e].initial, row.status # "BLOCKED"
    PROVE  Origins(batch', moved', q)
<1>1. /\ DOMAIN batch' = DOMAIN batch /\ batch'[e] = row
      /\ \A b \in DOMAIN batch : b # e => batch'[b] = batch[b]
  BY ReplacesBatch
<1> QED
  BY <1>1, OriginsLast

\* The statements that write the movements of one batch, none of which raised it.
LEMMA SameOrigin ==
    ASSUME TypeInv, NEW p, NEW q, Origins(batch, moved, p), p.pc # "move", q.pc # "move",
           NEW e \in DOMAIN batch, NEW n \in Int, UNCHANGED batch,
           moved' = [moved EXCEPT ![e] = [sum |-> moved[e].sum + n, raised |-> moved[e].raised]]
    PROVE  Origins(batch', moved', q)
<1>1. moved[e] \in MovementSums
  BY RowsTyped
<1> PICK s \in Int, u \in Nat : s = moved[e].sum /\ u = moved[e].raised
  BY <1>1 DEF MovementSums
<1> DEFINE sums == [sum |-> s + n, raised |-> u]
<1>2. sums \in MovementSums /\ sums.raised = u /\ moved' = [moved EXCEPT ![e] = sums]
  BY DEF MovementSums
<1> HIDE DEF sums
<1>3. moved'[e] = sums /\ \A b \in DOMAIN batch : b # e => moved'[b] = moved[b]
  BY <1>2, ReplacesSums
<1>4. \A b \in DOMAIN batch : moved'[b].raised = moved[b].raised
  BY <1>2, <1>3
<1> QED
  BY <1>4, OriginsLast

\* The statements.
LEMMA RunOrigins ==
    ASSUME TypeInv, RoomInv, LotsInv, NEW r \in Requests, Run(r), FreshSlot(req[r], batch),
           Explained(batch, moved, allocs, req[r], 0), Origins(batch, moved, req[r]), Foreseen(req[r])
    PROVE  \E q : req' = [req EXCEPT ![r] = q] /\ Origins(batch', moved', q) /\ Foreseen(q)
<1> DEFINE Goal == \E q : req' = [req EXCEPT ![r] = q] /\ Origins(batch', moved', q) /\ Foreseen(q)
<1> PICK p : p = req[r]
  OBVIOUS
<1>o. Origins(batch, moved, p)
  OBVIOUS
<1>s. ASSUME NEW q, Becomes(r, q), UNCHANGED <<batch, moved>>, p.pc # "move", q.pc \notin {"move", "insert"}
      PROVE  Goal
  <2>1. Origins(batch', moved', q) /\ Foreseen(q)
    BY <1>o, <1>s, OriginsStill DEF Foreseen
  <2> QED
    BY <1>s, <2>1 DEF Becomes
<1>i. ASSUME Becomes(r, Idle), UNCHANGED <<batch, moved>>, p.pc # "move"
      PROVE  Goal
  BY <1>i, <1>s, IdleTyped
<1>1. CASE SelectPurchase(r)
  <2>1. /\ p.pc = "select" /\ UNCHANGED <<batch, moved>>
        /\ Becomes(r, Idle) \/ \E q : Becomes(r, q) /\ q.pc = "write"
    BY <1>1, SelectIs DEF Reading
  <2> QED
    BY <1>i, <1>s, <2>1
<1>2. CASE WritePurchase(r)
  <2>1. /\ p.pc = "write" /\ UNCHANGED <<batch, moved>>
        /\ Becomes(r, Idle) \/ \E q : Becomes(r, q) /\ q.pc = "receipt"
    BY <1>2, WriteIs
  <2> QED
    BY <1>i, <1>s, <2>1
<1>3. CASE InsertPayment(r)
  BY <1>3, <1>i, ReceiptIs
<1>4. CASE LoadBatches(r)
  <2>1. p.pc = "load" /\ UNCHANGED <<batch, moved>> /\ \E q : Becomes(r, q) /\ q.pc = "block"
    BY <1>4, LoadIs DEF Reading
  <2> QED
    BY <1>s, <2>1
<1>5. CASE CommitCancel(r)
  <2>1. req' = [req EXCEPT ![r] = Idle] /\ Origins(batch', moved', Idle)
    BY <1>5, CommitOrigins
  <2> QED
    BY <2>1, IdleTyped DEF Foreseen
<1>6. CASE FindLegacy(r)
  BY <1>6, FindOrigins
<1>7. CASE InsertLegacy(r)
  BY <1>7, InsertOrigins
<1>8. CASE AdjustBatch(r)
  BY <1>8, AdjustOrigins
<1>9. CASE InsertMovement(r)
  <2>1. req' = [req EXCEPT ![r] = Idle] /\ Origins(batch', moved', Idle)
    BY <1>9, MoveOrigins
  <2> QED
    BY <2>1, IdleTyped DEF Foreseen
<1>10. CASE ReadCandidates(r)
  <2>1. /\ p.pc = "plan" /\ UNCHANGED <<batch, moved>>
        /\ Becomes(r, Idle) \/ \E q : Becomes(r, q) /\ q.pc = "take"
    BY <1>10, ReadIs, RoomFits DEF Reading
  <2> QED
    BY <1>i, <1>s, <2>1
<1>11. CASE TakeBatch(r)
  <2>1. p.pc = "take" /\ UNCHANGED moved
    BY <1>11, TakeIs
  <2>2. PICK e \in DOMAIN batch, n \in Nat \ {0}, row \in BatchRow : \E q : Takes(r, e, n, row, q)
    BY <1>11, TakeIs
  <2>3. PICK q : Takes(r, e, n, row, q)
    BY <2>2
  <2>4. /\ batch' = [batch EXCEPT ![e] = row] /\ row.product = batch[e].product
        /\ row.legacy = batch[e].legacy /\ row.purchase = batch[e].purchase
        /\ row.initial = batch[e].initial /\ row.status # "BLOCKED"
        /\ Becomes(r, q) /\ q.pc = "alloc"
    BY <2>3 DEF Takes, StatusFor
  <2>5. Origins(batch', moved', q)
    BY <1>o, <2>1, <2>4, OneOrigin
  <2> QED
    BY <2>4, <2>5 DEF Becomes, Foreseen
<1>12. CASE InsertAllocation(r)
  <2> PICK e : e = p.ent
    OBVIOUS
  <2> PICK n : n = p.moving
    OBVIOUS
  <2>1. /\ p.pc = "alloc" /\ e \in DOMAIN batch /\ n \in Nat \ {0} /\ UNCHANGED batch
        /\ moved' = [moved EXCEPT ![e] = [sum |-> moved[e].sum - n, raised |-> moved[e].raised]]
        /\ Becomes(r, Idle) \/ \E q : Becomes(r, q) /\ q.pc = "take"
    BY <1>12, AllocIs
  <2>2. PICK q : Becomes(r, q) /\ q.pc \in {"idle", "take"}
    BY <2>1, IdleTyped
  <2>3. moved[e].sum \in Int
    BY <2>1, NumbersTyped
  <2>4. moved[e].sum - n = moved[e].sum + (-n) /\ -n \in Int
    BY <2>1, <2>3
  <2>5. moved' = [moved EXCEPT ![e] = [sum |-> moved[e].sum + (-n), raised |-> moved[e].raised]]
    BY <2>1, <2>4, Zenon
  <2>6. Origins(batch', moved', q)
    BY <1>o, <2>1, <2>2, <2>4, <2>5, SameOrigin
  <2> QED
    BY <2>2, <2>6 DEF Becomes, Foreseen
<1>13. CASE GiveBack(r)
  <2> PICK e : e = p.ent
    OBVIOUS
  <2>1. p.pc = "give" /\ e \in DOMAIN batch /\ UNCHANGED moved
    BY <1>13, GiveIs
  <2>2. PICK row \in BatchRow :
          /\ batch' = [batch EXCEPT ![e] = row]
          /\ row.product = batch[e].product /\ row.legacy = batch[e].legacy
          /\ row.purchase = batch[e].purchase /\ row.initial = batch[e].initial
          /\ row.status = "ACTIVE"
    BY <1>13, GiveIs
  <2>3. PICK q : Becomes(r, q) /\ q.pc = "mark"
    BY <1>13, GiveIs
  <2>4. Origins(batch', moved', q)
    BY <1>o, <2>1, <2>2, <2>3, OneOrigin
  <2> QED
    BY <2>3, <2>4 DEF Becomes, Foreseen
<1>14. CASE MarkRestored(r)
  <2> PICK e : e = p.ent
    OBVIOUS
  <2> PICK n : n = p.moving
    OBVIOUS
  <2>1. /\ p.pc = "mark" /\ e \in DOMAIN batch /\ n \in Int /\ UNCHANGED batch /\ Becomes(r, Idle)
        /\ moved' = [moved EXCEPT ![e] = [sum |-> moved[e].sum + n, raised |-> moved[e].raised]]
    BY <1>14, MarkIs
  <2>2. Origins(batch', moved', Idle)
    BY <1>o, <2>1, IdleTyped, SameOrigin
  <2> QED
    BY <2>1, <2>2, IdleTyped DEF Becomes, Foreseen
<1> QED
  BY <1>1, <1>2, <1>3, <1>4, <1>5, <1>6, <1>7, <1>8, <1>9, <1>10, <1>11, <1>12, <1>13, <1>14 DEF Run

\* A day that passes changes no batch otherwise.
LEMMA ExpireOrigins ==
    ASSUME TypeInv, NEW b \in DOMAIN batch, Expire(b), NEW q, Origins(batch, moved, q)
    PROVE  Origins(batch', moved', q)
<1>1. /\ DOMAIN batch' = DOMAIN batch /\ UNCHANGED moved
      /\ \A c \in DOMAIN batch :
           /\ batch'[c].avail = batch[c].avail /\ batch'[c].status = batch[c].status
           /\ batch'[c].initial = batch[c].initial /\ batch'[c].purchase = batch[c].purchase
           /\ batch'[c].product = batch[c].product /\ batch'[c].legacy = batch[c].legacy
  BY ExpireIs, ExpireKeeps DEF SameBatches, Expire
<1>2. \A c \in DOMAIN batch : Origin(c, batch'[c], moved'[c], q) = Origin(c, batch[c], moved[c], q)
  BY <1>1 DEF Origin
<1> QED
  BY <1>1, <1>2, OriginsStay

\* Every step.
LEMMA NextOrigin ==
    ASSUME TypeInv, RoomInv, AloneInv, LotsInv, FreshInv, ExplainedInv, OriginInv, [Next]_vars
    PROVE  OriginInv'
<1>0. TypeInv'
  BY NextTypes
<1>1. CASE UNCHANGED vars
  BY <1>1 DEF vars, OriginInv, Clean, Serial
<1>2. ASSUME NEW b \in DOMAIN batch, Expire(b)
      PROVE  OriginInv'
  <2>1. UNCHANGED <<req, used>>
    BY <1>2 DEF Expire
  <2> QED
    BY <1>2, <2>1, ExpireOrigins DEF OriginInv, Clean, Serial
<1>3. ASSUME NEW r \in Requests, Begin(r) \/ (Running(r) /\ Run(r)) \/ Die(r), Clean'
      PROVE  Origins(batch', moved', OnlyOf(req')) /\ Foreseen(OnlyOf(req'))
  <2>1. Clean /\ ~Die(r) /\ Serial'
    BY <1>0, <1>3, StaysClean DEF Clean
  <2>2. \A s \in Requests : s # r => req[s] = Idle /\ req'[s] = Idle
    BY <1>3, <2>1, OnlyOne
  <2>3. OnlyOf(req) = req[r]
    BY <2>2, OnlyIs
  <2>4. OnlyOf(req') = req'[r]
    BY <2>2, OnlyIs
  <2>5. Origins(batch, moved, req[r]) /\ Foreseen(req[r])
    BY <2>1, <2>3 DEF OriginInv
  <2>6. FreshSlot(req[r], batch) /\ Explained(batch, moved, allocs, req[r], 0)
    BY <2>1, <2>3 DEF FreshInv, ExplainedInv, Clean
  <2>7. \E q : req' = [req EXCEPT ![r] = q] /\ Origins(batch', moved', q) /\ Foreseen(q)
    <3>1. CASE Begin(r)
      BY <2>5, <3>1, BeginOrigins, BeginIs
    <3>2. CASE Run(r)
      BY <2>5, <2>6, <3>2, RunOrigins
    <3> QED
      BY <1>3, <2>1, <3>1, <3>2
  <2>8. Origins(batch', moved', req'[r]) /\ Foreseen(req'[r])
    BY <2>7 DEF TypeInv, RequestsHold
  <2> QED
    BY <2>4, <2>8
<1> QED
  BY <1>1, <1>2, <1>3 DEF Next, OriginInv

\* No product is short by more than what cancellations took, and the request that runs finds
\* what it looked for: n units of the product, in its batches or, as long as it has no LEGACY
\* batch, in the movements from which that batch will be made.
Need(q) == IF q.op = "adjust" THEN -q.qty ELSE q.qty
Covered(q, lots, sums, p, n) ==
    \/ StockOf(lots, p) >= n
    \/ /\ NoLegacy(lots, p)
       /\ q.pc = "find" => TallyOf(lots, sums, p) >= n
       /\ q.pc = "insert" => q.moving >= n
Affords(q, lots, sums) ==
    /\ q.pc \in {"find", "insert", "plan"} /\ q.op \in {"adjust", "consume"} =>
         Covered(q, lots, sums, q.product, Need(q))
    /\ q.pc = "adjust" => StockOf(lots, lots[q.ent].product) >= -q.qty
    /\ q.pc \in {"take", "alloc"} =>
         \E p \in Products : /\ StockOf(lots, p) >= q.qty
                             /\ \A c \in BatchIds : q.plan[c] > 0 => lots[c].product = p
Short(lots, sums, q) == (\A p \in Products : WorthOf(lots, p) >= 0) /\ Affords(q, lots, sums)
ShortInv == Clean => Short(batch, moved, OnlyOf(req))

\* What a table of batches adds up to.
LEMMA LotsTyped ==
    ASSUME NEW lots \in Seq(BatchRow), NEW p
    PROVE  /\ IsFiniteSet(DOMAIN lots) /\ StockOf(lots, p) \in Int /\ WorthOf(lots, p) \in Int
           /\ \A b \in DOMAIN lots : InStock(lots[b], p) \in Int /\ Worth(lots[b], p) \in Int
<1> DEFINE S == DOMAIN lots
           stock == [b \in S |-> InStock(lots[b], p)]
           worth == [b \in S |-> Worth(lots[b], p)]
<1>1. IsFiniteSet(S) /\ \A b \in S : lots[b] \in BatchRow
  BY RowsFinite
<1>2. [sum |-> 0, raised |-> 0] \in MovementSums
  BY DEF MovementSums
<1>3. \A b \in S : InStock(lots[b], p) \in Int /\ Worth(lots[b], p) \in Int
  BY <1>1, <1>2, WorthTyped
<1>4. \A b \in S : stock[b] \in Int /\ worth[b] \in Int
  BY <1>3
<1>5. StockOf(lots, p) = SumOf(stock, S) /\ WorthOf(lots, p) = SumOf(worth, S)
  BY DEF StockOf, WorthOf
<1> HIDE DEF stock, worth, S
<1>6. SumOf(stock, S) \in Int /\ SumOf(worth, S) \in Int
  BY <1>1, <1>4, SumType
<1> QED
  BY <1>1, <1>3, <1>5, <1>6 DEF S

\* What cancellations took only adds to it.
LEMMA WorthMore ==
    ASSUME NEW lots \in Seq(BatchRow), NEW p,
           \A b \in DOMAIN lots : lots[b].status = "BLOCKED" => lots[b].initial >= 0
    PROVE  StockOf(lots, p) <= WorthOf(lots, p)
<1> DEFINE S == DOMAIN lots
           stock == [b \in S |-> InStock(lots[b], p)]
           worth == [b \in S |-> Worth(lots[b], p)]
<1>1. IsFiniteSet(S) /\ \A b \in S : stock[b] \in Int /\ worth[b] \in Int
  BY LotsTyped
<1>2. \A b \in S : stock[b] <= worth[b]
  <2> SUFFICES ASSUME NEW b \in S
               PROVE  stock[b] <= worth[b]
    OBVIOUS
  <2>1. lots[b] \in BatchRow
    BY RowsFinite
  <2> PICK i \in Int : i = lots[b].initial
    BY <2>1 DEF BatchRow
  <2> PICK n \in Int : n = InStock(lots[b], p)
    BY <1>1
  <2> PICK m \in Nat : m = Lost(lots[b], p)
    BY DEF Lost
  <2>2. worth[b] = n + m /\ stock[b] = n
    BY DEF Worth
  <2> QED
    BY <2>2
<1>3. StockOf(lots, p) = SumOf(stock, S) /\ WorthOf(lots, p) = SumOf(worth, S)
  BY DEF StockOf, WorthOf
<1> HIDE DEF stock, worth, S
<1> QED
  BY <1>1, <1>2, <1>3, SumLess

\* A batch that cancellations took was created with no less than nothing.
LEMMA BlockedCounts ==
    ASSUME TypeInv, LotsInv, NEW q \in Request, Origins(batch, moved, q), NEW b \in DOMAIN batch,
           batch[b].status = "BLOCKED"
    PROVE  batch[b].initial >= 0 /\ batch[b].purchase # "none"
<1>1. Stocked(b, batch[b], moved[b], q) /\ GoodRow(batch[b])
  BY DEF Origins, LotsInv
<1>2. batch[b].purchase # "none" /\ ~batch[b].legacy
  BY <1>1 DEF Stocked, GoodRow
<1> PICK i \in Int : i = batch[b].initial
  BY NumbersTyped
<1>s. moved[b] \in MovementSums
  BY RowsTyped
<1> PICK u \in Nat : u = moved[b].raised
  BY <1>s DEF MovementSums
<1> PICK o \in Nat : o = Owed(q, b)
  BY DEF Owed, Raised, Request
<1>3. i - u - o = 0
  BY <1>1, <1>2 DEF Stocked, Origin
<1> QED
  BY <1>2, <1>3

\* No product without a LEGACY batch is short, and its candidates are among its batches.
LEMMA FirmStock ==
    ASSUME TypeInv, LotsInv, NEW p \in Products, NoLegacy(batch, p)
    PROVE  StockOf(batch, p) >= 0 /\ Units(Usable(p)) <= StockOf(batch, p)
<1> DEFINE S == DOMAIN batch
           U == Usable(p)
           stock == [b \in S |-> InStock(batch[b], p)]
           avail == [b \in U |-> batch[b].avail]
           some == [b \in S |-> IF b \in U THEN avail[b] ELSE 0]
<1>1. U \in SUBSET S /\ \A b \in U : batch[b].product = p
  BY DEF Usable, OnSale, BatchesOf
<1>2. IsFiniteSet(S) /\ IsFiniteSet(U)
  BY <1>1, StockTyped
<1>3. \A b \in S : stock[b] \in Nat /\ some[b] \in Int /\ some[b] <= stock[b]
  <2> SUFFICES ASSUME NEW b \in S
               PROVE  stock[b] \in Nat /\ some[b] \in Int /\ some[b] <= stock[b]
    OBVIOUS
  <2> PICK a \in Int : a = batch[b].avail
    BY NumbersTyped
  <2>1. CASE batch[b].product = p
    <3>1. a >= 0
      BY <2>1 DEF NoLegacy, LotsInv, GoodRow
    <3>2. stock[b] = a
      BY <2>1 DEF InStock
    <3>3. some[b] = IF b \in U THEN a ELSE 0
      OBVIOUS
    <3> HIDE DEF stock, some
    <3> QED
      BY <3>1, <3>2, <3>3
  <2>2. CASE batch[b].product # p
    <3>1. stock[b] = 0
      BY <2>2 DEF InStock
    <3>2. some[b] = 0
      BY <1>1, <2>2
    <3> HIDE DEF stock, some
    <3> QED
      BY <3>1, <3>2
  <2> QED
    BY <2>1, <2>2
<1>4. \A b \in U : avail[b] \in Int /\ avail[b] = batch[b]["avail"]
  BY <1>1, NumbersTyped
<1>5. \A b \in S : some[b] = IF b \in U THEN avail[b] ELSE 0
  OBVIOUS
<1>6. StockOf(batch, p) = SumOf(stock, S)
  BY DEF StockOf
<1> HIDE DEF stock, avail, some, U
<1>7. Units(U) = SumOf(avail, U)
  <2>1. SumOfColumn(batch, "avail", U) = SumOf(avail, U)
    BY <1>2, <1>4, ColumnIsSum
  <2> QED
    BY <2>1, SumsAreColumns
<1> HIDE DEF S
<1>8. SumOf(some, S) = SumOf(avail, U)
  BY <1>1, <1>2, <1>4, <1>5, SumWhere
<1>9. SumOf(some, S) <= SumOf(stock, S)
  BY <1>2, <1>3, SumLess
<1>10. SumOf(stock, S) \in Nat
  BY <1>2, <1>3, SumOfNats
<1> QED
  BY <1>6, <1>7, <1>8, <1>9, <1>10 DEF U

\* One batch is written.
LEMMA OneLot ==
    ASSUME TypeInv, NEW e \in DOMAIN batch, NEW row \in BatchRow, batch' = [batch EXCEPT ![e] = row],
           row.product = batch[e].product, row.status # "BLOCKED", batch[e].status # "BLOCKED",
           NEW p
    PROVE  /\ row.product = p =>
                /\ StockOf(batch', p) = StockOf(batch, p) + (row.avail - batch[e].avail)
                /\ WorthOf(batch', p) = WorthOf(batch, p) + (row.avail - batch[e].avail)
           /\ row.product # p =>
                StockOf(batch', p) = StockOf(batch, p) /\ WorthOf(batch', p) = WorthOf(batch, p)
<1> DEFINE S == DOMAIN batch
           stock == [b \in S |-> InStock(batch[b], p)]
           worth == [b \in S |-> Worth(batch[b], p)]
           stock1 == [b \in S |-> InStock(batch'[b], p)]
           worth1 == [b \in S |-> Worth(batch'[b], p)]
           n == IF row.product = p THEN row.avail - batch[e].avail ELSE 0
<1>1. /\ batch' \in Seq(BatchRow) /\ DOMAIN batch' = S /\ batch'[e] = row
      /\ \A b \in S : b # e => batch'[b] = batch[b]
  BY ReplacesBatch
<1>2. batch \in Seq(BatchRow)
  BY DEF TypeInv, TablesOK
<1>3. /\ IsFiniteSet(S) /\ e \in S
      /\ \A b \in S : stock[b] \in Int /\ worth[b] \in Int
  BY <1>2, LotsTyped
<1>4. \A b \in S : stock1[b] \in Int /\ worth1[b] \in Int
  BY <1>1, LotsTyped
<1>5. \A b \in S \ {e} : stock1[b] = stock[b] /\ worth1[b] = worth[b]
  BY <1>1
<1>6. stock1[e] - stock[e] = n /\ worth1[e] - worth[e] = n
  <2> PICK a \in Int, a1 \in Int : a = batch[e].avail /\ a1 = row.avail
    BY NumbersTyped DEF BatchRow
  <2>1. /\ stock[e] = IF row.product = p THEN a ELSE 0
        /\ stock1[e] = IF row.product = p THEN a1 ELSE 0
    BY <1>1 DEF InStock
  <2>2. Lost(batch[e], p) = 0 /\ Lost(batch'[e], p) = 0
    BY <1>1 DEF Lost
  <2>3. worth[e] = stock[e] + 0 /\ worth1[e] = stock1[e] + 0
    BY <2>2 DEF Worth
  <2>4. n = IF row.product = p THEN a1 - a ELSE 0
    OBVIOUS
  <2> HIDE DEF stock, stock1, worth, worth1, n
  <2> QED
    BY <2>1, <2>3, <2>4
<1>7. /\ StockOf(batch, p) = SumOf(stock, S) /\ WorthOf(batch, p) = SumOf(worth, S)
      /\ StockOf(batch', p) = SumOf(stock1, S) /\ WorthOf(batch', p) = SumOf(worth1, S)
  BY <1>1 DEF StockOf, WorthOf
<1> HIDE DEF stock, stock1, worth, worth1, S
<1>8. SumOf(stock1, S) = SumOf(stock, S) + (stock1[e] - stock[e])
  BY <1>3, <1>4, <1>5, SumChange
<1>9. SumOf(worth1, S) = SumOf(worth, S) + (worth1[e] - worth[e])
  BY <1>3, <1>4, <1>5, SumChange
<1>10. StockOf(batch', p) = StockOf(batch, p) + n /\ WorthOf(batch', p) = WorthOf(batch, p) + n
  BY <1>6, <1>7, <1>8, <1>9
<1>11. StockOf(batch, p) \in Int /\ WorthOf(batch, p) \in Int
  BY <1>2, LotsTyped
<1>12. CASE row.product = p
  BY <1>10, <1>12
<1>13. CASE row.product # p
  BY <1>10, <1>11, <1>13
<1> QED
  BY <1>12, <1>13

\* Batches are added.
LEMMA AddedLots ==
    ASSUME TypeInv, batch' \in Seq(BatchRow), DOMAIN batch \subseteq DOMAIN batch',
           \A b \in DOMAIN batch : batch'[b] = batch[b],
           \A b \in DOMAIN batch' \ DOMAIN batch : batch'[b].status # "BLOCKED" /\ batch'[b].avail >= 0,
           NEW p
    PROVE  /\ StockOf(batch, p) <= StockOf(batch', p) /\ WorthOf(batch, p) <= WorthOf(batch', p)
           /\ \A e \in DOMAIN batch' \ DOMAIN batch :
                batch'[e].product = p => StockOf(batch, p) + batch'[e].avail <= StockOf(batch', p)
<1> DEFINE S == DOMAIN batch
           T == DOMAIN batch'
           stock == [b \in S |-> InStock(batch[b], p)]
           worth == [b \in S |-> Worth(batch[b], p)]
           stock1 == [b \in T |-> InStock(batch'[b], p)]
           worth1 == [b \in T |-> Worth(batch'[b], p)]
<1>1. batch \in Seq(BatchRow)
  BY DEF TypeInv, TablesOK
<1>2. \A b \in S : stock[b] \in Int /\ worth[b] \in Int
  BY <1>1, LotsTyped
<1>3. IsFiniteSet(T) /\ S \subseteq T /\ \A b \in T : stock1[b] \in Int /\ worth1[b] \in Int
  BY LotsTyped
<1>4. \A b \in S : stock1[b] = stock[b] /\ worth1[b] = worth[b]
  OBVIOUS
<1>5. \A b \in T \ S : /\ stock1[b] \in Nat /\ worth1[b] \in Nat
                       /\ batch'[b].product = p => stock1[b] = batch'[b].avail
  <2> SUFFICES ASSUME NEW b \in T \ S
               PROVE  /\ stock1[b] \in Nat /\ worth1[b] \in Nat
                      /\ batch'[b].product = p => stock1[b] = batch'[b].avail
    OBVIOUS
  <2>1. batch'[b] \in BatchRow
    BY RowsFinite
  <2> PICK a \in Nat : a = batch'[b].avail
    BY <2>1 DEF BatchRow
  <2>2. stock1[b] = IF batch'[b].product = p THEN a ELSE 0
    BY DEF InStock
  <2>3. Lost(batch'[b], p) = 0
    BY DEF Lost
  <2>4. worth1[b] = stock1[b] + 0
    BY <2>3 DEF Worth
  <2> HIDE DEF stock1, worth1
  <2> QED
    BY <2>2, <2>4
<1>6. /\ StockOf(batch, p) = SumOf(stock, S) /\ WorthOf(batch, p) = SumOf(worth, S)
      /\ StockOf(batch', p) = SumOf(stock1, T) /\ WorthOf(batch', p) = SumOf(worth1, T)
  BY DEF StockOf, WorthOf
<1> HIDE DEF stock, stock1, worth, worth1
<1>7. /\ SumOf(stock, S) <= SumOf(stock1, T)
      /\ \A e \in T \ S : SumOf(stock, S) + stock1[e] <= SumOf(stock1, T)
  BY <1>2, <1>3, <1>4, <1>5, SumMore
<1>8. SumOf(worth, S) <= SumOf(worth1, T)
  BY <1>2, <1>3, <1>4, <1>5, SumMore
<1> QED
  BY <1>5, <1>6, <1>7, <1>8

\* The same batches with the same units.
LEMMA SameStock ==
    ASSUME DOMAIN batch' = DOMAIN batch, NEW p,
           \A b \in DOMAIN batch :
             /\ batch'[b].product = batch[b].product /\ batch'[b].avail = batch[b].avail
             /\ batch'[b].status = batch[b].status /\ batch'[b].initial = batch[b].initial
    PROVE  StockOf(batch', p) = StockOf(batch, p) /\ WorthOf(batch', p) = WorthOf(batch, p)
<1>1. \A b \in DOMAIN batch : InStock(batch'[b], p) = InStock(batch[b], p)
  BY DEF InStock
<1>2. \A b \in DOMAIN batch : Worth(batch'[b], p) = Worth(batch[b], p)
  BY <1>1 DEF Worth, Lost
<1>3. /\ [b \in DOMAIN batch' |-> InStock(batch'[b], p)] = [b \in DOMAIN batch |-> InStock(batch[b], p)]
      /\ [b \in DOMAIN batch' |-> Worth(batch'[b], p)] = [b \in DOMAIN batch |-> Worth(batch[b], p)]
  BY <1>1, <1>2
<1> QED
  BY <1>3 DEF StockOf, WorthOf

\* What getCurrentStock shows is there.
LEMMA CurrentStockCovers ==
    ASSUME TypeInv, LegacyInv, Serial, Explained(batch, moved, allocs, Idle, 0),
           Origins(batch, moved, Idle), NEW p \in Products, NEW n \in Int, CurrentStock(p) >= n,
           NEW q, q.pc # "insert"
    PROVE  Covered(q, batch, moved, p, n)
<1> PICK s \in Int : s = StockOf(batch, p) /\ s = Units(BatchesOf(p))
  BY StockSums
<1> PICK t \in Int : t = TallyOf(batch, moved, p) /\ t = Ledger(p)
  BY StockSums
<1>1. CASE s > 0
  BY <1>1 DEF CurrentStock, Covered
<1>2. CASE ~(s > 0)
  <2>1. t >= n
    BY <1>2 DEF CurrentStock
  <2>2. CASE NoLegacy(batch, p)
    BY <2>1, <2>2 DEF Covered
  <2>3. CASE ~NoLegacy(batch, p)
    <3>1. s >= t
      BY <2>3, IdleTyped, LedgerHeld
    <3>2. s >= n
      BY <2>1, <3>1
    <3> QED
      BY <3>2 DEF Covered
  <2> QED
    BY <2>2, <2>3
<1> QED
  BY <1>1, <1>2

\* Requests that look for no stock.
LEMMA AffordsNothing ==
    ASSUME NEW q, NEW lots, NEW sums,
           q.pc \notin {"find", "insert", "plan", "adjust", "take", "alloc"}
    PROVE  Affords(q, lots, sums)
  BY DEF Affords

\* Neither do they change what the batches hold.
LEMMA ShortStill ==
    ASSUME NEW p, NEW q, Short(batch, moved, p), UNCHANGED batch, Affords(q, batch, moved')
    PROVE  Short(batch', moved', q)
  BY DEF Short

\* The calls.
LEMMA BeginShort ==
    ASSUME TypeInv, TypeInv', LegacyInv, Serial, NEW r \in Requests, Begin(r),
           Explained(batch, moved, allocs, Idle, 0), Origins(batch, moved, Idle),
           Short(batch, moved, Idle)
    PROVE  \E q : req' = [req EXCEPT ![r] = q] /\ Short(batch', moved', q)
<1>1. PICK q : /\ req' = [req EXCEPT ![r] = q]
               /\ \/ Writing(r, q)
                  \/ /\ Reading
                     /\ \/ UpdateStarts(q) \/ PayStarts(q) \/ CancelStarts(q)
                        \/ FindStarts(q) \/ ConsumeStarts(q) \/ RestoreStarts(q)
  BY BeginIs
<1>h. Holding(q, Len(batch'), Len(allocs'))
  BY <1>1 DEF TypeInv, RequestsHold
<1>2. CASE Writing(r, q)
  <2>1. /\ DOMAIN batch \subseteq DOMAIN batch' /\ \A b \in DOMAIN batch : batch'[b] = batch[b]
        /\ \A b \in DOMAIN batch' \ DOMAIN batch :
             batch'[b].status # "BLOCKED" /\ batch'[b].avail >= 0
        /\ q.pc \in {"idle", "move"}
    <3>1. CASE \E u \in Purchases : CreatePurchase(r, u) /\ q = Idle
      <4>1. PICK u \in Purchases : CreatePurchase(r, u) /\ q = Idle
        BY <3>1
      <4>2. ASSUME NEW b \in DOMAIN batch' \ DOMAIN batch
            PROVE  batch'[b].status # "BLOCKED" /\ batch'[b].avail >= 0
        <5>1. PICK i \in DOMAIN Lines[u] :
                batch'[b] = NewBatch(Lines[u][i].product, u, FALSE, Lines[u][i].dated, Lines[u][i].qty)
          BY <4>1, CreateRows
        <5>2. Lines[u][i].qty \in Nat
          BY LineTyped
        <5> QED
          BY <5>1, <5>2 DEF NewBatch
      <4> QED
        BY <4>1, <4>2, CreateRows, IdleTyped
    <3>2. CASE ~\E u \in Purchases : CreatePurchase(r, u) /\ q = Idle
      <4>1. PICK p \in Products, dated \in BOOLEAN :
              /\ q.pc = "move" /\ q.moving \in Entries
              /\ batch' = Append(batch, NewBatch(p, "none", FALSE, dated, q.moving))
              /\ moved' = Append(moved, [sum |-> 0, raised |-> 0])
              /\ UNCHANGED <<purchase, payments, allocs>>
        BY <1>2, <3>2 DEF Writing
      <4> PICK n \in Nat : n = q.moving
        BY <4>1, InputsTyped
      <4> PICK e : e = Len(batch) + 1
        OBVIOUS
      <4>2. NewBatch(p, "none", FALSE, dated, n) \in BatchRow
        BY StockroomAssumption DEF NewBatch, BatchRow, BatchStatus, Expiry
      <4>3. /\ DOMAIN batch' = 1..Len(batch) + 1
            /\ \A b \in DOMAIN batch : batch'[b] = batch[b]
            /\ batch'[e] = NewBatch(p, "none", FALSE, dated, n)
        BY <4>1, <4>2, AppendsBatch
      <4>4. DOMAIN batch \subseteq DOMAIN batch' /\ \A b \in DOMAIN batch' \ DOMAIN batch : b = e
        BY <4>3, RowsTyped
      <4>5. batch'[e].status # "BLOCKED" /\ batch'[e].avail >= 0
        BY <4>3 DEF NewBatch
      <4> QED
        BY <4>1, <4>3, <4>4, <4>5
    <3> QED
      BY <3>1, <3>2
  <2>3. batch' \in Seq(BatchRow) /\ batch \in Seq(BatchRow)
    BY DEF TypeInv, TablesOK
  <2>4. ASSUME NEW p \in Products
        PROVE  WorthOf(batch', p) >= 0
    <3>1. WorthOf(batch, p) <= WorthOf(batch', p)
      BY <2>1, <2>3, AddedLots
    <3>2. WorthOf(batch, p) >= 0
      BY DEF Short
    <3>3. WorthOf(batch, p) \in Int /\ WorthOf(batch', p) \in Int
      BY <2>3, LotsTyped
    <3> QED
      BY <3>1, <3>2, <3>3
  <2>5. Affords(q, batch', moved')
    BY <2>1, AffordsNothing
  <2> QED
    BY <1>1, <2>4, <2>5 DEF Short
<1>3. CASE ~Writing(r, q)
  <2>0. UNCHANGED <<batch, moved>>
    BY <1>1, <1>3 DEF Reading
  <2>1. CASE UpdateStarts(q) \/ PayStarts(q) \/ CancelStarts(q) \/ RestoreStarts(q)
    <3>1. q.pc \in {"select", "load", "give"}
      BY <2>1 DEF UpdateStarts, PayStarts, CancelStarts, RestoreStarts
    <3>2. Affords(q, batch, moved')
      BY <3>1, AffordsNothing
    <3> QED
      BY <1>1, <2>0, <3>2, ShortStill
  <2>2. CASE FindStarts(q)
    <3>1. q.op \in {"adjust", "backfill"} /\ q.pc = "find" /\ (q.op = "adjust" => Affordable(q.product, q.qty))
      BY <2>2 DEF FindStarts
    <3>2. ASSUME q.op = "adjust"
          PROVE  Covered(q, batch, moved, q.product, -q.qty)
      <4>1. q.product \in Products /\ q.qty \in Int
        BY <1>h, <3>2, InputsTyped DEF Holding, HoldsProduct
      <4> PICK d \in Int : d = q.qty
        BY <4>1
      <4> PICK c \in Int : c = CurrentStock(q.product)
        BY <4>1, StockTyped
      <4>2. c + d >= 0
        BY <3>1, <3>2 DEF Affordable
      <4>3. c >= -d /\ -d \in Int
        BY <4>2
      <4> QED
        BY <3>1, <4>1, <4>3, CurrentStockCovers
    <3>3. Affords(q, batch, moved)
      BY <3>1, <3>2 DEF Affords, Need
    <3> QED
      BY <1>1, <2>0, <3>3, ShortStill
  <2>3. CASE ConsumeStarts(q)
    <3>1. q.op = "consume" /\ q.pc \in {"find", "plan"} /\ CurrentStock(q.product) >= q.qty
      BY <2>3 DEF ConsumeStarts
    <3>2. q.product \in Products /\ q.qty \in Int
      BY <1>h, <3>1 DEF Holding, HoldsProduct, HoldsPlan
    <3>3. Covered(q, batch, moved, q.product, q.qty)
      BY <3>1, <3>2, CurrentStockCovers
    <3>4. Affords(q, batch, moved)
      BY <3>1, <3>3 DEF Affords, Need
    <3> QED
      BY <1>1, <2>0, <3>4, ShortStill
  <2> QED
    BY <1>1, <1>3, <2>1, <2>2, <2>3
<1> QED
  BY <1>2, <1>3

\* The LEGACY batch is looked up, or what it is to hold.
LEMMA FindShort ==
    ASSUME TypeInv, NEW r \in Requests, FindLegacy(r), Short(batch, moved, req[r])
    PROVE  \E q : req' = [req EXCEPT ![r] = q] /\ Short(batch', moved', q)
<1> PICK p : p = req[r]
  OBVIOUS
<1>1. p.pc = "find" /\ UNCHANGED <<batch, moved>> /\ p.op \in {"adjust", "consume", "backfill"}
  BY FindIs DEF Reading
<1>2. PICK q : /\ Becomes(r, q)
               /\ \/ q = Idle
                  \/ /\ q.pc = "insert" /\ q.op = p.op /\ q.qty = p.qty
                     /\ q.product = p.product /\ LegacyOf(q.product) = {}
                     /\ q.moving = Max({0, Ledger(q.product)})
                  \/ \E b \in LegacyOf(p.product) :
                       PastLegacy(q, p, b, batch[b].avail, batch[b].initial)
                  \/ /\ p.op # "adjust" /\ LegacyOf(p.product) = {}
                     /\ PastLegacy(q, p, 0, p.avail, p.initial)
  BY FindIs
<1>h. Holding(p, Len(batch), Len(allocs))
  BY RowsTyped
<1>p. p.product \in Products
  BY <1>1, <1>h DEF Holding, HoldsProduct
<1> PICK x : x = p.product
  OBVIOUS
<1> PICK n \in Int : n = Need(p)
  BY <1>h DEF Need, Holding, Request
<1>c. p.op \in {"adjust", "consume"} =>
        \/ StockOf(batch, x) >= n
        \/ NoLegacy(batch, x) /\ TallyOf(batch, moved, x) >= n
  BY <1>1 DEF Short, Affords, Covered
<1>l. NoLegacy(batch, x) <=> LegacyOf(x) = {}
  BY DEF NoLegacy, LegacyOf, BatchesOf
<1>3. Affords(q, batch, moved)
  <2>1. CASE q = Idle
    BY <2>1, IdleTyped, AffordsNothing
  <2>2. CASE /\ q.pc = "insert" /\ q.op = p.op /\ q.qty = p.qty
             /\ q.product = p.product /\ LegacyOf(q.product) = {}
             /\ q.moving = Max({0, Ledger(q.product)})
    <3>1. Need(q) = n /\ q.product = x
      BY <2>2 DEF Need
    <3> PICK t \in Int : t = Ledger(x) /\ t = TallyOf(batch, moved, x)
      BY <1>p, StockSums
    <3>2. q.moving >= t /\ q.moving \in Int
      <4>1. q.moving = IF t > 0 THEN t ELSE 0
        BY <2>2, <3>1, MaxOfZero
      <4> QED
        BY <4>1
    <3>3. t >= n => q.moving >= n
      BY <3>2
    <3>4. p.op \in {"adjust", "consume"} => Covered(q, batch, moved, x, n)
      BY <1>c, <2>2, <3>3 DEF Covered
    <3> QED
      BY <2>2, <3>1, <3>4 DEF Affords
  <2>3. ASSUME NEW b \in LegacyOf(p.product), PastLegacy(q, p, b, batch[b].avail, batch[b].initial)
        PROVE  Affords(q, batch, moved)
    <3>1. batch[b].product = x /\ ~NoLegacy(batch, x)
      BY <1>l DEF LegacyOf, BatchesOf
    <3>2. p.op \in {"adjust", "consume"} => StockOf(batch, x) >= n
      BY <1>c, <3>1
    <3>3. CASE q = Idle
      BY <3>3, IdleTyped, AffordsNothing
    <3>4. CASE /\ p.op = "adjust" /\ q.op = "adjust" /\ q.pc = "adjust" /\ q.qty = p.qty
               /\ q.ent = b
      BY <3>1, <3>2, <3>4 DEF Affords, Need
    <3>5. CASE /\ p.op = "consume" /\ q.op = "consume" /\ q.pc = "plan" /\ q.qty = p.qty
               /\ q.product = p.product
      BY <3>2, <3>5 DEF Affords, Need, Covered
    <3>6. CASE q.op = "backfill" /\ q.pc = "find"
      BY <3>6 DEF Affords
    <3> QED
      BY <2>3, <3>3, <3>4, <3>5, <3>6 DEF PastLegacy
  <2>4. CASE /\ p.op # "adjust" /\ LegacyOf(p.product) = {}
             /\ PastLegacy(q, p, 0, p.avail, p.initial)
    <3>3. CASE q = Idle
      BY <3>3, IdleTyped, AffordsNothing
    <3>5. CASE /\ p.op = "consume" /\ q.op = "consume" /\ q.pc = "plan" /\ q.qty = p.qty
               /\ q.product = p.product
      BY <1>l, <2>4, <3>5 DEF Affords, Need, Covered
    <3>6. CASE q.op = "backfill" /\ q.pc = "find"
      BY <3>6 DEF Affords
    <3> QED
      BY <2>4, <3>3, <3>5, <3>6 DEF PastLegacy
  <2> QED
    BY <1>2, <2>1, <2>2, <2>3, <2>4
<1> QED
  BY <1>1, <1>2, <1>3, ShortStill DEF Becomes

\* It is inserted with what the movements add up to.
LEMMA InsertShort ==
    ASSUME TypeInv, TypeInv', LotsInv, NEW r \in Requests, InsertLegacy(r), Short(batch, moved, req[r])
    PROVE  \E q : req' = [req EXCEPT ![r] = q] /\ Short(batch', moved', q)
<1> PICK p : p = req[r]
  OBVIOUS
<1> PICK m \in Nat : m = p.moving
  BY InsertIs
<1> PICK e : e = Len(batch) + 1
  OBVIOUS
<1> PICK x : x = p.product
  OBVIOUS
<1>1. PICK q : Becomes(r, q) /\ PastLegacy(q, p, e, m, m)
  BY InsertIs
<1>2. /\ MoreLegacy(x) /\ p.pc = "insert" /\ x \in Products /\ p.op \in {"adjust", "consume", "backfill"}
      /\ batch'[e] = NewBatch(x, "none", TRUE, FALSE, m)
  BY LegacyAdded, InsertIs
<1>3. /\ DOMAIN batch' = DOMAIN batch \cup {e} /\ e \notin DOMAIN batch
      /\ \A b \in DOMAIN batch : batch'[b] = batch[b]
  BY <1>2 DEF MoreLegacy
<1>4. batch'[e].avail = m /\ batch'[e].product = x /\ batch'[e].status # "BLOCKED"
  BY <1>2 DEF NewBatch
<1>5. batch' \in Seq(BatchRow) /\ batch \in Seq(BatchRow)
  BY DEF TypeInv, TablesOK
<1>6. ASSUME NEW y
      PROVE  /\ StockOf(batch, y) <= StockOf(batch', y) /\ WorthOf(batch, y) <= WorthOf(batch', y)
             /\ y = x => StockOf(batch, y) + m <= StockOf(batch', y)
  <2>1. \A b \in DOMAIN batch' \ DOMAIN batch : b = e
    BY <1>3
  <2>2. \A b \in DOMAIN batch' \ DOMAIN batch : batch'[b].status # "BLOCKED" /\ batch'[b].avail >= 0
    BY <1>4, <2>1
  <2>3. e \in DOMAIN batch' \ DOMAIN batch
    BY <1>3
  <2> QED
    BY <1>3, <1>4, <1>5, <2>2, <2>3, AddedLots
<1>7. ASSUME NEW y \in Products
      PROVE  WorthOf(batch', y) >= 0
  <2>1. WorthOf(batch, y) \in Int /\ WorthOf(batch', y) \in Int
    BY <1>5, LotsTyped
  <2>2. WorthOf(batch, y) >= 0
    BY DEF Short
  <2> QED
    BY <1>6, <2>1, <2>2
<1>h. Holding(p, Len(batch), Len(allocs))
  BY RowsTyped
<1> PICK n \in Int : n = Need(p)
  BY <1>h, SMTT(40) DEF Need, Holding, Request
<1>8. p.op \in {"adjust", "consume"} => StockOf(batch', x) >= n
  <2> SUFFICES ASSUME p.op \in {"adjust", "consume"}
               PROVE  StockOf(batch', x) >= n
    OBVIOUS
  <2> PICK s \in Int, t \in Int : s = StockOf(batch, x) /\ t = StockOf(batch', x)
    BY <1>5, LotsTyped
  <2>1. s >= n \/ (NoLegacy(batch, x) /\ m >= n)
    BY <1>2 DEF Short, Affords, Covered
  <2>2. s + m <= t
    BY <1>6
  <2>3. NoLegacy(batch, x) => s >= 0
    BY <1>2, FirmStock
  <2> QED
    BY <2>1, <2>2, <2>3
<1>9. Affords(q, batch', moved')
  <2>3. CASE q = Idle
    BY <2>3, IdleTyped, AffordsNothing
  <2>4. CASE /\ p.op = "adjust" /\ q.op = "adjust" /\ q.pc = "adjust" /\ q.qty = p.qty /\ q.ent = e
    BY <1>4, <1>8, <2>4 DEF Affords, Need
  <2>5. CASE /\ p.op = "consume" /\ q.op = "consume" /\ q.pc = "plan" /\ q.qty = p.qty
             /\ q.product = p.product
    BY <1>8, <2>5 DEF Affords, Need, Covered
  <2>6. CASE q.op = "backfill" /\ q.pc = "find"
    BY <2>6 DEF Affords
  <2> QED
    BY <1>1, <2>3, <2>4, <2>5, <2>6 DEF PastLegacy
<1> QED
  BY <1>1, <1>7, <1>9 DEF Becomes, Short

\* An adjustment takes from the LEGACY batch no more than all batches of the product hold.
LEMMA AdjustShort ==
    ASSUME TypeInv, LotsInv, NEW r \in Requests, AdjustBatch(r), FreshSlot(req[r], batch),
           Origins(batch, moved, req[r]), Short(batch, moved, req[r])
    PROVE  \E q : req' = [req EXCEPT ![r] = q] /\ Short(batch', moved', q)
<1> PICK p : p = req[r]
  OBVIOUS
<1>1. p.pc = "adjust" /\ p.ent \in DOMAIN batch /\ p.qty \in Deltas
  BY AdjustIs
<1> PICK e \in DOMAIN batch : e = p.ent
  BY <1>1
<1> PICK d \in Int : d = p.qty
  BY <1>1, InputsTyped
<1>2. PICK row \in BatchRow : /\ batch' = [batch EXCEPT ![e] = row] /\ row.avail = p.avail + d
                              /\ row.product = batch[e].product /\ row.status = StatusFor(row.avail)
  BY AdjustIs
<1>3. PICK q : Becomes(r, q) /\ q.pc = "move"
  BY AdjustIs
<1>4. p.avail = batch[e].avail
  BY <1>1 DEF FreshSlot, ReadsLegacy
<1>r. p \in Request
  BY RowsTyped
<1>5. batch[e].status # "BLOCKED" /\ row.status # "BLOCKED"
  <2>1. batch[e].legacy /\ batch[e].purchase = "none"
    BY <1>1 DEF LotsInv, GoodSlot, GoodRow
  <2> QED
    BY <1>2, <1>r, <2>1, BlockedCounts DEF StatusFor
<1>6. /\ batch' \in Seq(BatchRow) /\ batch \in Seq(BatchRow) /\ DOMAIN batch' = DOMAIN batch
      /\ batch'[e] = row /\ \A b \in DOMAIN batch : b # e => batch'[b] = batch[b]
  BY <1>2, ReplacesBatch DEF TypeInv, TablesOK
<1>7. ASSUME NEW y \in Products
      PROVE  WorthOf(batch', y) >= 0
  <2> PICK a \in Int : a = batch[e].avail
    BY NumbersTyped
  <2> PICK s \in Int, w \in Int : s = StockOf(batch, y) /\ w = WorthOf(batch, y)
    BY <1>6, LotsTyped
  <2> PICK s1 \in Int, w1 \in Int : s1 = StockOf(batch', y) /\ w1 = WorthOf(batch', y)
    BY <1>6, LotsTyped
  <2>0. /\ row.product = y => StockOf(batch', y) = StockOf(batch, y) + (row.avail - batch[e].avail)
        /\ row.product # y => WorthOf(batch', y) = WorthOf(batch, y)
    <3>1. batch' = [batch EXCEPT ![e] = row] /\ row.product = batch[e].product
      BY <1>2
    <3>2. /\ row.product = y =>
               /\ StockOf(batch', y) = StockOf(batch, y) + (row.avail - batch[e].avail)
               /\ WorthOf(batch', y) = WorthOf(batch, y) + (row.avail - batch[e].avail)
          /\ row.product # y =>
               StockOf(batch', y) = StockOf(batch, y) /\ WorthOf(batch', y) = WorthOf(batch, y)
      BY <1>5, <3>1, OneLot, ZenonT(20)
    <3> QED
      BY <3>2
  <2>1. /\ row.product = y => s1 = s + (row.avail - batch[e].avail)
        /\ row.product # y => w1 = w
    BY <2>0
  <2>2. w >= 0
    BY DEF Short
  <2>3. CASE row.product = y
    <3>1. s >= -d
      BY <1>1, <1>2, <2>3 DEF Short, Affords
    <3>2. s1 = s + d
      BY <1>2, <1>4, <2>1, <2>3
    <3>3. \A b \in DOMAIN batch' : batch'[b].status = "BLOCKED" => batch'[b].initial >= 0
      BY <1>5, <1>6, <1>r, BlockedCounts
    <3>4. s1 <= w1
      BY <1>6, <3>3, WorthMore
    <3> QED
      BY <3>1, <3>2, <3>4
  <2>4. CASE row.product # y
    BY <2>1, <2>2, <2>4
  <2> QED
    BY <2>3, <2>4
<1>8. Affords(q, batch', moved')
  BY <1>3, AffordsNothing
<1> QED
  BY <1>3, <1>7, <1>8 DEF Becomes, Short

\* The candidates hold enough.
LEMMA ReadShort ==
    ASSUME TypeInv, RoomInv, LotsInv, NEW r \in Requests, ReadCandidates(r), Short(batch, moved, req[r])
    PROVE  \E q : req' = [req EXCEPT ![r] = q] /\ Short(batch', moved', q)
<1> PICK p : p = req[r]
  OBVIOUS
<1>1. p.pc = "plan" /\ p.op = "consume" /\ UNCHANGED <<batch, moved>> /\ DOMAIN batch \subseteq BatchIds
  BY ReadIs, RoomFits DEF Reading
<1>2. CASE Becomes(r, Idle)
  BY <1>1, <1>2, IdleTyped, AffordsNothing, ShortStill DEF Becomes
<1>3. ASSUME NEW q, Becomes(r, q), q.pc = "take", q.op = "consume", q.qty = p.qty,
             ~(Units(Usable(p.product)) < q.qty),
             \A c \in BatchIds : q.plan[c] > 0 => c \in Usable(p.product)
      PROVE  Short(batch', moved', q)
  <2> PICK x : x = p.product
    OBVIOUS
  <2>h. Holding(p, Len(batch), Len(allocs))
    BY RowsTyped
  <2>1. x \in Products /\ p.qty \in Nat
    BY <1>1, <2>h DEF Holding, HoldsProduct, HoldsPlan
  <2> PICK n \in Nat : n = p.qty
    BY <2>1
  <2> PICK s \in Int : s = StockOf(batch, x)
    BY <2>1, StockSums
  <2>2. s >= n \/ NoLegacy(batch, x)
    BY <1>1 DEF Short, Affords, Covered, Need
  <2>3. Usable(x) \in SUBSET DOMAIN batch /\ \A c \in Usable(x) : batch[c].product = x
    BY DEF Usable, OnSale, BatchesOf
  <2> PICK t \in Int : t = Units(Usable(x))
    BY <2>3, StockTyped
  <2>4. NoLegacy(batch, x) => t <= s
    BY <2>1, FirmStock
  <2>5. s >= n
    BY <1>3, <2>2, <2>4
  <2>6. \A c \in BatchIds : q.plan[c] > 0 => batch[c].product = x
    BY <1>3, <2>3
  <2>7. Affords(q, batch, moved)
    BY <1>3, <2>1, <2>5, <2>6 DEF Affords
  <2> QED
    BY <1>1, <2>7, ShortStill
<1> QED
  BY <1>1, <1>2, <1>3, ReadIs DEF Becomes

\* They give it.
LEMMA TakeShort ==
    ASSUME TypeInv, LotsInv, NEW r \in Requests, TakeBatch(r), FreshSlot(req[r], batch),
           Origins(batch, moved, req[r]), Short(batch, moved, req[r])
    PROVE  \E q : req' = [req EXCEPT ![r] = q] /\ Short(batch', moved', q)
<1> PICK p : p = req[r]
  OBVIOUS
<1>0. p.pc = "take" /\ p.op = "consume" /\ UNCHANGED moved
  BY TakeIs
<1>1. PICK e \in DOMAIN batch, n \in Nat \ {0}, row \in BatchRow : \E q : Takes(r, e, n, row, q)
  BY TakeIs
<1>2. PICK q : Takes(r, e, n, row, q)
  BY <1>1
<1>3. /\ e \in BatchIds /\ p.plan[e] > 0 /\ n <= p.qty /\ batch' = [batch EXCEPT ![e] = row]
      /\ row.product = batch[e].product /\ row.avail = p.plan[e] - n /\ row.status # "BLOCKED"
      /\ Becomes(r, q) /\ q.pc = "alloc" /\ q.qty = p.qty - n
      /\ \A c \in BatchIds : q.plan[c] = IF c = e THEN 0 ELSE p.plan[c]
  BY <1>2 DEF Takes, StatusFor
<1>4. p.plan[e] = batch[e].avail /\ batch[e].status = "ACTIVE"
  BY <1>0, <1>3 DEF FreshSlot, ReadsPlan
<1>h. Holding(p, Len(batch), Len(allocs))
  BY RowsTyped
<1> PICK m \in Nat : m = p.qty
  BY <1>0, <1>h DEF Holding, HoldsPlan
<1>5. PICK x \in Products : /\ StockOf(batch, x) >= m
                            /\ \A c \in BatchIds : p.plan[c] > 0 => batch[c].product = x
  BY <1>0 DEF Short, Affords
<1>6. /\ batch' \in Seq(BatchRow) /\ batch \in Seq(BatchRow) /\ DOMAIN batch' = DOMAIN batch
      /\ batch'[e] = row /\ \A b \in DOMAIN batch : b # e => batch'[b] = batch[b]
  BY <1>3, ReplacesBatch DEF TypeInv, TablesOK
<1>7. row.product = x
  BY <1>3, <1>5
<1>8. ASSUME NEW y
      PROVE  /\ x = y => StockOf(batch', y) = StockOf(batch, y) + (-n)
             /\ x # y => WorthOf(batch', y) = WorthOf(batch, y)
  <2> PICK a \in Int : a = batch[e].avail
    BY NumbersTyped
  <2>1. row.avail - batch[e].avail = -n
    BY <1>3, <1>4
  <2>2. /\ row.product = y => StockOf(batch', y) = StockOf(batch, y) + (row.avail - batch[e].avail)
        /\ row.product # y => WorthOf(batch', y) = WorthOf(batch, y)
    BY <1>3, <1>4, OneLot
  <2> QED
    BY <1>7, <2>1, <2>2
<1>9. StockOf(batch', x) >= q.qty /\ StockOf(batch', x) >= 0
  <2> PICK s \in Int, s1 \in Int : s = StockOf(batch, x) /\ s1 = StockOf(batch', x)
    BY <1>6, LotsTyped
  <2>1. s1 = s + (-n)
    BY <1>8
  <2>2. s >= m /\ q.qty = m - n /\ n <= m
    BY <1>3, <1>5
  <2> QED
    BY <2>1, <2>2
<1>10. ASSUME NEW y \in Products
       PROVE  WorthOf(batch', y) >= 0
  <2> PICK w \in Int, w1 \in Int : w = WorthOf(batch, y) /\ w1 = WorthOf(batch', y)
    BY <1>6, LotsTyped
  <2>1. CASE x = y
    <3> PICK s1 \in Int : s1 = StockOf(batch', y)
      BY <1>6, LotsTyped
    <3>r. p \in Request
      BY RowsTyped
    <3>1. \A b \in DOMAIN batch' : batch'[b].status = "BLOCKED" => batch'[b].initial >= 0
      BY <1>3, <1>6, <3>r, BlockedCounts
    <3>2. s1 <= w1
      BY <1>6, <3>1, WorthMore
    <3>3. s1 >= 0
      BY <1>9, <2>1
    <3> QED
      BY <3>2, <3>3
  <2>2. CASE x # y
    <3>1. w1 = w
      BY <1>8, <2>2
    <3>2. w >= 0
      BY DEF Short
    <3> QED
      BY <3>1, <3>2
  <2> QED
    BY <2>1, <2>2
<1>11. \A c \in BatchIds : q.plan[c] > 0 => batch'[c].product = x
  <2> SUFFICES ASSUME NEW c \in BatchIds, q.plan[c] > 0
               PROVE  batch'[c].product = x
    OBVIOUS
  <2>1. c # e /\ p.plan[c] > 0
    BY <1>3
  <2>2. c \in DOMAIN batch
    BY <1>0, <1>h, <2>1, RowsTyped DEF Holding, HoldsPlan
  <2> QED
    BY <1>5, <1>6, <2>1, <2>2
<1>12. Affords(q, batch', moved')
  BY <1>3, <1>9, <1>11 DEF Affords
<1> QED
  BY <1>3, <1>10, <1>12 DEF Becomes, Short

\* Units come back to a batch that no cancellation took.
LEMMA GiveShort ==
    ASSUME TypeInv, LotsInv, NEW r \in Requests, GiveBack(r), FreshSlot(req[r], batch),
           Settled(purchase, batch, allocs, req[r]), Origins(batch, moved, req[r]),
           Short(batch, moved, req[r])
    PROVE  \E q : req' = [req EXCEPT ![r] = q] /\ Short(batch', moved', q)
<1> PICK p : p = req[r]
  OBVIOUS
<1>1. /\ p.pc = "give" /\ p.op = "restore" /\ p.ent \in DOMAIN batch /\ p.alloc \in DOMAIN allocs
      /\ p.moving \in Nat \ {0}
  BY GiveIs
<1> PICK e \in DOMAIN batch : e = p.ent
  BY <1>1
<1> PICK n \in Nat \ {0} : n = p.moving
  BY <1>1
<1>2. PICK row \in BatchRow :
        /\ batch' = [batch EXCEPT ![e] = row] /\ row.product = batch[e].product
        /\ row.avail = p.avail /\ row.status = "ACTIVE"
  BY GiveIs
<1>3. PICK q : Becomes(r, q) /\ q.pc = "mark"
  BY GiveIs
<1>4. p.avail = batch[e].avail + n
  BY <1>1 DEF FreshSlot, ReadsUnits
<1>5. batch[e].status # "BLOCKED"
  <2>1. p \in Request
    BY RowsTyped
  <2>2. batch[e].status = "BLOCKED" => batch[e].purchase # "none"
    BY <2>1, BlockedCounts
  <2>3. ~allocs[p.alloc].restored /\ allocs[p.alloc].batch = e
    BY <1>1 DEF Settled, Draws
  <2>4. batch[e].purchase # "none" => SettledLot(e, batch[e], allocs, p)
    BY DEF Settled
  <2> QED
    BY <1>1, <2>2, <2>3, <2>4 DEF SettledLot
<1>6. batch' \in Seq(BatchRow) /\ batch \in Seq(BatchRow)
  BY <1>2, ReplacesBatch DEF TypeInv, TablesOK
<1>7. ASSUME NEW y \in Products
      PROVE  WorthOf(batch', y) >= 0
  <2> PICK a \in Int : a = batch[e].avail
    BY NumbersTyped
  <2> PICK w \in Int, w1 \in Int : w = WorthOf(batch, y) /\ w1 = WorthOf(batch', y)
    BY <1>6, LotsTyped
  <2>1. /\ row.product = y => w1 = w + (row.avail - batch[e].avail)
        /\ row.product # y => w1 = w
    <3>1. batch' = [batch EXCEPT ![e] = row] /\ row.product = batch[e].product
      BY <1>2
    <3>2. row.status # "BLOCKED"
      BY <1>2
    <3>3. /\ row.product = y =>
               WorthOf(batch', y) = WorthOf(batch, y) + (row.avail - batch[e].avail)
          /\ row.product # y => WorthOf(batch', y) = WorthOf(batch, y)
      BY <1>5, <3>1, <3>2, OneLot, ZenonT(40)
    <3> QED
      BY <3>3
  <2>2. row.avail - batch[e].avail = n
    BY <1>2, <1>4
  <2>3. w >= 0
    BY DEF Short
  <2> QED
    BY <2>1, <2>2, <2>3
<1>8. Affords(q, batch', moved')
  BY <1>3, AffordsNothing
<1> QED
  BY <1>3, <1>7, <1>8 DEF Becomes, Short

\* A cancellation takes no more than its lots were created with.
LEMMA CommitShort ==
    ASSUME TypeInv, TypeInv', LotsInv, NEW r \in Requests, CommitCancel(r),
           Settled(purchase, batch, allocs, req[r]), Origins(batch, moved, req[r]),
           Short(batch, moved, req[r])
    PROVE  req' = [req EXCEPT ![r] = Idle] /\ Short(batch', moved', Idle)
<1> PICK p : p = req[r]
  OBVIOUS
<1>1. p.pc = "block" /\ p.purchase \in Purchases /\ Becomes(r, Idle)
  BY CommitIs
<1>i. Affords(Idle, batch', moved')
  BY IdleTyped, AffordsNothing
<1>2. CASE Reading
  BY <1>1, <1>2, <1>i, IdleTyped, AffordsNothing, ShortStill DEF Reading, Becomes
<1>3. ASSUME batch' = [b \in DOMAIN batch |->
                         IF b \in BoughtWith(p.purchase) THEN Blocked(batch[b]) ELSE batch[b]]
      PROVE  Short(batch', moved', Idle)
  <2>1. DOMAIN batch' = DOMAIN batch /\ p.purchase # "none"
    BY <1>1, <1>3, StockroomAssumption
  <2>2. batch' \in Seq(BatchRow) /\ batch \in Seq(BatchRow)
    BY DEF TypeInv, TablesOK
  <2>3. ASSUME NEW y, NEW b \in DOMAIN batch
        PROVE  Worth(batch[b], y) <= Worth(batch'[b], y)
    <3>1. batch[b] \in BatchRow
      BY RowsTyped
    <3>2. Worth(batch[b], y) \in Int
      BY <2>2, LotsTyped
    <3>3. CASE batch[b].purchase = p.purchase /\ batch[b].product = y
      <4> PICK a \in Int, i \in Int : a = batch[b].avail /\ i = batch[b].initial
        BY NumbersTyped
      <4>1. batch'[b] = Blocked(batch[b])
        BY <1>3, <3>3 DEF BoughtWith
      <4>2. /\ batch'[b].avail = 0 /\ batch'[b].status = "BLOCKED" /\ batch'[b].product = y
            /\ batch'[b].initial = i
        BY <3>1, <3>3, <4>1, BlockedTyped
      <4>3. Worth(batch'[b], y) = 0 + i
        BY <4>2 DEF Worth, InStock, Lost
      <4>4. SettledLot(b, batch[b], allocs, p)
        BY <2>1, <3>3 DEF Settled
      <4>5. CASE batch[b].status = "BLOCKED"
        <5>1. a = 0
          BY <4>4, <4>5 DEF SettledLot
        <5>2. Worth(batch[b], y) = a + i
          BY <3>3, <4>5 DEF Worth, InStock, Lost
        <5> QED
          BY <4>3, <5>1, <5>2
      <4>6. CASE batch[b].status # "BLOCKED"
        <5> PICK h \in Nat : h = HeldOf(allocs, b)
          BY HeldTyped DEF TypeInv, TablesOK
        <5>1. InHand(p, b) = 0
          BY <1>1, EmptyHands
        <5>2. a + h + 0 = i
          BY <4>4, <4>6, <5>1 DEF SettledLot
        <5>3. Worth(batch[b], y) = a + 0
          BY <3>3, <4>6 DEF Worth, InStock, Lost
        <5> QED
          BY <4>3, <5>2, <5>3
      <4> QED
        BY <4>5, <4>6
    <3>4. CASE batch[b].purchase # p.purchase
      <4>1. batch'[b] = batch[b]
        BY <1>3, <3>4 DEF BoughtWith
      <4> QED
        BY <3>2, <4>1
    <3>5. CASE batch[b].purchase = p.purchase /\ batch[b].product # y
      <4>1. batch'[b] = Blocked(batch[b])
        BY <1>3, <3>5 DEF BoughtWith
      <4>2. batch'[b].product # y
        BY <3>1, <3>5, <4>1, BlockedTyped
      <4>3. Worth(batch[b], y) = 0 + 0 /\ Worth(batch'[b], y) = 0 + 0
        BY <3>5, <4>2 DEF Worth, InStock, Lost
      <4> QED
        BY <4>3
    <3> QED
      BY <3>3, <3>4, <3>5
  <2>4. ASSUME NEW y \in Products
        PROVE  WorthOf(batch', y) >= 0
    <3> DEFINE S == DOMAIN batch
               worth == [b \in S |-> Worth(batch[b], y)]
               worth1 == [b \in S |-> Worth(batch'[b], y)]
    <3>1. WorthOf(batch, y) = SumOf(worth, S) /\ WorthOf(batch', y) = SumOf(worth1, S)
      BY <2>1 DEF WorthOf
    <3>2. IsFiniteSet(S) /\ \A b \in S : worth[b] \in Int /\ worth1[b] \in Int
      BY <2>1, <2>2, LotsTyped
    <3>3. \A b \in S : worth[b] <= worth1[b]
      BY <2>3
    <3>4. WorthOf(batch, y) \in Int /\ WorthOf(batch', y) \in Int
      BY <2>2, LotsTyped
    <3>5. WorthOf(batch, y) >= 0
      BY DEF Short
    <3> HIDE DEF S, worth, worth1
    <3>6. SumOf(worth, S) <= SumOf(worth1, S)
      BY <3>2, <3>3, SumLess
    <3> QED
      BY <3>1, <3>4, <3>5, <3>6
  <2> QED
    BY <1>i, <2>4 DEF Short
<1> QED
  BY <1>1, <1>2, <1>3, CommitIs DEF Becomes

\* The statements.
LEMMA RunShort ==
    ASSUME TypeInv, TypeInv', RoomInv, LotsInv, NEW r \in Requests, Run(r), FreshSlot(req[r], batch),
           Settled(purchase, batch, allocs, req[r]), Origins(batch, moved, req[r]),
           Short(batch, moved, req[r])
    PROVE  \E q : req' = [req EXCEPT ![r] = q] /\ Short(batch', moved', q)
<1> DEFINE Goal == \E q : req' = [req EXCEPT ![r] = q] /\ Short(batch', moved', q)
<1> PICK p : p = req[r]
  OBVIOUS
<1>o. Short(batch, moved, p)
  OBVIOUS
<1>s. ASSUME NEW q, Becomes(r, q), UNCHANGED batch,
             q.pc \notin {"find", "insert", "plan", "adjust", "take", "alloc"}
      PROVE  Goal
  <2>1. Affords(q, batch, moved')
    BY <1>s, AffordsNothing
  <2>2. Short(batch', moved', q)
    BY <1>o, <1>s, <2>1, ShortStill
  <2> QED
    BY <1>s, <2>2 DEF Becomes
<1>i. ASSUME Becomes(r, Idle), UNCHANGED batch
      PROVE  Goal
  BY <1>i, <1>s, IdleTyped
<1>1. CASE SelectPurchase(r)
  <2>1. UNCHANGED batch /\ (Becomes(r, Idle) \/ \E q : Becomes(r, q) /\ q.pc = "write")
    BY <1>1, SelectIs DEF Reading
  <2> QED
    BY <1>i, <1>s, <2>1
<1>2. CASE WritePurchase(r)
  <2>1. UNCHANGED batch /\ (Becomes(r, Idle) \/ \E q : Becomes(r, q) /\ q.pc = "receipt")
    BY <1>2, WriteIs
  <2> QED
    BY <1>i, <1>s, <2>1
<1>3. CASE InsertPayment(r)
  BY <1>3, <1>i, ReceiptIs
<1>4. CASE LoadBatches(r)
  <2>1. UNCHANGED batch /\ \E q : Becomes(r, q) /\ q.pc = "block"
    BY <1>4, LoadIs DEF Reading
  <2> QED
    BY <1>s, <2>1
<1>5. CASE CommitCancel(r)
  BY <1>5, CommitShort
<1>6. CASE FindLegacy(r)
  BY <1>6, FindShort
<1>7. CASE InsertLegacy(r)
  BY <1>7, InsertShort
<1>8. CASE AdjustBatch(r)
  BY <1>8, AdjustShort
<1>9. CASE InsertMovement(r)
  BY <1>9, <1>i, MoveIs
<1>10. CASE ReadCandidates(r)
  BY <1>10, ReadShort
<1>11. CASE TakeBatch(r)
  BY <1>11, TakeShort
<1>12. CASE InsertAllocation(r)
  <2>1. /\ p.pc = "alloc" /\ UNCHANGED batch
        /\ \/ Becomes(r, Idle)
           \/ \E q : Becomes(r, q) /\ q.pc = "take" /\ q.qty = p.qty /\ q.plan = p.plan
    BY <1>12, AllocIs
  <2>2. ASSUME NEW q, Becomes(r, q), q.pc = "take", q.qty = p.qty, q.plan = p.plan
        PROVE  Goal
    <3>1. Affords(q, batch, moved')
      BY <1>o, <2>1, <2>2 DEF Short, Affords
    <3>2. Short(batch', moved', q)
      BY <1>o, <2>1, <3>1, ShortStill
    <3> QED
      BY <2>2, <3>2 DEF Becomes
  <2> QED
    BY <1>i, <2>1, <2>2
<1>13. CASE GiveBack(r)
  BY <1>13, GiveShort
<1>14. CASE MarkRestored(r)
  BY <1>14, <1>i, MarkIs
<1> QED
  BY <1>1, <1>2, <1>3, <1>4, <1>5, <1>6, <1>7, <1>8, <1>9, <1>10, <1>11, <1>12, <1>13, <1>14 DEF Run

\* A day that passes takes no units.
LEMMA ExpireShort ==
    ASSUME TypeInv, NEW b \in DOMAIN batch, Expire(b), NEW q, Holding(q, Len(batch), Len(allocs)),
           Short(batch, moved, q)
    PROVE  Short(batch', moved', q)
<1>1. /\ DOMAIN batch' = DOMAIN batch /\ UNCHANGED moved
      /\ \A c \in DOMAIN batch :
           /\ batch'[c].avail = batch[c].avail /\ batch'[c].status = batch[c].status
           /\ batch'[c].initial = batch[c].initial
           /\ batch'[c].product = batch[c].product /\ batch'[c].legacy = batch[c].legacy
  BY ExpireIs, ExpireKeeps DEF SameBatches, Expire
<1>2. \A p : StockOf(batch', p) = StockOf(batch, p) /\ WorthOf(batch', p) = WorthOf(batch, p)
  BY <1>1, SameStock
<1>3. ASSUME NEW p
      PROVE  NoLegacy(batch', p) <=> NoLegacy(batch, p)
  BY <1>1 DEF NoLegacy
<1>4. ASSUME NEW p
      PROVE  TallyOf(batch', moved', p) = TallyOf(batch, moved, p)
  <2>1. \A c \in DOMAIN batch : Tally(batch'[c], moved'[c], p) = Tally(batch[c], moved[c], p)
    BY <1>1 DEF Tally
  <2>2. [c \in DOMAIN batch' |-> Tally(batch'[c], moved'[c], p)]
        = [c \in DOMAIN batch |-> Tally(batch[c], moved[c], p)]
    BY <1>1, <2>1
  <2> QED
    BY <1>1, <2>2 DEF TallyOf
<1>5. \A p, n : Covered(q, batch, moved, p, n) => Covered(q, batch', moved', p, n)
  BY <1>2, <1>3, <1>4 DEF Covered
<1>6. q.pc = "adjust" => q.ent \in DOMAIN batch
  BY RowsTyped DEF Holding, HoldsBatch
<1>7. q.pc \in {"take", "alloc"} => \A c \in BatchIds : q.plan[c] > 0 => c \in DOMAIN batch
  BY RowsTyped DEF Holding, HoldsPlan
<1>8. Affords(q, batch', moved')
  <2>0. Affords(q, batch, moved)
    BY DEF Short
  <2>1. q.pc = "adjust" => StockOf(batch', batch'[q.ent].product) >= -q.qty
    BY <1>1, <1>2, <1>6, <2>0 DEF Affords
  <2>2. ASSUME q.pc \in {"take", "alloc"}
        PROVE  \E p \in Products : /\ StockOf(batch', p) >= q.qty
                                   /\ \A c \in BatchIds : q.plan[c] > 0 => batch'[c].product = p
    <3>1. PICK p \in Products : /\ StockOf(batch, p) >= q.qty
                                /\ \A c \in BatchIds : q.plan[c] > 0 => batch[c].product = p
      BY <2>0, <2>2 DEF Affords
    <3>2. \A c \in BatchIds : q.plan[c] > 0 => batch'[c].product = p
      BY <1>1, <1>7, <2>2, <3>1
    <3> QED
      BY <1>2, <3>1, <3>2
  <2> QED
    BY <1>5, <2>0, <2>1, <2>2 DEF Affords
<1> QED
  BY <1>2, <1>8 DEF Short

\* Every step.
LEMMA NextShort ==
    ASSUME TypeInv, RoomInv, AloneInv, LegacyInv, LotsInv, FreshInv, SettledInv, ExplainedInv,
           OriginInv, ShortInv, [Next]_vars
    PROVE  ShortInv'
<1>0. TypeInv'
  BY NextTypes
<1>1. CASE UNCHANGED vars
  BY <1>1 DEF vars, ShortInv, Clean, Serial
<1>2. ASSUME NEW b \in DOMAIN batch, Expire(b)
      PROVE  ShortInv'
  <2>1. UNCHANGED <<req, used>>
    BY <1>2 DEF Expire
  <2>2. Holding(OnlyOf(req), Len(batch), Len(allocs))
    BY RowsTyped, IdleHolds DEF OnlyOf
  <2> QED
    BY <1>2, <2>1, <2>2, ExpireShort DEF ShortInv, Clean, Serial
<1>3. ASSUME NEW r \in Requests, Begin(r) \/ (Running(r) /\ Run(r)) \/ Die(r), Clean'
      PROVE  Short(batch', moved', OnlyOf(req'))
  <2>1. Clean /\ ~Die(r) /\ Serial' /\ Serial
    BY <1>0, <1>3, StaysClean DEF Clean
  <2>2. \A s \in Requests : s # r => req[s] = Idle /\ req'[s] = Idle
    BY <1>3, <2>1, OnlyOne
  <2>3. OnlyOf(req) = req[r]
    BY <2>2, OnlyIs
  <2>4. OnlyOf(req') = req'[r]
    BY <2>2, OnlyIs
  <2>5. /\ Settled(purchase, batch, allocs, req[r]) /\ Origins(batch, moved, req[r])
        /\ Short(batch, moved, req[r])
    BY <2>1, <2>3 DEF SettledInv, OriginInv, ShortInv
  <2>6. FreshSlot(req[r], batch) /\ Explained(batch, moved, allocs, req[r], 0)
    BY <2>1, <2>3 DEF FreshInv, ExplainedInv, Clean
  <2>7. \E q : req' = [req EXCEPT ![r] = q] /\ Short(batch', moved', q)
    <3>1. CASE Begin(r)
      BY <1>0, <2>1, <2>5, <2>6, <3>1, BeginShort, BeginIs
    <3>2. CASE Run(r)
      BY <1>0, <2>5, <2>6, <3>2, RunShort
    <3> QED
      BY <1>3, <2>1, <3>1, <3>2
  <2>8. Short(batch', moved', req'[r])
    BY <2>7 DEF TypeInv, RequestsHold
  <2> QED
    BY <2>4, <2>8
<1> QED
  BY <1>1, <1>2, <1>3 DEF Next, ShortInv

\* When requests neither overlap nor die, the stock of a product is short by no more than the
\* units of the lots that cancellations emptied.
THEOREM ShortHolds == Spec => []ShortOnlyByCancellation
<1>1. Init => AloneInv /\ LegacyInv /\ LotsInv /\ FreshInv
  BY IdleTyped, IdleFresh DEF Init, AloneInv, LegacyInv, Running, LotsInv, GoodSlot, FreshInv
<1>2. Init => SettledInv /\ ExplainedInv /\ OriginInv /\ ShortInv
  <2> SUFFICES ASSUME Init
               PROVE  /\ Settled(purchase, batch, allocs, Idle)
                      /\ Explained(batch, moved, allocs, Idle, used.faults)
                      /\ Origins(batch, moved, Idle) /\ Foreseen(Idle) /\ Short(batch, moved, Idle)
    BY OnlyWhenQuiet DEF Init, SettledInv, ExplainedInv, OriginInv, ShortInv
  <2>1. DOMAIN batch = {} /\ DOMAIN allocs = {}
    BY DEF Init
  <2>2. \A u \in Purchases : purchase[u].status = "ABSENT"
    BY DEF Init, NoPurchase
  <2>3. Settled(purchase, batch, allocs, Idle)
    BY <2>1, <2>2, IdleDraws DEF Settled, SettledPurchase
  <2>4. Explained(batch, moved, allocs, Idle, used.faults)
    BY <2>1, IdleSmall DEF Explained
  <2>5. Origins(batch, moved, Idle) /\ Foreseen(Idle)
    BY <2>1, IdleTyped DEF Origins, Foreseen
  <2>6. Short(batch, moved, Idle)
    <3>1. \A p : WorthOf(batch, p) = 0
      BY <2>1, SumEmpty DEF WorthOf
    <3>2. Affords(Idle, batch, moved)
      BY IdleTyped, AffordsNothing
    <3> QED
      BY <3>1, <3>2 DEF Short
  <2> QED
    BY <2>3, <2>4, <2>5, <2>6
<1>3. TypeInv /\ ShortInv => ShortOnlyByCancellation
  <2> SUFFICES ASSUME TypeInv, ShortInv, Clean, NEW p \in Products
               PROVE  Units(BatchesOf(p)) >= -Cancelled(p)
    BY DEF ShortOnlyByCancellation
  <2> PICK w \in Int, s \in Int : w = WorthOf(batch, p) /\ s = Units(BatchesOf(p))
    BY StockSums
  <2>1. w = s + Cancelled(p) /\ w >= 0
    BY StockSums DEF ShortInv, Short
  <2>2. Cancelled(p) \in Int
    BY StockSums
  <2> QED
    BY <2>1, <2>2
<1>4. Init => TypeInv /\ RoomInv /\ BooksInv
  BY InitTypes, BooksAtFirst
<1>5. /\ TypeInv /\ RoomInv /\ AloneInv /\ LegacyInv /\ LotsInv /\ BooksInv /\ FreshInv
      /\ SettledInv /\ ExplainedInv /\ OriginInv /\ ShortInv /\ [Next]_vars
      => (TypeInv /\ RoomInv /\ AloneInv /\ LegacyInv /\ LotsInv /\ BooksInv /\ FreshInv
          /\ SettledInv /\ ExplainedInv /\ OriginInv /\ ShortInv)'
  BY NextLots, NextLegacy, NextBooks, NextFresh, NextSettled, NextExplained, NextOrigin, NextShort
<1> QED
  BY <1>1, <1>2, <1>3, <1>4, <1>5, PTL DEF Spec
=============================================================================
