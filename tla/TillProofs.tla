----------------------------- MODULE TillProofs -----------------------------
(***************************************************************************)
(* Proofs about Till for every stock, every set of customers, cashiers and *)
(* overlapping requests, every basket and amount, and every bound.         *)
(***************************************************************************)
EXTENDS Till, Sums, TLAPS

(* What a handler holds between two of its statements, with which the types of the  *)
(* tables are inductive: n is the number of cash sessions, which are never removed. *)

Selling == {"begin", "check", "read", "take", "customer", "session", "audit", "commit"}
AtCustomer == {"selectCustomer", "writeCustomer"}
AtSession == {"selectSession", "writeSession"}
HoldsOp(q) ==
    /\ q.pc = "idle" => q.op = "none"
    /\ q.pc \in Selling => q.op = "sale"
    /\ q.pc \in AtCustomer => q.op \in {"sale", "payment", "edit"}
    /\ q.pc = "entry" => q.op \in {"sale", "payment"}
    /\ q.pc \in AtSession => q.op \in {"sale", "movement", "close"}
    /\ q.pc = "insertSession" => q.op = "open"
    /\ q.pc = "move" => q.op = "movement"
HoldsBasket(q) ==
    /\ q.op = "sale" => q.basket \in Baskets /\ q.amount = Receipt(q.basket).total
    /\ q.pc \in {"begin", "check", "read", "take"} => q.item \in DOMAIN q.basket
    /\ q.pc = "take" => q.units >= ItemOf(q).qty
    /\ \A p \in q.wrote : q.left[p] >= 0
HoldsCustomer(q) ==
    /\ q.pc \in AtCustomer \cup {"customer", "entry"} => q.customer \in Customers
    /\ q.op = "sale" =>
         /\ q.pc \in AtCustomer \cup {"customer", "entry"} => q.method = "CREDIT"
         /\ q.method = "CREDIT" => q.customer \in Customers /\ q.session = 0
         /\ q.pc \in AtSession \cup {"session"} => q.method = "CASH"
HoldsSession(q, n) ==
    /\ q.session \in 0..n
    /\ q.pc \in AtSession \cup {"session", "move"} => q.session # 0
Holding(q, n) ==
    /\ q \in Request
    /\ HoldsOp(q) /\ HoldsBasket(q) /\ HoldsCustomer(q) /\ HoldsSession(q, n)
\* n is the number of calls so far: the numbers of sales are those of their calls.
HoldsId(q, n) == IF q.op = "sale" THEN q.id \in 1..n ELSE q.id = 0

TablesOK ==
    /\ stock \in [Products -> Nat] /\ customer \in [Customers -> CustomerRow]
    /\ ledger \in Seq(LedgerRow) /\ session \in Seq(SessionRow)
    /\ drawer \in Seq(CashMovementRow) /\ sales \subseteq SaleRow
UsedOK == used \in [calls : 0..MaxCalls, overlaps : 0..MaxOverlaps, faults : 0..MaxFaults]
RequestsHold ==
    /\ req \in [Requests -> Request]
    /\ \A r \in Requests : Holding(req[r], Len(session)) /\ HoldsId(req[r], used.calls)
TypeInv == TablesOK /\ UsedOK /\ RequestsHold /\ audited \subseteq 1..used.calls

-----------------------------------------------------------------------------
(* Receipts *)

\* The sum of one column of the lines of a receipt is the sum of a function.
LEMMA TotalsAreSums ==
    ASSUME NEW lines, NEW S, IsFiniteSet(S)
    PROVE  /\ MapThenSumSet(LAMBDA i : lines[i].total, S) = SumOf([i \in S |-> lines[i].total], S)
           /\ MapThenSumSet(LAMBDA i : lines[i].tax, S) = SumOf([i \in S |-> lines[i].tax], S)
<1>1. ASSUME NEW f, f = [i \in S |-> lines[i].total]
      PROVE  MapThenSumSet(LAMBDA i : lines[i].total, S) = SumOf(f, S)
  <2> DEFINE iter(g) == g = [s \in SUBSET S |-> IF s = {} THEN 0
                               ELSE lines[First(s)].total + g[s \ {First(s)}]]
  <2>1. MapThenSumSet(LAMBDA i : lines[i].total, S) = (CHOOSE g : iter(g))[S]
    BY DEF MapThenSumSet, MapThenFoldSet, First
  <2>2. ASSUME NEW s \in SUBSET S, s # {}
        PROVE  f[First(s)] = lines[First(s)].total
    BY <1>1, <2>2, FirstIsIn
  <2>3. ASSUME NEW g
        PROVE  iter(g) <=> Adds(g, f, S)
    <3>1. [s \in SUBSET S |-> IF s = {} THEN 0 ELSE lines[First(s)].total + g[s \ {First(s)}]]
            = [s \in SUBSET S |-> IF s = {} THEN 0 ELSE f[First(s)] + g[s \ {First(s)}]]
      BY <2>2
    <3> QED
      BY <3>1 DEF Adds
  <2>4. \E g : Adds(g, f, S)
    BY AddsExists
  <2> HIDE DEF iter
  <2>5. Adds(CHOOSE g : iter(g), f, S) /\ Adds(CHOOSE g : Adds(g, f, S), f, S)
    BY <2>3, <2>4
  <2>6. (CHOOSE g : iter(g))[S] = (CHOOSE g : Adds(g, f, S))[S]
    BY <2>5, AddsUnique
  <2> QED
    BY <2>1, <2>6, SumUnfolds
<1>2. ASSUME NEW f, f = [i \in S |-> lines[i].tax]
      PROVE  MapThenSumSet(LAMBDA i : lines[i].tax, S) = SumOf(f, S)
  <2> DEFINE iter(g) == g = [s \in SUBSET S |-> IF s = {} THEN 0
                               ELSE lines[First(s)].tax + g[s \ {First(s)}]]
  <2>1. MapThenSumSet(LAMBDA i : lines[i].tax, S) = (CHOOSE g : iter(g))[S]
    BY DEF MapThenSumSet, MapThenFoldSet, First
  <2>2. ASSUME NEW s \in SUBSET S, s # {}
        PROVE  f[First(s)] = lines[First(s)].tax
    BY <1>2, <2>2, FirstIsIn
  <2>3. ASSUME NEW g
        PROVE  iter(g) <=> Adds(g, f, S)
    <3>1. [s \in SUBSET S |-> IF s = {} THEN 0 ELSE lines[First(s)].tax + g[s \ {First(s)}]]
            = [s \in SUBSET S |-> IF s = {} THEN 0 ELSE f[First(s)] + g[s \ {First(s)}]]
      BY <2>2
    <3> QED
      BY <3>1 DEF Adds
  <2>4. \E g : Adds(g, f, S)
    BY AddsExists
  <2> HIDE DEF iter
  <2>5. Adds(CHOOSE g : iter(g), f, S) /\ Adds(CHOOSE g : Adds(g, f, S), f, S)
    BY <2>3, <2>4
  <2>6. (CHOOSE g : iter(g))[S] = (CHOOSE g : Adds(g, f, S))[S]
    BY <2>5, AddsUnique
  <2> QED
    BY <2>1, <2>6, SumUnfolds
<1> QED
  BY <1>1, <1>2

\* Rounding gives whole numbers.
LEMMA RoundDivType ==
    ASSUME NEW a \in Int, NEW b \in Nat \ {0}
    PROVE  RoundDiv(a, b) \in Int
  BY DEF RoundDiv

\* The lines of a receipt are whole numbers.
LEMMA LineTaxType ==
    ASSUME NEW price \in Nat, NEW qty \in Nat, NEW mode, NEW rate \in Nat
    PROVE  LineTax(price, qty, mode, rate).total \in Int /\ LineTax(price, qty, mode, rate).tax \in Int
<1> DEFINE unit == RoundDiv(price * (100 + rate), 10000) * 100
           share == RoundDiv(price * qty * rate, 100 + rate)
<1>1. price * (100 + rate) \in Int /\ price * qty \in Int
  OBVIOUS
<1>2. unit \in Int
  BY <1>1, RoundDivType
<1>3. price * qty * rate \in Int /\ 100 + rate \in Nat \ {0}
  BY <1>1
<1>4. share \in Int
  BY <1>3, RoundDivType
<1> HIDE DEF unit, share
<1>5. unit * qty \in Int /\ unit * qty - price * qty \in Int
  BY <1>1, <1>2
<1>6. LineTax(price, qty, mode, rate) =
        IF mode = "NONE" \/ rate <= 0 THEN [unit |-> price, total |-> price * qty, tax |-> 0]
        ELSE IF mode = "EXCLUDED"
             THEN [unit |-> unit, total |-> unit * qty, tax |-> unit * qty - price * qty]
             ELSE [unit |-> price, total |-> price * qty, tax |-> share]
  BY DEF LineTax, unit, share
<1> QED
  BY <1>1, <1>4, <1>5, <1>6

\* The total of a receipt is never negative.
LEMMA ReceiptType ==
    ASSUME NEW basket \in Baskets
    PROVE  Receipt(basket).total \in Nat /\ Receipt(basket).tax \in Int
<1> DEFINE S == DOMAIN basket
           lines == LinesOf(basket)
           f == [i \in S |-> lines[i].total]
           g == [i \in S |-> lines[i].tax]
<1>1. basket \in Seq(Item) /\ S = 1..Len(basket) /\ Len(basket) \in Nat /\ DOMAIN lines = S
  BY TillAssumption DEF LinesOf
<1>2. IsFiniteSet(S)
  BY <1>1, FS_Interval
<1>3. ASSUME NEW i \in S
      PROVE  lines[i].total \in Int /\ lines[i].tax \in Int
  <2>1. basket[i] \in Item
    BY <1>1
  <2>2. /\ Price[basket[i].product] \in Nat /\ basket[i].qty \in Nat
        /\ Rate[basket[i].product] \in Nat
    BY <2>1, TillAssumption DEF Item
  <2>3. lines[i] = LineTax(Price[basket[i].product], basket[i].qty, Mode[basket[i].product],
                           Rate[basket[i].product])
    BY DEF LinesOf
  <2> QED
    BY <2>2, <2>3, LineTaxType
<1> HIDE DEF lines, S
<1>4. SumOf(f, S) \in Int /\ SumOf(g, S) \in Int
  BY <1>2, <1>3, SumType
<1>5. /\ MapThenSumSet(LAMBDA i : lines[i].total, S) = SumOf(f, S)
      /\ MapThenSumSet(LAMBDA i : lines[i].tax, S) = SumOf(g, S)
  BY <1>2, TotalsAreSums
<1> DEFINE gross == SumOf(f, S)
           tax == SumOf(g, S)
           total == Max({0, gross - 0})
<1>6. Receipt(basket) = [total |-> total, tax |-> IF gross > 0 THEN RoundDiv(tax * total, gross) ELSE 0]
  BY <1>1, <1>5 DEF Receipt, SummarizeTax, lines, S
<1> HIDE DEF f, g
<1>7. total \in Nat
  <2>1. IsFiniteSet({0, gross - 0}) /\ {0, gross - 0} # {} /\ {0, gross - 0} \subseteq Int
    <3>1. {0, gross - 0} = {0} \cup {gross - 0}
      OBVIOUS
    <3>2. IsFiniteSet({0})
      BY FS_Singleton
    <3>3. IsFiniteSet({0} \cup {gross - 0})
      BY <3>2, FS_AddElement
    <3> QED
      BY <1>4, <3>1, <3>3
  <2>2. total \in {0, gross - 0} /\ \A y \in {0, gross - 0} : y <= total
    BY <2>1, MaxIsLargest
  <2> QED
    BY <1>4, <2>2
<1> HIDE DEF total, gross, tax
<1>8. gross > 0 => RoundDiv(tax * total, gross) \in Int
  <2>1. tax * total \in Int
    BY <1>4, <1>7 DEF tax
  <2> QED
    BY <1>4, <2>1, RoundDivType DEF gross
<1> QED
  BY <1>6, <1>7, <1>8

-----------------------------------------------------------------------------
(* Requests *)

\* A slot in which nothing runs holds nothing.
LEMMA IdleHolds ==
    ASSUME NEW n \in Nat, NEW m
    PROVE  Holding(Idle, n) /\ HoldsId(Idle, m)
<1>1. AnyCashier \in Cashiers
  BY TillAssumption DEF AnyCashier
<1>2. NoCustomer \in CustomerRow /\ NoSession(AnyCashier) \in SessionRow
  BY <1>1 DEF NoCustomer, CustomerRow, NoSession, SessionRow
<1>3. Idle \in Request
  <2>1. <<>> \in Seq(Item)
    OBVIOUS
  <2> QED
    BY <1>2, <2>1 DEF Idle, Request, Pc
<1> QED
  BY <1>3
  DEF Idle, Holding, HoldsOp, HoldsBasket, HoldsCustomer, HoldsSession, HoldsId, Selling,
      AtCustomer, AtSession

\* The fields of a slot in which nothing runs.
LEMMA IdleTyped ==
    /\ Idle \in Request /\ Idle.op = "none" /\ Idle.pc = "idle" /\ Idle.id = 0
    /\ Idle.session = 0 /\ Idle.wrote = {} /\ Idle.cols = {} /\ Idle.amount = 0
    /\ NoCustomer \in CustomerRow /\ NoSession(AnyCashier) \in SessionRow /\ AnyCashier \in Cashiers
<1>1. AnyCashier \in Cashiers
  BY TillAssumption DEF AnyCashier
<1>2. NoCustomer \in CustomerRow /\ NoSession(AnyCashier) \in SessionRow
  BY <1>1 DEF NoCustomer, CustomerRow, NoSession, SessionRow
<1> QED
  BY <1>1, <1>2, IdleHolds DEF Idle, Holding

\* What a request holds it still holds when there are more sessions and more calls.
LEMMA HoldingLonger ==
    ASSUME NEW q, NEW n \in Nat, NEW m \in Nat, n <= m, NEW i \in Nat, NEW j \in Nat, i <= j,
           Holding(q, n), HoldsId(q, i)
    PROVE  Holding(q, m) /\ HoldsId(q, j)
  BY DEF Holding, HoldsSession, HoldsId, Request

\* What the tables and a request hold.
LEMMA RowsTyped ==
    ASSUME TypeInv
    PROVE  /\ Len(session) \in Nat /\ DOMAIN session = 1..Len(session)
           /\ \A s \in DOMAIN session : s \in Nat \ {0} /\ session[s] \in SessionRow
           /\ \A c \in Customers : customer[c] \in CustomerRow
           /\ \A p \in Products : stock[p] \in Nat
           /\ \A r \in Requests : /\ req[r] \in Request /\ Holding(req[r], Len(session))
                                  /\ HoldsId(req[r], used.calls)
           /\ used.calls \in Nat
<1>1. Len(session) \in Nat /\ DOMAIN session = 1..Len(session)
      /\ \A s \in DOMAIN session : s \in Nat \ {0} /\ session[s] \in SessionRow
  BY DEF TypeInv, TablesOK
<1>2. (\A c \in Customers : customer[c] \in CustomerRow) /\ (\A p \in Products : stock[p] \in Nat)
  BY DEF TypeInv, TablesOK
<1> QED
  BY <1>1, <1>2, TillAssumption DEF TypeInv, RequestsHold, UsedOK

\* What may be asked for.
LEMMA InputsTyped ==
    /\ \A amount \in Amounts : amount \in Nat \ {0}
    /\ \A limit \in Limits : limit \in Nat
    /\ \A basket \in Baskets : basket \in Seq(Item) /\ basket # <<>>
  BY TillAssumption

\* A request goes on to hold q; no session is removed.
LEMMA GoesOn ==
    ASSUME TypeInv, TablesOK', UsedOK', Len(session) <= Len(session'), used.calls <= used'.calls,
           NEW r \in Requests, NEW q, req' = [req EXCEPT ![r] = q],
           Holding(q, Len(session')), HoldsId(q, used'.calls)
    PROVE  RequestsHold'
<1>1. /\ Len(session) \in Nat /\ Len(session') \in Nat
      /\ used.calls \in Nat /\ used'.calls \in Nat
  BY TillAssumption DEF TypeInv, TablesOK, UsedOK
<1>2. \A s \in Requests :
        Holding(req[s], Len(session')) /\ HoldsId(req[s], used'.calls)
  BY <1>1, HoldingLonger DEF TypeInv, RequestsHold
<1>3. \A s \in Requests : /\ req'[s] \in Request
                          /\ Holding(req'[s], Len(session')) /\ HoldsId(req'[s], used'.calls)
  BY <1>2 DEF TypeInv, RequestsHold, Holding
<1> QED
  BY <1>3 DEF TypeInv, RequestsHold

\* A call that starts a request.
LEMMA CallTypes ==
    ASSUME TypeInv, NEW r \in Requests, Free(r), NEW q, Call(r, q),
           Holding(q, Len(session)), HoldsId(q, used.calls + 1)
    PROVE  TypeInv'
<1>1. used.calls \in Nat /\ used.overlaps \in Nat /\ used.calls < MaxCalls
  BY TillAssumption DEF TypeInv, UsedOK, Free
<1>2. /\ used'.calls = used.calls + 1
      /\ used'.overlaps = IF Overlaps(r) THEN used.overlaps + 1 ELSE used.overlaps
      /\ used' = [calls |-> used'.calls, overlaps |-> used'.overlaps, faults |-> used.faults]
  BY DEF Call, TypeInv, UsedOK
<1>3. UsedOK'
  BY <1>1, <1>2, TillAssumption DEF Free, TypeInv, UsedOK
<1>4. TablesOK' /\ session' = session /\ audited' = audited
  BY DEF Call, db, TypeInv, TablesOK
<1>5. RequestsHold'
  <2>1. req' = [req EXCEPT ![r] = q] /\ used.calls <= used'.calls /\ Len(session) <= Len(session')
    BY <1>1, <1>2, <1>4, RowsTyped DEF Call
  <2> QED
    BY <1>2, <1>3, <1>4, <2>1, GoesOn
<1>6. audited' \subseteq 1..used'.calls
  BY <1>1, <1>2, <1>4 DEF TypeInv
<1> QED
  BY <1>3, <1>4, <1>5, <1>6 DEF TypeInv

\* A statement of a running request.
LEMMA GotoTypes ==
    ASSUME TypeInv, TablesOK', UNCHANGED used, audited' \subseteq 1..used.calls,
           Len(session) <= Len(session'), NEW r \in Requests, NEW q, Goto(r, q),
           Holding(q, Len(session')), HoldsId(q, used.calls)
    PROVE  TypeInv'
<1>1. UsedOK' /\ req' = [req EXCEPT ![r] = q] /\ used'.calls = used.calls /\ used.calls \in Nat
  BY RowsTyped DEF TypeInv, UsedOK, Goto
<1>2. used.calls <= used'.calls /\ HoldsId(q, used'.calls)
  BY <1>1
<1>3. RequestsHold'
  BY <1>1, <1>2, GoesOn
<1> QED
  BY <1>1, <1>3 DEF TypeInv

\* A statement that writes nothing.
LEMMA GotoKeepsTypes ==
    ASSUME TypeInv, UNCHANGED <<db, used>>, NEW r \in Requests, NEW q, Goto(r, q),
           Holding(q, Len(session)), HoldsId(q, used.calls)
    PROVE  TypeInv'
<1>1. TablesOK' /\ session' = session /\ audited' = audited
  BY DEF db, TypeInv, TablesOK
<1>2. Len(session) <= Len(session') /\ audited' \subseteq 1..used.calls /\ UNCHANGED used
  BY <1>1, RowsTyped DEF TypeInv
<1> QED
  BY <1>1, <1>2, GotoTypes

\* A handler that throws, or that ends having written something.
LEMMA ReturnTypes ==
    ASSUME TypeInv, TablesOK', UNCHANGED used, audited' = audited, Len(session) <= Len(session'),
           NEW r \in Requests, Goto(r, Idle)
    PROVE  TypeInv'
<1>1. Holding(Idle, Len(session')) /\ HoldsId(Idle, used.calls)
  BY IdleHolds, SMTT(40) DEF TablesOK
<1> QED
  BY <1>1, GotoTypes DEF TypeInv

\* A handler that throws.
LEMMA ThrowTypes ==
    ASSUME TypeInv, NEW r \in Requests, Throw(r), UNCHANGED used
    PROVE  TypeInv'
<1>1. Holding(Idle, Len(session)) /\ HoldsId(Idle, used.calls)
  BY IdleHolds, RowsTyped
<1> QED
  BY <1>1, GotoKeepsTypes DEF Throw

-----------------------------------------------------------------------------
(* Calls keep the types *)

\* SalesService.create.
LEMMA SaleTypes ==
    ASSUME TypeInv, NEW r \in Requests, Free(r), NEW basket \in Baskets,
           \/ \E c \in Customers \cup {"none"} : BeginSale(r, basket, "CREDIT", c, 0)
           \/ \E s \in 0..Len(session) : BeginSale(r, basket, "CASH", "none", s)
    PROVE  TypeInv'
<1>1. PICK method \in {"CASH", "CREDIT"}, c \in Customers \cup {"none"}, s \in 0..Len(session) :
        /\ BeginSale(r, basket, method, c, s)
        /\ method = "CREDIT" => c \in Customers /\ s = 0
  <2>1. CASE \E c \in Customers \cup {"none"} : BeginSale(r, basket, "CREDIT", c, 0)
    BY <2>1, RowsTyped DEF BeginSale, Acceptable
  <2>2. CASE \E s \in 0..Len(session) : BeginSale(r, basket, "CASH", "none", s)
    BY <2>2
  <2> QED
    BY <2>1, <2>2
<1> DEFINE amount == Receipt(basket).total
           q == [Idle EXCEPT !.op = "sale", !.pc = "begin", !.id = used.calls + 1,
                  !.method = method, !.basket = basket, !.item = 1,
                  !.customer = c, !.session = s, !.amount = amount]
<1>2. amount \in Nat /\ basket \in Seq(Item) /\ basket # <<>>
  BY ReceiptType, TillAssumption
<1>3. Call(r, q)
  BY <1>1 DEF BeginSale
<1> HIDE DEF amount
<1>0. used.calls + 1 \in Nat /\ s \in Nat /\ amount \in Int
  BY <1>2, RowsTyped
<1>4p. "begin" \in Pc
  BY DEF Pc
<1>4. /\ q \in Request /\ q.op = "sale" /\ q.pc = "begin" /\ q.id = used.calls + 1
      /\ q.method = method /\ q.basket = basket /\ q.item = 1 /\ q.customer = c /\ q.session = s
      /\ q.amount = amount /\ q.wrote = {}
  BY <1>4p, <1>0, <1>2, IdleTyped DEF Request
<1> HIDE DEF q
<1>5. HoldsBasket(q)
  <2>1. 1 \in DOMAIN basket
    BY <1>2
  <2> QED
    BY <1>4, <2>1 DEF HoldsBasket, amount
<1>6. Holding(q, Len(session)) /\ HoldsId(q, used.calls + 1)
  BY <1>1, <1>4, <1>5, RowsTyped
  DEF Holding, HoldsOp, HoldsCustomer, HoldsSession, HoldsId, Selling, AtCustomer, AtSession
<1> QED
  BY <1>3, <1>6, CallTypes

\* registerPayment and update of CustomersService.
LEMMA CustomerCallTypes ==
    ASSUME TypeInv, NEW r \in Requests, Free(r), CustomersController(r)
    PROVE  TypeInv'
<1>1. ASSUME NEW c \in Customers, NEW amount \in Amounts, BeginPayment(r, c, amount)
      PROVE  TypeInv'
  <2> DEFINE cust == [customer[c] EXCEPT !.balance = @ - amount]
             q == [Idle EXCEPT !.op = "payment", !.pc = "selectCustomer", !.customer = c,
                     !.cust = cust, !.amount = -amount]
  <2>1. cust \in CustomerRow /\ -amount \in Int
    <3>1. amount \in Nat /\ customer[c] \in CustomerRow
      BY RowsTyped, InputsTyped
    <3> QED
      BY <3>1 DEF CustomerRow
  <2>2. Call(r, q)
    BY <1>1 DEF BeginPayment
  <2> HIDE DEF cust
  <2>3p. "selectCustomer" \in Pc
    BY DEF Pc
  <2>3. /\ q \in Request /\ q.op = "payment" /\ q.pc = "selectCustomer" /\ q.id = 0
        /\ q.customer = c /\ q.session = 0 /\ q.wrote = {}
    BY <2>3p, <2>1, IdleTyped DEF Request
  <2> HIDE DEF q
  <2>4. Holding(q, Len(session)) /\ HoldsId(q, used.calls + 1)
    BY <2>3, RowsTyped
    DEF Holding, HoldsOp, HoldsBasket, HoldsCustomer, HoldsSession, HoldsId, Selling, AtCustomer,
        AtSession
  <2> QED
    BY <2>2, <2>4, CallTypes
<1>2. ASSUME NEW c \in Customers, NEW enabled \in BOOLEAN, NEW limit \in Limits,
             BeginEdit(r, c, enabled, limit)
      PROVE  TypeInv'
  <2> DEFINE cust == [customer[c] EXCEPT !.enabled = enabled, !.limit = limit]
             q == [Idle EXCEPT !.op = "edit", !.pc = "selectCustomer", !.customer = c,
                     !.cust = cust]
  <2>1. cust \in CustomerRow
    BY RowsTyped, InputsTyped DEF CustomerRow
  <2>2. Call(r, q)
    BY <1>2 DEF BeginEdit
  <2> HIDE DEF cust
  <2>3p. "selectCustomer" \in Pc
    BY DEF Pc
  <2>3. /\ q \in Request /\ q.op = "edit" /\ q.pc = "selectCustomer" /\ q.id = 0
        /\ q.customer = c /\ q.session = 0 /\ q.wrote = {}
    BY <2>3p, <2>1, IdleTyped DEF Request
  <2> HIDE DEF q
  <2>4. Holding(q, Len(session)) /\ HoldsId(q, used.calls + 1)
    BY <2>3, RowsTyped
    DEF Holding, HoldsOp, HoldsBasket, HoldsCustomer, HoldsSession, HoldsId, Selling, AtCustomer,
        AtSession
  <2> QED
    BY <2>2, <2>4, CallTypes
<1> QED
  BY <1>1, <1>2 DEF CustomersController

\* openSession, closeSession and addMovement of CashService.
LEMMA CashCallTypes ==
    ASSUME TypeInv, NEW r \in Requests, Free(r), CashController(r)
    PROVE  TypeInv'
<1>1. ASSUME NEW u \in Cashiers, NEW amount \in Amounts, BeginOpen(r, u, amount)
      PROVE  TypeInv'
  <2> DEFINE sess == [NoSession(u) EXCEPT !.opening = amount, !.expected = amount]
             q == [Idle EXCEPT !.op = "open", !.pc = "insertSession", !.sess = sess]
  <2>1. sess \in SessionRow
    <3>1. NoSession(u) \in SessionRow
      BY DEF SessionRow, NoSession
    <3>2. amount \in Nat /\ amount \in Int
      BY InputsTyped
    <3> QED
      BY <3>1, <3>2 DEF SessionRow
  <2>2. Call(r, q)
    BY <1>1 DEF BeginOpen
  <2> HIDE DEF sess
  <2>3p. "insertSession" \in Pc
    BY DEF Pc
  <2>3. /\ q \in Request /\ q.op = "open" /\ q.pc = "insertSession" /\ q.id = 0
        /\ q.session = 0 /\ q.wrote = {}
    BY <2>3p, <2>1, IdleTyped DEF Request
  <2> HIDE DEF q
  <2>4. Holding(q, Len(session)) /\ HoldsId(q, used.calls + 1)
    BY <2>3, RowsTyped
    DEF Holding, HoldsOp, HoldsBasket, HoldsCustomer, HoldsSession, HoldsId, Selling, AtCustomer,
        AtSession
  <2> QED
    BY <2>2, <2>4, CallTypes
<1>2. ASSUME NEW s \in DOMAIN session, NEW sess \in SessionRow, NEW amount \in Int,
             NEW op \in {"close", "movement"},
             Call(r, [Idle EXCEPT !.op = op, !.pc = "selectSession", !.session = s, !.sess = sess,
                                  !.amount = amount])
      PROVE  TypeInv'
  <2> DEFINE q == [Idle EXCEPT !.op = op, !.pc = "selectSession", !.session = s, !.sess = sess,
                               !.amount = amount]
  <2>1. s \in 1..Len(session) /\ s \in Nat \ {0}
    BY RowsTyped
  <2>2p. "selectSession" \in Pc
    BY DEF Pc
  <2>2. /\ q \in Request /\ q.op = op /\ q.pc = "selectSession" /\ q.id = 0
        /\ q.session = s /\ q.wrote = {}
    BY <2>2p, <2>1, IdleTyped DEF Request
  <2> HIDE DEF q
  <2>3. Holding(q, Len(session)) /\ HoldsId(q, used.calls + 1)
    BY <2>1, <2>2, RowsTyped
    DEF Holding, HoldsOp, HoldsBasket, HoldsCustomer, HoldsSession, HoldsId, Selling, AtCustomer,
        AtSession
  <2> QED
    BY <1>2, <2>3, CallTypes DEF q
<1>3. ASSUME NEW s \in DOMAIN session, NEW amount \in Amounts, BeginClose(r, s, amount)
      PROVE  TypeInv'
  <2> DEFINE sess == [session[s] EXCEPT !.counted = amount, !.status = "CLOSED",
                              !.difference = amount - session[s].expected]
  <2>1. sess \in SessionRow
    <3>1. amount \in Nat /\ session[s] \in SessionRow
      BY RowsTyped, InputsTyped
    <3>2. amount - session[s].expected \in Int
      BY <3>1 DEF SessionRow
    <3> QED
      BY <3>1, <3>2 DEF SessionRow
  <2>2. Call(r, [Idle EXCEPT !.op = "close", !.pc = "selectSession", !.session = s, !.sess = sess])
    BY <1>3 DEF BeginClose
  <2> HIDE DEF sess
  <2>3. Idle.amount = 0 /\ Idle \in Request
    BY IdleTyped
  <2>4. [Idle EXCEPT !.op = "close", !.pc = "selectSession", !.session = s, !.sess = sess]
          = [Idle EXCEPT !.op = "close", !.pc = "selectSession", !.session = s, !.sess = sess,
                         !.amount = 0]
    BY <2>3 DEF Request
  <2> QED
    <3>1. Call(r, [Idle EXCEPT !.op = "close", !.pc = "selectSession", !.session = s,
                               !.sess = sess, !.amount = 0])
      BY ONLY <2>2, <2>4
    <3>2. 0 \in Int /\ "close" \in {"close", "movement"}
      OBVIOUS
    <3> QED
      BY <1>2, <2>1, <3>1, <3>2, Zenon
<1>4. ASSUME NEW s \in DOMAIN session, NEW amount \in Int, BeginMovement(r, s, amount)
      PROVE  TypeInv'
  <2> DEFINE sess == [session[s] EXCEPT !.expected = @ + amount]
  <2>1. sess \in SessionRow
    BY RowsTyped DEF SessionRow
  <2>2. Call(r, [Idle EXCEPT !.op = "movement", !.pc = "selectSession", !.session = s,
                             !.sess = sess, !.amount = amount])
    BY <1>4 DEF BeginMovement
  <2> HIDE DEF sess
  <2> QED
    BY <1>2, <2>1, <2>2
<1>5. \A amount \in Amounts : amount \in Int /\ -amount \in Int
  BY TillAssumption
<1> QED
  BY <1>1, <1>3, <1>4, <1>5 DEF CashController

\* No call breaks the types.
LEMMA BeginTypes ==
    ASSUME TypeInv, NEW r \in Requests, Begin(r)
    PROVE  TypeInv'
  BY SaleTypes, CustomerCallTypes, CashCallTypes DEF Begin, SalesController

-----------------------------------------------------------------------------
(* Statements keep the types *)

\* The item a sale is at, and what it sees of a batch.
LEMMA ItemTyped ==
    ASSUME TypeInv, NEW r \in Requests, req[r].pc \in {"begin", "check", "read", "take"}
    PROVE  /\ req[r].op = "sale" /\ req[r].basket \in Seq(Item) /\ req[r].item \in DOMAIN req[r].basket
           /\ ItemOf(req[r]) \in Item
           /\ \A p \in Products : Sees(req[r], p) \in Nat
<1> DEFINE q == req[r]
<1>1. q \in Request /\ HoldsOp(q) /\ HoldsBasket(q)
  BY RowsTyped DEF Holding
<1>2. q.op = "sale" /\ q.item \in DOMAIN q.basket /\ \A p \in q.wrote : q.left[p] >= 0
  BY <1>1 DEF HoldsOp, HoldsBasket, Selling
<1>3. q.basket \in Seq(Item) /\ q.left \in [Products -> Int]
  BY <1>1 DEF Request
<1>4. ItemOf(q) \in Item
  BY <1>2, <1>3 DEF ItemOf
<1>5. ASSUME NEW p \in Products
      PROVE  Sees(q, p) \in Nat
  <2>1. stock[p] \in Nat /\ q.left[p] \in Int
    BY <1>3, RowsTyped
  <2> QED
    BY <1>2, <2>1 DEF Sees
<1> QED
  BY <1>2, <1>3, <1>4, <1>5

\* The statements before the customer or the session.
LEMMA ItemStepTypes ==
    ASSUME TypeInv, NEW r \in Requests,
           \/ OpenTransaction(r) \/ CheckStock(r) \/ ReadBatch(r) \/ TakeUnits(r)
           \/ DeadlockVictim(r)
    PROVE  TypeInv'
<1> PICK p : p = req[r]
  OBVIOUS
<1>0. p \in Request /\ Holding(p, Len(session)) /\ HoldsId(p, used.calls) /\ Len(session) \in Nat
  BY RowsTyped
<1>1. CASE OpenTransaction(r)
  <2> DEFINE q == [p EXCEPT !.pc = "check"]
  <2>1. p.pc = "begin" /\ Goto(r, q) /\ UNCHANGED <<db, used>>
    BY <1>1 DEF OpenTransaction
  <2>2p. "check" \in Pc
    BY DEF Pc
  <2>2. /\ q \in Request /\ q.pc = "check" /\ q.op = p.op /\ q.id = p.id /\ q.basket = p.basket
        /\ q.amount = p.amount /\ q.item = p.item /\ q.customer = p.customer
        /\ q.method = p.method /\ q.session = p.session /\ q.wrote = p.wrote /\ q.left = p.left
    BY <2>2p, <1>0 DEF Request
  <2> HIDE DEF q
  <2>3. Holding(q, Len(session)) /\ HoldsId(q, used.calls)
    BY <1>0, <2>1, <2>2
    DEF Holding, HoldsOp, HoldsBasket, HoldsCustomer, HoldsSession, HoldsId, Selling, AtCustomer,
        AtSession
  <2> QED
    BY <2>1, <2>3, GotoKeepsTypes
<1>2. CASE CheckStock(r)
  <2>1. ASSUME p.pc = "check", UNCHANGED <<db, used>>, p.item < Len(p.basket),
               Goto(r, [p EXCEPT !.item = @ + 1])
        PROVE  TypeInv'
    <3> DEFINE q == [p EXCEPT !.item = @ + 1]
    <3>1. p.item \in DOMAIN p.basket /\ p.basket \in Seq(Item)
      BY <2>1, ItemTyped
    <3>2. p.item + 1 \in DOMAIN p.basket /\ p.item + 1 \in Nat
      BY <2>1, <3>1
    <3>3. /\ q \in Request /\ q.pc = p.pc /\ q.op = p.op /\ q.id = p.id /\ q.basket = p.basket
          /\ q.amount = p.amount /\ q.item = p.item + 1 /\ q.customer = p.customer
          /\ q.method = p.method /\ q.session = p.session /\ q.wrote = p.wrote /\ q.left = p.left
          /\ q.units = p.units
      BY <1>0, <3>2 DEF Request
    <3> HIDE DEF q
    <3>4. Holding(q, Len(session)) /\ HoldsId(q, used.calls)
      BY <1>0, <2>1, <3>2, <3>3
      DEF Holding, HoldsOp, HoldsBasket, HoldsCustomer, HoldsSession, HoldsId, Selling,
          AtCustomer, AtSession
    <3> QED
      BY <2>1, <3>4, GotoKeepsTypes DEF q
  <2>2. ASSUME p.pc = "check", UNCHANGED <<db, used>>,
               Goto(r, [p EXCEPT !.pc = "read", !.item = 1])
        PROVE  TypeInv'
    <3> DEFINE q == [p EXCEPT !.pc = "read", !.item = 1]
    <3>1. p.item \in DOMAIN p.basket /\ p.basket \in Seq(Item)
      BY <2>2, ItemTyped
    <3>2. 1 \in DOMAIN p.basket
      BY <3>1
    <3>3p. "read" \in Pc
      BY DEF Pc
    <3>3. /\ q \in Request /\ q.pc = "read" /\ q.op = p.op /\ q.id = p.id /\ q.basket = p.basket
          /\ q.amount = p.amount /\ q.item = 1 /\ q.customer = p.customer
          /\ q.method = p.method /\ q.session = p.session /\ q.wrote = p.wrote /\ q.left = p.left
      BY <3>3p, <1>0 DEF Request
    <3> HIDE DEF q
    <3>4. Holding(q, Len(session)) /\ HoldsId(q, used.calls)
      BY <1>0, <2>2, <3>2, <3>3
      DEF Holding, HoldsOp, HoldsBasket, HoldsCustomer, HoldsSession, HoldsId, Selling,
          AtCustomer, AtSession
    <3> QED
      BY <2>2, <3>4, GotoKeepsTypes DEF q
  <2> QED
    BY <1>2, <2>1, <2>2, ThrowTypes DEF CheckStock
<1>3. CASE ReadBatch(r)
  <2>1. ASSUME p.pc = "read", UNCHANGED <<db, used>>,
               Enough(Sees(p, ItemOf(p).product), ItemOf(p)),
               Goto(r, [p EXCEPT !.pc = "take", !.units = Sees(p, ItemOf(p).product)])
        PROVE  TypeInv'
    <3> DEFINE units == Sees(p, ItemOf(p).product)
               q == [p EXCEPT !.pc = "take", !.units = units]
    <3>1. ItemOf(p) \in Item /\ units \in Nat /\ units >= ItemOf(p).qty
      <4>1. ItemOf(p) \in Item /\ \A y \in Products : Sees(p, y) \in Nat
        BY <2>1, ItemTyped
      <4> QED
        BY <2>1, <4>1 DEF Enough, Item
    <3>1a. units \in Int
      BY <3>1
    <3> HIDE DEF units
    <3>2p. "take" \in Pc
      BY DEF Pc
    <3>2. /\ q \in Request /\ q.pc = "take" /\ q.op = p.op /\ q.id = p.id /\ q.basket = p.basket
          /\ q.amount = p.amount /\ q.item = p.item /\ q.customer = p.customer
          /\ q.method = p.method /\ q.session = p.session /\ q.wrote = p.wrote /\ q.left = p.left
          /\ q.units = units
      BY ONLY <3>2p, <1>0, <3>1a DEF Request
    <3> HIDE DEF q
    <3>3. ItemOf(q) = ItemOf(p)
      BY <3>2 DEF ItemOf
    <3>4. Holding(q, Len(session)) /\ HoldsId(q, used.calls)
      BY <1>0, <2>1, <3>1, <3>2, <3>3
      DEF Holding, HoldsOp, HoldsBasket, HoldsCustomer, HoldsSession, HoldsId, Selling,
          AtCustomer, AtSession
    <3> QED
      BY <2>1, <3>4, GotoKeepsTypes DEF q, units
  <2> QED
    BY <1>3, <2>1, ThrowTypes DEF ReadBatch
<1>4. CASE TakeUnits(r)
  <2> DEFINE item == ItemOf(p)
             y == item.product
             rest == p.units - item.qty
             left == [p.left EXCEPT ![y] = rest]
             took == [p EXCEPT !.wrote = @ \cup {y}, !.left[y] = rest]
             more == [took EXCEPT !.pc = "read", !.item = @ + 1]
             pc == IF p.method = "CREDIT" /\ p.customer # "none" THEN "customer"
                   ELSE IF p.method = "CASH" /\ p.session # 0 THEN "session" ELSE "audit"
             last == [took EXCEPT !.units = 0, !.pc = pc]
  <2>1. p.pc = "take" /\ UNCHANGED <<db, used>>
    BY <1>4 DEF TakeUnits
  <2>2. item \in Item /\ p.item \in DOMAIN p.basket /\ p.basket \in Seq(Item) /\ p.op = "sale"
    BY <2>1, ItemTyped
  <2>3. p.units \in Int /\ p.units >= item.qty /\ rest \in Int /\ rest >= 0 /\ y \in Products
    <3>1. p.units \in Int /\ p.units >= item.qty
      BY <1>0, <2>1 DEF Holding, HoldsBasket, Request
    <3>2. item.qty \in Nat /\ y \in Products
      BY <2>2 DEF Item
    <3> QED
      BY <3>1, <3>2
  <2>4. Goto(r, IF p.item < Len(p.basket) THEN more ELSE last)
    <3>1. took.method = p.method /\ took.customer = p.customer /\ took.session = p.session
      BY <1>0 DEF Request
    <3>2. AfterItems(took) = last
      BY <3>1 DEF AfterItems
    <3> QED
      BY <1>4, <3>2 DEF TakeUnits
  <2> HIDE DEF rest, y, item
  <2>5. left \in [Products -> Int] /\ \A z \in p.wrote \cup {y} : left[z] >= 0
    BY <1>0, <2>3 DEF Holding, HoldsBasket, Request
  <2>6. /\ took \in Request /\ took.pc = p.pc /\ took.op = p.op /\ took.id = p.id
        /\ took.basket = p.basket /\ took.amount = p.amount /\ took.item = p.item
        /\ took.customer = p.customer /\ took.method = p.method /\ took.session = p.session
        /\ took.wrote = p.wrote \cup {y} /\ took.left = left
    BY <1>0, <2>3, <2>5 DEF Request
  <2> HIDE DEF took, left
  <2>7. ASSUME p.item < Len(p.basket)
        PROVE  Holding(more, Len(session)) /\ HoldsId(more, used.calls)
    <3>1. p.item + 1 \in DOMAIN p.basket /\ p.item + 1 \in Nat
      BY <2>2, <2>7
    <3>2p. "read" \in Pc
      BY DEF Pc
    <3>2. /\ more \in Request /\ more.pc = "read" /\ more.op = p.op /\ more.id = p.id
          /\ more.basket = p.basket /\ more.amount = p.amount /\ more.item = p.item + 1
          /\ more.customer = p.customer /\ more.method = p.method /\ more.session = p.session
          /\ more.wrote = p.wrote \cup {y} /\ more.left = left
      BY <3>2p, <2>6, <3>1 DEF Request
    <3> HIDE DEF more
    <3> QED
      BY <1>0, <2>1, <2>2, <2>5, <3>1, <3>2
      DEF Holding, HoldsOp, HoldsBasket, HoldsCustomer, HoldsSession, HoldsId, Selling,
          AtCustomer, AtSession
  <2>8. Holding(last, Len(session)) /\ HoldsId(last, used.calls)
    <3>1. pc \in {"customer", "session", "audit"}
      OBVIOUS
    <3>1p. pc \in Pc
      BY <3>1 DEF Pc
    <3>2. /\ pc = "customer" => p.method = "CREDIT" /\ p.customer # "none"
          /\ pc = "session" => p.method = "CASH" /\ p.session # 0
      OBVIOUS
    <3> HIDE DEF pc
    <3>3t. last \in Request
      BY ONLY <2>6, <3>1p, 0 \in Int DEF Request
    <3>3. /\ last \in Request /\ last.pc = pc /\ last.op = p.op /\ last.id = p.id
          /\ last.basket = p.basket /\ last.amount = p.amount
          /\ last.customer = p.customer /\ last.method = p.method /\ last.session = p.session
          /\ last.wrote = p.wrote \cup {y} /\ last.left = left
      BY ONLY <2>6, <3>3t DEF Request
    <3>4. p.method = "CREDIT" => p.customer \in Customers
      BY <1>0, <2>2 DEF Holding, HoldsCustomer
    <3> HIDE DEF last
    <3> QED
      BY <1>0, <2>1, <2>2, <2>5, <3>1, <3>2, <3>3, <3>4
      DEF Holding, HoldsOp, HoldsBasket, HoldsCustomer, HoldsSession, HoldsId, Selling,
          AtCustomer, AtSession
  <2> HIDE DEF more, last
  <2> QED
    BY <2>1, <2>4, <2>7, <2>8, GotoKeepsTypes
<1>5. CASE DeadlockVictim(r)
  BY <1>5, ThrowTypes DEF DeadlockVictim
<1> QED
  BY <1>1, <1>2, <1>3, <1>4, <1>5

\* Rows that are written column by column.
LEMMA MergedTypes ==
    ASSUME NEW cols
    PROVE  /\ \A row, new \in CustomerRow :
                [c \in DOMAIN row |-> IF c \in cols THEN new[c] ELSE row[c]] \in CustomerRow
           /\ \A row, new \in SessionRow :
                [c \in DOMAIN row |-> IF c \in cols THEN new[c] ELSE row[c]] \in SessionRow
<1>1. ASSUME NEW row \in CustomerRow, NEW new \in CustomerRow
      PROVE  [c \in DOMAIN row |-> IF c \in cols THEN new[c] ELSE row[c]] \in CustomerRow
  BY <1>1 DEF CustomerRow
<1>2. ASSUME NEW row \in SessionRow, NEW new \in SessionRow
      PROVE  [c \in DOMAIN row |-> IF c \in cols THEN new[c] ELSE row[c]] \in SessionRow
  BY <1>2 DEF SessionRow
<1> QED
  BY <1>1, <1>2

\* A row that is replaced leaves a table of the same length.
LEMMA RowReplaced ==
    ASSUME NEW Row, NEW s \in Seq(Row), NEW k \in DOMAIN s, NEW row \in Row
    PROVE  /\ [s EXCEPT ![k] = row] \in Seq(Row) /\ Len([s EXCEPT ![k] = row]) = Len(s)
           /\ DOMAIN [s EXCEPT ![k] = row] = DOMAIN s
<1>1. DOMAIN s = 1..Len(s) /\ Len(s) \in Nat /\ s \in [1..Len(s) -> Row]
  OBVIOUS
<1>2. [s EXCEPT ![k] = row] \in [1..Len(s) -> Row]
  BY ONLY <1>1, row \in Row, k \in DOMAIN s
<1> QED
  BY <1>1, <1>2

\* The statements of registerCreditSale, registerPayment and update.
LEMMA CustomerStepTypes ==
    ASSUME TypeInv, NEW r \in Requests,
           LoadCustomer(r) \/ SelectCustomer(r) \/ WriteCustomer(r) \/ InsertEntry(r)
    PROVE  TypeInv'
<1> PICK p : p = req[r]
  OBVIOUS
<1>0. p \in Request /\ Holding(p, Len(session)) /\ HoldsId(p, used.calls) /\ Len(session) \in Nat
  BY RowsTyped
<1>1. CASE LoadCustomer(r)
  <2> DEFINE row == customer[p.customer]
             cust == [row EXCEPT !.balance = @ + p.amount]
             q == [p EXCEPT !.pc = "selectCustomer", !.cust = cust]
  <2>1. p.pc = "customer"
    BY <1>1 DEF LoadCustomer
  <2>2. p.customer \in Customers /\ row \in CustomerRow /\ p.amount \in Int
    BY <1>0, <2>1, RowsTyped DEF Holding, HoldsCustomer, Request
  <2>3. \/ Goto(r, q) /\ UNCHANGED <<db, used>>
        \/ Throw(r) /\ UNCHANGED used
    BY <1>1 DEF LoadCustomer
  <2>4. cust \in CustomerRow
    <3>1. row.balance + p.amount \in Int
      BY <2>2 DEF CustomerRow
    <3> QED
      BY <2>2, <3>1 DEF CustomerRow
  <2> HIDE DEF cust, row
  <2>5a. "selectCustomer" \in Pc
    BY DEF Pc
  <2>5. /\ q \in Request /\ q.pc = "selectCustomer" /\ q.op = p.op /\ q.id = p.id
        /\ q.basket = p.basket /\ q.amount = p.amount /\ q.customer = p.customer
        /\ q.method = p.method /\ q.session = p.session /\ q.wrote = p.wrote /\ q.left = p.left
    BY ONLY <1>0, <2>4, <2>5a DEF Request
  <2> HIDE DEF q
  <2>6. Holding(q, Len(session)) /\ HoldsId(q, used.calls)
    BY <1>0, <2>1, <2>2, <2>5
    DEF Holding, HoldsOp, HoldsBasket, HoldsCustomer, HoldsSession, HoldsId, Selling, AtCustomer,
        AtSession
  <2> QED
    BY <2>3, <2>6, GotoKeepsTypes, ThrowTypes
<1>2. CASE SelectCustomer(r)
  <2> DEFINE row == customer[p.customer]
             cols == {c \in DOMAIN row : p.cust[c] # row[c]}
             q == [p EXCEPT !.pc = "writeCustomer", !.cols = cols]
  <2>1. p.pc = "selectCustomer" /\ Goto(r, q) /\ UNCHANGED <<db, used>>
    BY <1>2 DEF SelectCustomer
  <2>2. p.customer \in Customers /\ row \in CustomerRow
    BY <1>0, <2>1, RowsTyped DEF Holding, HoldsCustomer, AtCustomer
  <2>3. cols \in SUBSET Columns
    BY <2>2 DEF CustomerRow, Columns
  <2> HIDE DEF cols
  <2>4a. "writeCustomer" \in Pc
    BY DEF Pc
  <2>4. /\ q \in Request /\ q.pc = "writeCustomer" /\ q.op = p.op /\ q.id = p.id
        /\ q.basket = p.basket /\ q.amount = p.amount /\ q.customer = p.customer
        /\ q.method = p.method /\ q.session = p.session /\ q.wrote = p.wrote /\ q.left = p.left
    BY ONLY <1>0, <2>3, <2>4a DEF Request
  <2> HIDE DEF q
  <2>5. Holding(q, Len(session)) /\ HoldsId(q, used.calls)
    BY <1>0, <2>1, <2>4
    DEF Holding, HoldsOp, HoldsBasket, HoldsCustomer, HoldsSession, HoldsId, Selling, AtCustomer,
        AtSession
  <2> QED
    BY <2>1, <2>5, GotoKeepsTypes
<1>3. CASE WriteCustomer(r)
  <2> DEFINE row == customer[p.customer]
             new == [c \in DOMAIN row |-> IF c \in p.cols THEN p.cust[c] ELSE row[c]]
             q == [p EXCEPT !.pc = "entry", !.cols = {}, !.cust = NoCustomer]
  <2>1. /\ p.pc = "writeCustomer" /\ customer' = [customer EXCEPT ![p.customer] = new]
        /\ Goto(r, IF p.op = "edit" THEN Idle ELSE q)
        /\ UNCHANGED <<stock, ledger, session, drawer, sales, audited, used>>
    BY <1>3 DEF WriteCustomer
  <2>2. p.customer \in Customers /\ row \in CustomerRow /\ p.cust \in CustomerRow
    BY <1>0, <2>1, RowsTyped DEF Holding, HoldsCustomer, AtCustomer, Request
  <2>3. new \in CustomerRow
    BY <2>2, MergedTypes
  <2> HIDE DEF new
  <2>4. TablesOK'
    BY <2>1, <2>3 DEF TypeInv, TablesOK
  <2>5a. "entry" \in Pc /\ {} \in SUBSET Columns /\ NoCustomer \in CustomerRow
    BY IdleTyped DEF Pc
  <2>5. /\ q \in Request /\ q.pc = "entry" /\ q.op = p.op /\ q.id = p.id
        /\ q.basket = p.basket /\ q.amount = p.amount /\ q.customer = p.customer
        /\ q.method = p.method /\ q.session = p.session /\ q.wrote = p.wrote /\ q.left = p.left
    BY ONLY <1>0, <2>5a DEF Request
  <2> HIDE DEF q
  <2>6. p.op # "edit" => Holding(q, Len(session)) /\ HoldsId(q, used.calls)
    BY <1>0, <2>1, <2>5
    DEF Holding, HoldsOp, HoldsBasket, HoldsCustomer, HoldsSession, HoldsId, Selling, AtCustomer,
        AtSession
  <2>7. session' = session /\ audited' = audited /\ audited' \subseteq 1..used.calls
        /\ UNCHANGED used /\ Len(session) <= Len(session')
    BY <1>0, <2>1 DEF TypeInv
  <2> QED
    BY <2>1, <2>4, <2>6, <2>7, GotoTypes, ReturnTypes
<1>4. CASE InsertEntry(r)
  <2> DEFINE q == [p EXCEPT !.pc = "audit"]
  <2>1. /\ p.pc = "entry" /\ ledger' = Append(ledger, Entry(p))
        /\ Goto(r, IF p.op = "sale" THEN q ELSE Idle)
        /\ UNCHANGED <<stock, customer, session, drawer, sales, audited, used>>
    BY <1>4 DEF InsertEntry, AfterEntry
  <2>2. Entry(p) \in LedgerRow
    BY <1>0, <2>1 DEF Entry, LedgerRow, Holding, HoldsCustomer, Request
  <2>3. TablesOK'
    BY <2>1, <2>2 DEF TypeInv, TablesOK
  <2>4a. "audit" \in Pc
    BY DEF Pc
  <2>4. /\ q \in Request /\ q.pc = "audit" /\ q.op = p.op /\ q.id = p.id
        /\ q.basket = p.basket /\ q.amount = p.amount /\ q.customer = p.customer
        /\ q.method = p.method /\ q.session = p.session /\ q.wrote = p.wrote /\ q.left = p.left
    BY ONLY <1>0, <2>4a DEF Request
  <2> HIDE DEF q
  <2>5. p.op = "sale" => Holding(q, Len(session)) /\ HoldsId(q, used.calls)
    BY <1>0, <2>1, <2>4
    DEF Holding, HoldsOp, HoldsBasket, HoldsCustomer, HoldsSession, HoldsId, Selling, AtCustomer,
        AtSession
  <2>6. session' = session /\ audited' = audited /\ audited' \subseteq 1..used.calls
        /\ UNCHANGED used /\ Len(session) <= Len(session')
    BY <1>0, <2>1 DEF TypeInv
  <2> QED
    BY <2>1, <2>3, <2>5, <2>6, GotoTypes, ReturnTypes
<1> QED
  BY <1>1, <1>2, <1>3, <1>4

\* The statements of registerCashSale, closeSession, addMovement and openSession.
LEMMA SessionStepTypes ==
    ASSUME TypeInv, NEW r \in Requests,
           \/ LoadSession(r) \/ SelectSession(r) \/ WriteSession(r) \/ InsertSession(r)
           \/ InsertMovement(r)
    PROVE  TypeInv'
<1> PICK p : p = req[r]
  OBVIOUS
<1>0. p \in Request /\ Holding(p, Len(session)) /\ HoldsId(p, used.calls) /\ Len(session) \in Nat
  BY RowsTyped
<1>1. ASSUME p.pc \in AtSession \cup {"session", "move"}
      PROVE  p.session \in DOMAIN session /\ p.session \in Nat \ {0}
             /\ session[p.session] \in SessionRow
  <2>1. p.session \in 0..Len(session) /\ p.session # 0
    BY <1>0, <1>1 DEF Holding, HoldsSession
  <2>2. p.session \in DOMAIN session
    BY <1>0, <2>1, RowsTyped
  <2> QED
    BY <2>2, RowsTyped
<1>2. CASE LoadSession(r)
  <2> DEFINE row == session[p.session]
             sess == [row EXCEPT !.expected = @ + p.amount]
             q == [p EXCEPT !.pc = "selectSession", !.sess = sess]
  <2>1. p.pc = "session"
    BY <1>2 DEF LoadSession
  <2>2. row \in SessionRow /\ p.amount \in Int /\ p.session # 0
    BY <1>0, <1>1, <2>1 DEF Request
  <2>3. \/ Goto(r, q) /\ UNCHANGED <<db, used>>
        \/ Throw(r) /\ UNCHANGED used
    BY <1>2 DEF LoadSession
  <2>4. sess \in SessionRow
    <3>1. row.expected + p.amount \in Int
      BY <2>2 DEF SessionRow
    <3> QED
      BY <2>2, <3>1 DEF SessionRow
  <2> HIDE DEF sess, row
  <2>5a. "selectSession" \in Pc
    BY DEF Pc
  <2>5. /\ q \in Request /\ q.pc = "selectSession" /\ q.op = p.op /\ q.id = p.id
        /\ q.basket = p.basket /\ q.amount = p.amount /\ q.customer = p.customer
        /\ q.method = p.method /\ q.session = p.session /\ q.wrote = p.wrote /\ q.left = p.left
    BY ONLY <1>0, <2>4, <2>5a DEF Request
  <2> HIDE DEF q
  <2>6. Holding(q, Len(session)) /\ HoldsId(q, used.calls)
    BY <1>0, <2>1, <2>2, <2>5
    DEF Holding, HoldsOp, HoldsBasket, HoldsCustomer, HoldsSession, HoldsId, Selling, AtCustomer,
        AtSession
  <2> QED
    BY <2>3, <2>6, GotoKeepsTypes, ThrowTypes
<1>3. CASE SelectSession(r)
  <2> DEFINE row == session[p.session]
             cols == {c \in DOMAIN row \ {"user", "opening"} : p.sess[c] # row[c]}
             q == [p EXCEPT !.pc = "writeSession", !.cols = cols]
  <2>1. p.pc = "selectSession" /\ Goto(r, q) /\ UNCHANGED <<db, used>>
    BY <1>3 DEF SelectSession
  <2>2. row \in SessionRow
    BY <1>1, <2>1 DEF AtSession
  <2>3. cols \in SUBSET Columns
    BY <2>2 DEF SessionRow, Columns
  <2> HIDE DEF cols
  <2>4a. "writeSession" \in Pc
    BY DEF Pc
  <2>4. /\ q \in Request /\ q.pc = "writeSession" /\ q.op = p.op /\ q.id = p.id
        /\ q.basket = p.basket /\ q.amount = p.amount /\ q.customer = p.customer
        /\ q.method = p.method /\ q.session = p.session /\ q.wrote = p.wrote /\ q.left = p.left
    BY ONLY <1>0, <2>3, <2>4a DEF Request
  <2> HIDE DEF q
  <2>5. Holding(q, Len(session)) /\ HoldsId(q, used.calls)
    BY <1>0, <2>1, <2>4
    DEF Holding, HoldsOp, HoldsBasket, HoldsCustomer, HoldsSession, HoldsId, Selling, AtCustomer,
        AtSession
  <2> QED
    BY <2>1, <2>5, GotoKeepsTypes
<1>4. CASE WriteSession(r)
  <2> DEFINE row == session[p.session]
             new == [c \in DOMAIN row |-> IF c \in p.cols THEN p.sess[c] ELSE row[c]]
             base == [p EXCEPT !.cols = {}, !.sess = NoSession(AnyCashier)]
  <2>1. /\ p.pc = "writeSession" /\ session' = [session EXCEPT ![p.session] = new]
        /\ Goto(r, AfterSession(base))
        /\ UNCHANGED <<stock, customer, ledger, drawer, sales, audited, used>>
    BY <1>4 DEF WriteSession
  <2>2. p.session \in DOMAIN session /\ row \in SessionRow /\ p.sess \in SessionRow
    BY <1>0, <1>1, <2>1 DEF AtSession, Request
  <2> HIDE DEF row
  <2>3. new \in SessionRow
    BY ONLY <2>2, MergedTypes
  <2> HIDE DEF new
  <2>4. TablesOK' /\ Len(session') = Len(session)
    <3>1. session \in Seq(SessionRow)
      BY DEF TypeInv, TablesOK
    <3>2. session' \in Seq(SessionRow) /\ Len(session') = Len(session)
      BY ONLY <2>1, <2>2, <2>3, <3>1, RowReplaced
    <3> QED
      BY <2>1, <3>2 DEF TypeInv, TablesOK
  <2>5. /\ base \in Request /\ base.op = p.op /\ base.id = p.id
        /\ base.basket = p.basket /\ base.amount = p.amount /\ base.customer = p.customer
        /\ base.method = p.method /\ base.session = p.session /\ base.wrote = p.wrote
        /\ base.left = p.left
    <3>1. {} \in SUBSET Columns /\ NoSession(AnyCashier) \in SessionRow
      BY IdleTyped
    <3> QED
      BY ONLY <1>0, <3>1 DEF Request
  <2> HIDE DEF base
  <2>6. ASSUME NEW pc \in {"audit", "move"}, p.op = (IF pc = "audit" THEN "sale" ELSE "movement")
        PROVE  /\ Holding([base EXCEPT !.pc = pc], Len(session'))
               /\ HoldsId([base EXCEPT !.pc = pc], used.calls)
    <3> DEFINE q == [base EXCEPT !.pc = pc]
    <3>1. pc \in Pc
      BY DEF Pc
    <3>2. /\ q \in Request /\ q.pc = pc /\ q.op = p.op /\ q.id = p.id
          /\ q.basket = p.basket /\ q.amount = p.amount /\ q.customer = p.customer
          /\ q.method = p.method /\ q.session = p.session /\ q.wrote = p.wrote /\ q.left = p.left
      BY ONLY <2>5, <3>1 DEF Request
    <3> HIDE DEF q
    <3>3. Holding(q, Len(session')) /\ HoldsId(q, used.calls)
      BY <1>0, <1>1, <2>1, <2>4, <2>6, <3>2
      DEF Holding, HoldsOp, HoldsBasket, HoldsCustomer, HoldsSession, HoldsId, Selling,
          AtCustomer, AtSession
    <3> QED
      BY <3>3 DEF q
  <2>7. audited' = audited /\ audited' \subseteq 1..used.calls /\ UNCHANGED used
        /\ Len(session) <= Len(session')
    BY <1>0, <2>1, <2>4 DEF TypeInv
  <2>8. p.op \in {"sale", "movement", "close"}
    BY <1>0, <2>1 DEF Holding, HoldsOp, AtSession
  <2>9. CASE p.op = "sale"
    <3>1. Goto(r, [base EXCEPT !.pc = "audit"])
      BY <2>1, <2>5, <2>9 DEF AfterSession
    <3> QED
      BY <2>4, <2>6, <2>7, <2>9, <3>1, GotoTypes
  <2>10. CASE p.op = "movement"
    <3>1. Goto(r, [base EXCEPT !.pc = "move"])
      BY <2>1, <2>5, <2>10 DEF AfterSession
    <3> QED
      BY <2>4, <2>6, <2>7, <2>10, <3>1, GotoTypes
  <2>11. CASE p.op = "close"
    <3>1. Goto(r, Idle)
      BY <2>1, <2>5, <2>11 DEF AfterSession
    <3> QED
      BY <2>4, <2>7, <3>1, ReturnTypes
  <2> QED
    BY <2>8, <2>9, <2>10, <2>11
<1>5. CASE InsertSession(r)
  <2>1. /\ session' = Append(session, p.sess) /\ Goto(r, Idle)
        /\ UNCHANGED <<stock, customer, ledger, drawer, sales, audited, used>>
    BY <1>5 DEF InsertSession
  <2>2. p.sess \in SessionRow /\ session \in Seq(SessionRow)
    BY <1>0 DEF Request, TypeInv, TablesOK
  <2>3. session' \in Seq(SessionRow) /\ Len(session) <= Len(session')
    BY <2>1, <2>2
  <2>4. TablesOK'
    BY <2>1, <2>3 DEF TypeInv, TablesOK
  <2> QED
    BY <2>1, <2>3, <2>4, ReturnTypes
<1>6. CASE InsertMovement(r)
  <2>1. /\ p.pc = "move" /\ Goto(r, Idle)
        /\ drawer' = Append(drawer, [session |-> p.session, amount |-> p.amount])
        /\ UNCHANGED <<stock, customer, ledger, session, sales, audited, used>>
    BY <1>6 DEF InsertMovement
  <2>2. [session |-> p.session, amount |-> p.amount] \in CashMovementRow
    BY <1>0, <1>1, <2>1 DEF CashMovementRow, Request
  <2>3. TablesOK'
    BY <2>1, <2>2 DEF TypeInv, TablesOK
  <2>4. Len(session) <= Len(session')
    BY <1>0, <2>1
  <2> QED
    BY <2>1, <2>3, <2>4, ReturnTypes
<1> QED
  BY <1>2, <1>3, <1>4, <1>5, <1>6

\* The end of a sale.
LEMMA SaleEndTypes ==
    ASSUME TypeInv, NEW r \in Requests, LogAudit(r) \/ Commit(r)
    PROVE  TypeInv'
<1> PICK p : p = req[r]
  OBVIOUS
<1>0. p \in Request /\ Holding(p, Len(session)) /\ HoldsId(p, used.calls) /\ Len(session) \in Nat
      /\ used.calls \in Nat
  BY RowsTyped
<1>1. CASE LogAudit(r)
  <2> DEFINE q == [p EXCEPT !.pc = "commit"]
  <2>1. /\ p.pc = "audit" /\ audited' = audited \cup {p.id} /\ Goto(r, q)
        /\ UNCHANGED <<stock, customer, ledger, session, drawer, sales, used>>
    BY <1>1 DEF LogAudit
  <2>2. p.op = "sale" /\ p.id \in 1..used.calls
    BY <1>0, <2>1 DEF Holding, HoldsOp, HoldsId, Selling
  <2>3. TablesOK' /\ audited' \subseteq 1..used.calls /\ Len(session) <= Len(session')
    BY <1>0, <2>1, <2>2 DEF TypeInv, TablesOK
  <2>4a. "commit" \in Pc
    BY DEF Pc
  <2>4. /\ q \in Request /\ q.pc = "commit" /\ q.op = p.op /\ q.id = p.id
        /\ q.basket = p.basket /\ q.amount = p.amount /\ q.customer = p.customer
        /\ q.method = p.method /\ q.session = p.session /\ q.wrote = p.wrote /\ q.left = p.left
    BY ONLY <1>0, <2>4a DEF Request
  <2> HIDE DEF q
  <2>5. Holding(q, Len(session')) /\ HoldsId(q, used.calls)
    BY <1>0, <2>1, <2>4
    DEF Holding, HoldsOp, HoldsBasket, HoldsCustomer, HoldsSession, HoldsId, Selling, AtCustomer,
        AtSession
  <2> QED
    BY <2>1, <2>3, <2>5, GotoTypes
<1>2. CASE Commit(r)
  <2> DEFINE x == [id |-> p.id, method |-> p.method, customer |-> p.customer,
                   session |-> p.session, basket |-> p.basket, total |-> p.amount,
                   tax |-> Receipt(p.basket).tax]
  <2>1. /\ p.pc = "commit" /\ stock' = [y \in Products |-> Sees(p, y)]
        /\ sales' = sales \cup {x} /\ Goto(r, Idle)
        /\ UNCHANGED <<customer, ledger, session, drawer, audited, used>>
    BY <1>2 DEF Commit
  <2>2. p.op = "sale" /\ p.id \in Nat \ {0}
    BY <1>0, <2>1 DEF Holding, HoldsOp, HoldsId, Selling
  <2>3. p.basket \in Baskets /\ p.amount = Receipt(p.basket).total
    BY <1>0, <2>2 DEF Holding, HoldsBasket
  <2>4. p.amount \in Nat /\ Receipt(p.basket).tax \in Int
    BY <2>3, ReceiptType
  <2>5. x \in SaleRow
    BY <1>0, <2>2, <2>4 DEF SaleRow, Request
  <2> HIDE DEF x
  <2>6. \A y \in Products : Sees(p, y) \in Nat
    BY <1>0, RowsTyped DEF Holding, HoldsBasket, Request, Sees
  <2>7. TablesOK' /\ Len(session) <= Len(session')
    BY <1>0, <2>1, <2>5, <2>6 DEF TypeInv, TablesOK
  <2> QED
    BY <2>1, <2>7, ReturnTypes
<1> QED
  BY <1>1, <1>2

\* Any statement.
LEMMA RunTypes ==
    ASSUME TypeInv, NEW r \in Requests, Run(r)
    PROVE  TypeInv'
  BY ItemStepTypes, CustomerStepTypes, SessionStepTypes, SaleEndTypes DEF Run

\* A request that dies.
LEMMA DieTypes ==
    ASSUME TypeInv, NEW r \in Requests, Die(r)
    PROVE  TypeInv'
<1>1. TablesOK' /\ session' = session /\ audited' = audited
  BY DEF Die, Throw, db, TypeInv, TablesOK
<1>2. used' = [used EXCEPT !.faults = used.faults + 1] /\ used.faults < MaxFaults
  BY DEF Die
<1>3. UsedOK' /\ used'.calls = used.calls
  <2>1. used.calls \in 0..MaxCalls /\ used.overlaps \in 0..MaxOverlaps /\ used.faults \in 0..MaxFaults
    BY DEF TypeInv, UsedOK
  <2>2. used.faults + 1 \in 0..MaxFaults
    BY <1>2, <2>1, TillAssumption, SMTT(30)
  <2> QED
    BY <1>2, <2>1, <2>2 DEF TypeInv, UsedOK
<1>4. RequestsHold'
  <2>1. Holding(Idle, Len(session')) /\ HoldsId(Idle, used'.calls) /\ Len(session) <= Len(session')
        /\ used.calls <= used'.calls
    BY <1>1, <1>3, IdleHolds, RowsTyped
  <2>2. req' = [req EXCEPT ![r] = Idle]
    BY DEF Die, Throw, Goto
  <2> QED
    BY <1>1, <1>3, <2>1, <2>2, GoesOn
<1> QED
  BY <1>1, <1>3, <1>4 DEF TypeInv

\* The first state.
LEMMA InitTypes ==
    ASSUME Init
    PROVE  TypeInv
<1>1. Max(Limits) \in Limits /\ Max(Limits) \in Nat
  <2>1. Limits \subseteq Int
    BY TillAssumption
  <2> QED
    BY <2>1, TillAssumption, MaxIsLargest
<1>2. session \in Seq(SessionRow)
  BY IdleTyped DEF Init
<1>3. customer \in [Customers -> CustomerRow]
  BY <1>1 DEF Init, CustomerRow
<1>4. TablesOK
  <2>1. stock \in [Products -> Nat]
    BY TillAssumption DEF Init
  <2>2. ledger \in Seq(LedgerRow) /\ drawer \in Seq(CashMovementRow) /\ sales \subseteq SaleRow
    BY DEF Init
  <2> QED
    BY <1>2, <1>3, <2>1, <2>2 DEF TablesOK
<1>5. UsedOK /\ audited = {}
  BY TillAssumption DEF Init, UsedOK
<1>6. RequestsHold
  BY <1>2, IdleTyped, IdleHolds DEF Init, RequestsHold
<1> QED
  BY <1>4, <1>5, <1>6 DEF TypeInv

\* Every step.
LEMMA NextTypes ==
    ASSUME TypeInv, [Next]_vars
    PROVE  TypeInv'
<1>1. CASE UNCHANGED vars
  BY <1>1 DEF vars, TypeInv, TablesOK, UsedOK, RequestsHold
<1> QED
  BY <1>1, BeginTypes, RunTypes, DieTypes DEF Next

\* The types of what the tables and the requests hold, in every state.
LEMMA TypesAlways == Spec => []TypeInv
  BY InitTypes, NextTypes, PTL DEF Spec

\* The types of the tables and of the handlers' variables hold in every state: no stock
\* that is committed is negative, and no sale has a negative total.
THEOREM TypesHold == Spec => []TypeOK
<1>1. ASSUME TypeInv
      PROVE  TypeOK
  <2>1. used.calls \in 0..MaxCalls /\ MaxCalls \in Nat
    BY <1>1, TillAssumption DEF TypeInv, UsedOK
  <2>2. audited \subseteq 1..MaxCalls
    BY <1>1, <2>1 DEF TypeInv
  <2> QED
    BY <1>1, <2>2 DEF TypeInv, TablesOK, UsedOK, RequestsHold, TypeOK
<1> QED
  BY <1>1, TypesAlways, PTL

-----------------------------------------------------------------------------
(* What is booked of a sale.  Its number is that of one request or of one committed *)
(* sale; while it runs it has an audit record only once it is about to commit, and  *)
(* a ledger entry only once its credit is entered.                                  *)

EntryOf(id, c, amount) ==
    \E k \in EntriesOf(id) :
      EntriesOf(id) = {k} /\ ledger[k].customer = c /\ ledger[k].amount = amount
IdsInv ==
    /\ \A r, s \in Requests : req[r].id = req[s].id /\ req[r].id # 0 => r = s
    /\ \A x \in sales : x.id \in 1..used.calls /\ \A r \in Requests : req[r].id # x.id
    /\ \A k \in DOMAIN ledger : ledger[k].sale \in 0..used.calls
\* A sale whose credit is in the ledger.
Entered(q) == q.pc \in {"audit", "commit"} /\ q.method = "CREDIT"
SaleInv(q) ==
    q.op = "sale" =>
      /\ q.id \in audited <=> q.pc = "commit"
      /\ IF Entered(q) THEN EntryOf(q.id, q.customer, q.amount) ELSE EntriesOf(q.id) = {}
Settled(x) == x.id \in audited /\ (x.method = "CREDIT" => EntryOf(x.id, x.customer, x.total))
BookedInv ==
    /\ IdsInv
    /\ \A x \in sales : Settled(x)
    /\ \A r \in Requests : SaleInv(req[r])

\* A request goes on without booking anything.
KeepsSale(p, q) ==
    IF q.op = "sale"
    THEN /\ p.op = "sale" /\ q.id = p.id /\ q.method = p.method /\ q.customer = p.customer
         /\ q.amount = p.amount
         /\ q.pc = "commit" <=> p.pc = "commit"
         /\ Entered(q) <=> Entered(p)
    ELSE q.id = 0

\* Then what is booked stays as it was.
LEMMA BookedStays ==
    ASSUME TypeInv, BookedInv, UNCHANGED <<ledger, sales, audited>>,
           used.calls <= used'.calls, used'.calls \in Nat,
           NEW r \in Requests, NEW q, req' = [req EXCEPT ![r] = q], KeepsSale(req[r], q)
    PROVE  BookedInv'
<1>1. used.calls \in Nat /\ \A s \in Requests : HoldsId(req[s], used.calls)
  BY RowsTyped
<1>2. \A s \in Requests : req'[s] = IF s = r THEN q ELSE req[s]
  BY DEF TypeInv, RequestsHold
<1>3. IdsInv'
  <2>1. q.id = req[r].id \/ q.id = 0
    BY DEF KeepsSale
  <2>2. \A s, t \in Requests : req'[s].id = req'[t].id /\ req'[s].id # 0 => s = t
    BY <1>2, <2>1 DEF BookedInv, IdsInv
  <2>3. \A x \in sales' : x.id \in 1..used'.calls /\ \A s \in Requests : req'[s].id # x.id
    BY <1>1, <1>2, <2>1 DEF BookedInv, IdsInv
  <2>4. \A k \in DOMAIN ledger' : ledger'[k].sale \in 0..used'.calls
    BY <1>1 DEF BookedInv, IdsInv
  <2> QED
    BY <2>2, <2>3, <2>4 DEF IdsInv
<1>4. \A id : EntriesOf(id)' = EntriesOf(id)
  BY DEF EntriesOf
<1>5. \A id, c, amount : EntryOf(id, c, amount)' <=> EntryOf(id, c, amount)
  BY <1>4 DEF EntryOf
<1>6. \A x \in sales' : Settled(x)'
  BY <1>5 DEF BookedInv, Settled
<1>7. \A s \in Requests : SaleInv(req[s])'
  <2>1. ASSUME NEW s \in Requests
        PROVE  SaleInv(req[s])'
    <3>1. CASE s # r
      BY <1>2, <1>4, <1>5, <3>1 DEF BookedInv, SaleInv, Entered
    <3>2. CASE s = r
      BY <1>2, <1>4, <1>5, <3>2 DEF BookedInv, SaleInv, Entered, KeepsSale
    <3> QED
      BY <3>1, <3>2
  <2> QED
    BY <2>1
<1> QED
  BY <1>3, <1>6, <1>7 DEF BookedInv

\* The calls: a sale has a number nobody has had before.
LEMMA BeginBooked ==
    ASSUME TypeInv, BookedInv, NEW r \in Requests, Begin(r)
    PROVE  BookedInv'
<1>0. used.calls \in Nat /\ \A s \in Requests : HoldsId(req[s], used.calls)
  BY RowsTyped
<1>1. ASSUME NEW q, Call(r, q), q.op # "sale", q.id = 0
      PROVE  BookedInv'
  <2>1. UNCHANGED <<ledger, sales, audited>> /\ req' = [req EXCEPT ![r] = q]
        /\ used'.calls = used.calls + 1
    BY <1>1 DEF Call, db, TypeInv, UsedOK
  <2>2. used.calls <= used'.calls /\ used'.calls \in Nat
    BY <1>0, <2>1
  <2>3. KeepsSale(req[r], q)
    BY <1>1 DEF KeepsSale
  <2> QED
    BY <2>1, <2>2, <2>3, BookedStays
<1>2. ASSUME NEW q, Call(r, q), q.op = "sale", q.id = used.calls + 1, q.pc = "begin"
      PROVE  BookedInv'
  <2>1. UNCHANGED <<ledger, sales, audited>> /\ req' = [req EXCEPT ![r] = q]
        /\ used'.calls = used.calls + 1
    BY <1>2 DEF Call, db, TypeInv, UsedOK
  <2>2. \A s \in Requests : req'[s] = IF s = r THEN q ELSE req[s]
    BY <2>1 DEF TypeInv, RequestsHold
  <2>3. \A s \in Requests : req[s].id \in 0..used.calls
    BY <1>0 DEF HoldsId
  <2>4. IdsInv'
    <3>1. \A s, t \in Requests : req'[s].id = req'[t].id /\ req'[s].id # 0 => s = t
      BY <1>0, <1>2, <2>2, <2>3 DEF BookedInv, IdsInv
    <3>2. \A x \in sales' : x.id \in 1..used'.calls /\ \A s \in Requests : req'[s].id # x.id
      BY <1>0, <1>2, <2>1, <2>2 DEF BookedInv, IdsInv
    <3>3. \A k \in DOMAIN ledger' : ledger'[k].sale \in 0..used'.calls
      BY <1>0, <2>1 DEF BookedInv, IdsInv
    <3> QED
      BY <3>1, <3>2, <3>3 DEF IdsInv
  <2>5. \A id : EntriesOf(id)' = EntriesOf(id)
    BY <2>1 DEF EntriesOf
  <2>6. \A id, c, amount : EntryOf(id, c, amount)' <=> EntryOf(id, c, amount)
    BY <2>1, <2>5 DEF EntryOf
  <2>7. \A x \in sales' : Settled(x)'
    BY <2>1, <2>6 DEF BookedInv, Settled
  <2>8. EntriesOf(q.id) = {} /\ q.id \notin audited
    BY <1>0, <1>2 DEF EntriesOf, BookedInv, IdsInv, TypeInv
  <2>9. \A s \in Requests : SaleInv(req[s])'
    <3>1. ASSUME NEW s \in Requests
          PROVE  SaleInv(req[s])'
      <4>1. CASE s # r
        BY <2>1, <2>2, <2>5, <2>6, <4>1 DEF BookedInv, SaleInv, Entered
      <4>2. CASE s = r
        BY <1>2, <2>1, <2>2, <2>5, <2>6, <2>8, <4>2 DEF SaleInv, Entered
      <4> QED
        BY <4>1, <4>2
    <3> QED
      BY <3>1
  <2> QED
    BY <2>4, <2>7, <2>9 DEF BookedInv
<1>3. Idle \in Request /\ Idle.id = 0
  BY IdleTyped
<1>4. ASSUME NEW basket, NEW method, NEW c, NEW s, BeginSale(r, basket, method, c, s)
      PROVE  BookedInv'
  <2> DEFINE amount == Receipt(basket).total
             q == [Idle EXCEPT !.op = "sale", !.pc = "begin", !.id = used.calls + 1,
                     !.method = method, !.basket = basket, !.item = 1,
                     !.customer = c, !.session = s, !.amount = amount]
  <2>1. Call(r, q)
    BY <1>4 DEF BeginSale
  <2> HIDE DEF amount
  <2>2. q.op = "sale" /\ q.id = used.calls + 1 /\ q.pc = "begin"
    BY <1>3 DEF Request
  <2> QED
    BY <1>2, <2>1, <2>2
<1>5. CASE SalesController(r)
  BY <1>4, <1>5 DEF SalesController
<1>6. CASE CustomersController(r)
  BY <1>1, <1>3, <1>6 DEF CustomersController, BeginPayment, BeginEdit, Request
<1>7. CASE CashController(r)
  BY <1>1, <1>3, <1>7 DEF CashController, BeginOpen, BeginClose, BeginMovement, Request
<1> QED
  BY <1>5, <1>6, <1>7 DEF Begin

\* The statements that book nothing of a sale.
LEMMA StepKeepsSale ==
    ASSUME TypeInv, NEW r \in Requests,
           \/ OpenTransaction(r) \/ CheckStock(r) \/ ReadBatch(r) \/ TakeUnits(r)
           \/ DeadlockVictim(r) \/ LoadCustomer(r) \/ SelectCustomer(r) \/ WriteCustomer(r)
           \/ LoadSession(r) \/ SelectSession(r) \/ WriteSession(r) \/ InsertSession(r)
           \/ InsertMovement(r)
    PROVE  /\ UNCHANGED <<ledger, sales, audited, used>>
           /\ \E q : req' = [req EXCEPT ![r] = q] /\ KeepsSale(req[r], q)
<1> PICK p : p = req[r]
  OBVIOUS
<1>0. p \in Request /\ HoldsOp(p) /\ HoldsCustomer(p) /\ HoldsId(p, used.calls)
  BY RowsTyped DEF Holding
<1>1. ASSUME NEW q, Goto(r, q), KeepsSale(p, q)
      PROVE  \E x : req' = [req EXCEPT ![r] = x] /\ KeepsSale(req[r], x)
  BY <1>1 DEF Goto
<1>2. KeepsSale(p, Idle)
  BY IdleTyped DEF KeepsSale
<1>3. CASE OpenTransaction(r)
  <2>1. KeepsSale(p, [p EXCEPT !.pc = "check"])
    BY <1>0, <1>3 DEF OpenTransaction, KeepsSale, Entered, Request, HoldsId
  <2> QED
    BY <1>1, <1>3, <2>1 DEF OpenTransaction, db
<1>4. CASE CheckStock(r)
  <2>1. p.pc = "check"
    BY <1>4 DEF CheckStock
  <2>2. /\ KeepsSale(p, [p EXCEPT !.item = @ + 1])
        /\ KeepsSale(p, [p EXCEPT !.pc = "read", !.item = 1])
    BY <1>0, <2>1 DEF KeepsSale, Entered, Request, HoldsId
  <2> QED
    BY <1>1, <1>2, <1>4, <2>2 DEF CheckStock, Throw, db
<1>5. CASE ReadBatch(r)
  <2> DEFINE units == Sees(p, ItemOf(p).product)
  <2>1. p.pc = "read"
    BY <1>5 DEF ReadBatch
  <2>2. KeepsSale(p, [p EXCEPT !.pc = "take", !.units = units])
    <3> HIDE DEF units
    <3> QED
      BY <1>0, <2>1 DEF KeepsSale, Entered, Request, HoldsId
  <2> QED
    BY <1>1, <1>2, <1>5, <2>2 DEF ReadBatch, Throw, db
<1>6. CASE TakeUnits(r)
  <2> DEFINE y == ItemOf(p).product
             rest == p.units - ItemOf(p).qty
             took == [p EXCEPT !.wrote = @ \cup {y}, !.left[y] = rest]
             more == [took EXCEPT !.pc = "read", !.item = @ + 1]
             last == AfterItems(took)
  <2>1. p.pc = "take" /\ Goto(r, IF p.item < Len(p.basket) THEN more ELSE last)
        /\ UNCHANGED <<db, used>>
    BY <1>6 DEF TakeUnits
  <2> HIDE DEF y, rest
  <2>2. /\ took.pc = p.pc /\ took.op = p.op /\ took.id = p.id /\ took.amount = p.amount
        /\ took.customer = p.customer /\ took.method = p.method /\ took.session = p.session
        /\ DOMAIN took = DOMAIN p
    BY <1>0 DEF Request
  <2> HIDE DEF took
  <2>3. KeepsSale(p, more)
    BY <1>0, <2>1, <2>2 DEF KeepsSale, Entered, Request, HoldsId
  <2>4. p.op = "sale" /\ p.method \in {"CASH", "CREDIT"}
        /\ (p.method = "CREDIT" => p.customer # "none")
    BY <1>0, <2>1, TillAssumption DEF HoldsOp, HoldsCustomer, Selling, Request
  <2>5. last = [took EXCEPT !.units = 0, !.pc = last.pc]
        /\ last.pc \in {"customer", "session", "audit"} /\ (last.pc = "audit" => p.method # "CREDIT")
    BY <1>0, <2>2, <2>4 DEF AfterItems, Request
  <2> HIDE DEF more, last
  <2>6. KeepsSale(p, last)
    <3>1. /\ last.op = p.op /\ last.id = p.id /\ last.method = p.method
          /\ last.customer = p.customer /\ last.amount = p.amount
      <4>1. {"op", "id", "method", "customer", "amount"} \subseteq DOMAIN p
        BY <1>0 DEF Request
      <4> QED
        BY <2>2, <2>5, <4>1
    <3>2. p.pc \notin {"commit", "audit"} /\ last.pc # "commit"
      BY <2>1, <2>5
    <3>3. Entered(last) <=> Entered(p)
      BY <2>1, <2>4, <2>5, <3>1 DEF Entered
    <3> QED
      BY <2>4, <3>1, <3>2, <3>3 DEF KeepsSale
  <2> QED
    BY <1>1, <2>1, <2>3, <2>6 DEF db
<1>7. CASE DeadlockVictim(r)
  BY <1>1, <1>2, <1>7 DEF DeadlockVictim, Throw, db
<1>8. CASE LoadCustomer(r)
  <2> DEFINE cust == [customer[p.customer] EXCEPT !.balance = @ + p.amount]
             q == [p EXCEPT !.pc = "selectCustomer", !.cust = cust]
  <2>1. p.pc = "customer"
    BY <1>8 DEF LoadCustomer
  <2>2. KeepsSale(p, q)
    <3> HIDE DEF cust
    <3> QED
      BY <1>0, <2>1 DEF KeepsSale, Entered, Request, HoldsId
  <2>3. Goto(r, q) \/ Goto(r, Idle)
    BY <1>8 DEF LoadCustomer, Throw
  <2>4. UNCHANGED <<ledger, sales, audited, used>>
    BY <1>8 DEF LoadCustomer, Throw, db
  <2> HIDE DEF q
  <2> QED
    BY <1>1, <1>2, <2>2, <2>3, <2>4
<1>9. CASE SelectCustomer(r)
  <2> DEFINE cols == {c \in DOMAIN customer[p.customer] : p.cust[c] # customer[p.customer][c]}
             q == [p EXCEPT !.pc = "writeCustomer", !.cols = cols]
  <2>1. p.pc = "selectCustomer" /\ Goto(r, q) /\ UNCHANGED <<db, used>>
    BY <1>9 DEF SelectCustomer
  <2>2. KeepsSale(p, q)
    <3> HIDE DEF cols
    <3> QED
      BY <1>0, <2>1 DEF KeepsSale, Entered, Request, HoldsId
  <2> HIDE DEF q
  <2> QED
    BY <1>1, <2>1, <2>2 DEF db
<1>10. CASE WriteCustomer(r)
  <2> DEFINE q == [p EXCEPT !.pc = "entry", !.cols = {}, !.cust = NoCustomer]
  <2>1. p.pc = "writeCustomer" /\ UNCHANGED <<ledger, sales, audited, used>>
        /\ Goto(r, IF p.op = "edit" THEN Idle ELSE q)
    BY <1>10 DEF WriteCustomer
  <2>2. KeepsSale(p, q)
    BY <1>0, <2>1 DEF KeepsSale, Entered, Request, HoldsId
  <2> HIDE DEF q
  <2> QED
    BY <1>1, <1>2, <2>1, <2>2
<1>11. CASE LoadSession(r)
  <2> DEFINE sess == [session[p.session] EXCEPT !.expected = @ + p.amount]
             q == [p EXCEPT !.pc = "selectSession", !.sess = sess]
  <2>1. p.pc = "session"
    BY <1>11 DEF LoadSession
  <2>2. KeepsSale(p, q)
    <3> HIDE DEF sess
    <3> QED
      BY <1>0, <2>1 DEF KeepsSale, Entered, Request, HoldsId
  <2>3. Goto(r, q) \/ Goto(r, Idle)
    BY <1>11 DEF LoadSession, Throw
  <2>4. UNCHANGED <<ledger, sales, audited, used>>
    BY <1>11 DEF LoadSession, Throw, db
  <2> HIDE DEF q
  <2> QED
    BY <1>1, <1>2, <2>2, <2>3, <2>4
<1>12. CASE SelectSession(r)
  <2> DEFINE row == session[p.session]
             cols == {c \in DOMAIN row \ {"user", "opening"} : p.sess[c] # row[c]}
             q == [p EXCEPT !.pc = "writeSession", !.cols = cols]
  <2>1. p.pc = "selectSession" /\ Goto(r, q) /\ UNCHANGED <<db, used>>
    BY <1>12 DEF SelectSession
  <2>2. KeepsSale(p, q)
    <3> HIDE DEF cols
    <3> QED
      BY <1>0, <2>1 DEF KeepsSale, Entered, Request, HoldsId
  <2> HIDE DEF q
  <2> QED
    BY <1>1, <2>1, <2>2 DEF db
<1>13. CASE WriteSession(r)
  <2> DEFINE base == [p EXCEPT !.cols = {}, !.sess = NoSession(AnyCashier)]
  <2>1. p.pc = "writeSession" /\ UNCHANGED <<ledger, sales, audited, used>>
        /\ Goto(r, AfterSession(base))
    BY <1>13 DEF WriteSession
  <2>2. p.op \in {"sale", "movement", "close"} /\ (p.op = "sale" => p.method = "CASH")
    BY <1>0, <2>1 DEF HoldsOp, HoldsCustomer, AtSession
  <2>3. base.op = p.op /\ base.id = p.id /\ base.method = p.method /\ base.amount = p.amount
        /\ base.customer = p.customer /\ DOMAIN base = DOMAIN p
    BY <1>0 DEF Request
  <2> HIDE DEF base
  <2>4. /\ p.op = "sale" => AfterSession(base) = [base EXCEPT !.pc = "audit"]
        /\ p.op = "movement" => AfterSession(base) = [base EXCEPT !.pc = "move"]
        /\ p.op = "close" => AfterSession(base) = Idle
    BY <2>3 DEF AfterSession
  <2>5. KeepsSale(p, AfterSession(base))
    <3>1. CASE p.op = "sale"
      <4> DEFINE q == [base EXCEPT !.pc = "audit"]
      <4>1. q.pc = "audit" /\ q.op = p.op /\ q.id = p.id /\ q.method = p.method
            /\ q.amount = p.amount /\ q.customer = p.customer
        BY <1>0, <2>3 DEF Request
      <4> HIDE DEF q
      <4>2. KeepsSale(p, q)
        BY <2>1, <2>2, <3>1, <4>1 DEF KeepsSale, Entered
      <4> QED
        BY <2>4, <3>1, <4>2 DEF q
    <3>2. CASE p.op = "movement"
      <4> DEFINE q == [base EXCEPT !.pc = "move"]
      <4>1. q.op = p.op /\ q.id = p.id
        BY <1>0, <2>3 DEF Request
      <4> HIDE DEF q
      <4>2. KeepsSale(p, q)
        BY <1>0, <3>2, <4>1 DEF KeepsSale, HoldsId
      <4> QED
        BY <2>4, <3>2, <4>2 DEF q
    <3>3. CASE p.op = "close"
      BY <1>2, <2>4, <3>3
    <3> QED
      BY <2>2, <3>1, <3>2, <3>3
  <2> QED
    BY <1>1, <2>1, <2>5
<1>14. CASE InsertSession(r)
  BY <1>1, <1>2, <1>14 DEF InsertSession
<1>15. CASE InsertMovement(r)
  BY <1>1, <1>2, <1>15 DEF InsertMovement
<1> QED
  BY <1>3, <1>4, <1>5, <1>6, <1>7, <1>8, <1>9, <1>10, <1>11, <1>12, <1>13, <1>14, <1>15

\* The ledger with one entry more.
LEMMA EntriesAfter ==
    ASSUME TypeInv, NEW e \in LedgerRow, ledger' = Append(ledger, e)
    PROVE  /\ Len(ledger) \in Nat
           /\ \A id \in Nat : EntriesOf(id)' = EntriesOf(id)
                \cup (IF e.sale = id /\ id # 0 THEN {Len(ledger) + 1} ELSE {})
           /\ \A k \in DOMAIN ledger : k \in DOMAIN ledger' /\ ledger'[k] = ledger[k]
           /\ DOMAIN ledger' = DOMAIN ledger \cup {Len(ledger) + 1}
           /\ ledger'[Len(ledger) + 1] = e
<1>1. ledger \in Seq(LedgerRow) /\ Len(ledger) \in Nat /\ DOMAIN ledger = 1..Len(ledger)
  BY DEF TypeInv, TablesOK
<1>2. DOMAIN ledger' = 1..(Len(ledger) + 1) /\ ledger'[Len(ledger) + 1] = e
      /\ \A k \in 1..Len(ledger) : ledger'[k] = ledger[k]
  BY <1>1
<1>3. DOMAIN ledger' = DOMAIN ledger \cup {Len(ledger) + 1} /\ Len(ledger) + 1 \notin DOMAIN ledger
  BY <1>1, <1>2
<1>4. ASSUME NEW id \in Nat
      PROVE  EntriesOf(id)' = EntriesOf(id)
                \cup (IF e.sale = id /\ id # 0 THEN {Len(ledger) + 1} ELSE {})
  <2>1. CASE e.sale = id /\ id # 0
    BY <1>1, <1>2, <1>3, <2>1 DEF EntriesOf
  <2>2. CASE ~(e.sale = id /\ id # 0)
    BY <1>1, <1>2, <1>3, <2>2 DEF EntriesOf
  <2> QED
    BY <2>1, <2>2
<1> QED
  BY <1>1, <1>2, <1>3, <1>4

\* The statements that book a sale: its credit, its audit record, its commit.
LEMMA EntryBooked ==
    ASSUME TypeInv, BookedInv, NEW r \in Requests, InsertEntry(r)
    PROVE  BookedInv'
<1> PICK p : p = req[r]
  OBVIOUS
<1>0. p \in Request /\ Holding(p, Len(session)) /\ HoldsId(p, used.calls) /\ used.calls \in Nat
      /\ p.id \in 0..used.calls
  BY RowsTyped DEF HoldsId
<1> DEFINE q == [p EXCEPT !.pc = "audit"]
           n == Len(ledger) + 1
<1>1. /\ p.pc = "entry" /\ ledger' = Append(ledger, Entry(p))
      /\ req' = [req EXCEPT ![r] = IF p.op = "sale" THEN q ELSE Idle]
      /\ UNCHANGED <<stock, customer, session, drawer, sales, audited, used>>
  BY DEF InsertEntry, AfterEntry, Goto
<1>2. /\ p.op \in {"sale", "payment"} /\ (p.op = "sale" => p.method = "CREDIT")
      /\ p.customer \in Customers
  BY <1>0, <1>1 DEF Holding, HoldsOp, HoldsCustomer
<1>3. Entry(p) \in LedgerRow /\ Entry(p).sale = p.id /\ Entry(p).customer = p.customer
      /\ Entry(p).amount = p.amount
  BY <1>0, <1>2 DEF Entry, LedgerRow, Request
<1>4. /\ n \in Nat
      /\ \A id \in Nat : EntriesOf(id)' = EntriesOf(id)
           \cup (IF p.id = id /\ id # 0 THEN {n} ELSE {})
      /\ \A k \in DOMAIN ledger : k \in DOMAIN ledger' /\ ledger'[k] = ledger[k]
      /\ DOMAIN ledger' = DOMAIN ledger \cup {n}
      /\ ledger'[n] = Entry(p)
  BY <1>1, <1>3, EntriesAfter
<1>5. q.id = p.id /\ q.op = p.op /\ q.pc = "audit" /\ q.method = p.method
      /\ q.customer = p.customer /\ q.amount = p.amount
  BY <1>0 DEF Request
<1> HIDE DEF q, n
<1>6. \A s \in Requests : /\ s # r => req'[s] = req[s] /\ (req[s].id # 0 => req[s].id # p.id)
                          /\ req[s].id \in 0..used.calls
  BY <1>1, RowsTyped DEF TypeInv, RequestsHold, BookedInv, IdsInv, HoldsId
<1>7. req'[r] = IF p.op = "sale" THEN q ELSE Idle
  BY <1>1 DEF TypeInv, RequestsHold
<1>8. req'[r].id = p.id \/ req'[r].id = 0
  BY <1>5, <1>7, IdleTyped
<1>9. IdsInv'
  <2>1. \A s, t \in Requests : req'[s].id = req'[t].id /\ req'[s].id # 0 => s = t
    BY <1>6, <1>8 DEF BookedInv, IdsInv
  <2>2. \A x \in sales' : x.id \in 1..used'.calls /\ \A s \in Requests : req'[s].id # x.id
    BY <1>0, <1>1, <1>6, <1>8 DEF BookedInv, IdsInv
  <2>3. \A k \in DOMAIN ledger' : ledger'[k].sale \in 0..used'.calls
    BY <1>0, <1>1, <1>3, <1>4 DEF BookedInv, IdsInv
  <2> QED
    BY <2>1, <2>2, <2>3 DEF IdsInv
<1>10. ASSUME NEW id \in Nat, id # p.id
       PROVE  EntriesOf(id)' = EntriesOf(id)
              /\ \A c, amount : EntryOf(id, c, amount) => EntryOf(id, c, amount)'
  <2>1. EntriesOf(id)' = EntriesOf(id)
    BY <1>4, <1>10
  <2>2. EntriesOf(id) \subseteq DOMAIN ledger
    BY DEF EntriesOf
  <2> QED
    BY <1>4, <2>1, <2>2 DEF EntryOf
<1>11. \A x \in sales' : Settled(x)'
  <2>1. ASSUME NEW x \in sales
        PROVE  Settled(x)'
    <3>1. x.id \in Nat /\ x.id # p.id /\ Settled(x)
      BY <1>0 DEF BookedInv, IdsInv
    <3> QED
      BY <1>1, <1>10, <3>1 DEF Settled
  <2> QED
    BY <1>1, <2>1
<1>12. ASSUME NEW s \in Requests
       PROVE  SaleInv(req[s])'
  <2>1. CASE s # r
    <3>1. req'[s] = req[s] /\ SaleInv(req[s]) /\ req[s].id \in Nat
      BY <1>0, <1>6, <2>1 DEF BookedInv
    <3>2. req[s].op = "sale" => req[s].id # p.id
      BY <1>6, <2>1, RowsTyped DEF HoldsId
    <3>3. req[s].op = "sale" =>
            /\ EntriesOf(req[s].id)' = EntriesOf(req[s].id)
            /\ EntryOf(req[s].id, req[s].customer, req[s].amount)
                 => EntryOf(req[s].id, req[s].customer, req[s].amount)'
      <4>1. PICK t : t = req[s]
        OBVIOUS
      <4>2. t.op = "sale" =>
            /\ EntriesOf(t.id)' = EntriesOf(t.id)
            /\ EntryOf(t.id, t.customer, t.amount) => EntryOf(t.id, t.customer, t.amount)'
        BY <1>10, <3>1, <3>2, <4>1
      <4> QED
        BY <3>1, <4>1, <4>2 DEF EntriesOf, EntryOf
    <3> QED
      BY <1>1, <3>1, <3>3 DEF SaleInv, Entered
  <2>2. CASE s = r /\ p.op = "sale"
    <3>1. req'[s] = q /\ SaleInv(p) /\ p.id \in Nat \ {0}
      BY <1>0, <1>7, <2>2 DEF BookedInv, HoldsId
    <3>2. EntriesOf(p.id) = {} /\ p.id \notin audited
      BY <1>1, <2>2, <3>1 DEF SaleInv, Entered
    <3>3. EntriesOf(p.id)' = {n}
      BY <1>4, <3>1, <3>2
    <3>4. EntryOf(p.id, p.customer, p.amount)'
      BY <1>3, <1>4, <3>3 DEF EntryOf
    <3> QED
      BY <1>1, <1>2, <1>5, <2>2, <3>1, <3>2, <3>4 DEF SaleInv, Entered
  <2>3. CASE s = r /\ p.op # "sale"
    BY <1>7, <2>3, IdleTyped DEF SaleInv
  <2> QED
    BY <2>1, <2>2, <2>3
<1> QED
  BY <1>9, <1>11, <1>12 DEF BookedInv

\* The audit record of a sale is written after its entry.
LEMMA AuditBooked ==
    ASSUME TypeInv, BookedInv, NEW r \in Requests, LogAudit(r)
    PROVE  BookedInv'
<1> PICK p : p = req[r]
  OBVIOUS
<1>0. p \in Request /\ HoldsOp(p) /\ HoldsId(p, used.calls) /\ used.calls \in Nat
  BY RowsTyped DEF Holding
<1> DEFINE q == [p EXCEPT !.pc = "commit"]
<1>1. /\ p.pc = "audit" /\ audited' = audited \cup {p.id} /\ req' = [req EXCEPT ![r] = q]
      /\ UNCHANGED <<stock, customer, ledger, session, drawer, sales, used>>
  BY DEF LogAudit, Goto
<1>2. p.op = "sale" /\ p.id \in 1..used.calls
  BY <1>0, <1>1 DEF HoldsOp, HoldsId, Selling
<1>3. q.id = p.id /\ q.op = p.op /\ q.pc = "commit" /\ q.method = p.method
      /\ q.customer = p.customer /\ q.amount = p.amount
  BY <1>0 DEF Request
<1> HIDE DEF q
<1>4. \A s \in Requests : req'[s] = IF s = r THEN q ELSE req[s]
  BY <1>1 DEF TypeInv, RequestsHold
<1>5. IdsInv'
  <2>1. \A s, t \in Requests : req'[s].id = req'[t].id /\ req'[s].id # 0 => s = t
    BY <1>3, <1>4 DEF BookedInv, IdsInv
  <2>2. \A x \in sales' : x.id \in 1..used'.calls /\ \A s \in Requests : req'[s].id # x.id
    BY <1>1, <1>3, <1>4 DEF BookedInv, IdsInv
  <2>3. \A k \in DOMAIN ledger' : ledger'[k].sale \in 0..used'.calls
    BY <1>1 DEF BookedInv, IdsInv
  <2> QED
    BY <2>1, <2>2, <2>3 DEF IdsInv
<1>6. \A id : EntriesOf(id)' = EntriesOf(id)
  BY <1>1 DEF EntriesOf
<1>7. \A id, c, amount : EntryOf(id, c, amount)' <=> EntryOf(id, c, amount)
  BY <1>1, <1>6 DEF EntryOf
<1>8. \A x \in sales' : Settled(x)'
  BY <1>1, <1>7 DEF BookedInv, Settled
<1>9. ASSUME NEW s \in Requests
      PROVE  SaleInv(req[s])'
  <2>1. CASE s # r
    <3>1. req'[s] = req[s] /\ (req[s].op = "sale" => req[s].id # p.id)
      BY <1>2, <1>4, <2>1 DEF BookedInv, IdsInv
    <3> QED
      BY <1>1, <1>6, <1>7, <3>1 DEF BookedInv, SaleInv, Entered
  <2>2. CASE s = r
    BY <1>1, <1>2, <1>3, <1>4, <1>6, <1>7, <2>2 DEF BookedInv, SaleInv, Entered
  <2> QED
    BY <2>1, <2>2
<1> QED
  BY <1>5, <1>8, <1>9 DEF BookedInv

\* The transaction of a sale commits, its entry and its audit record being there.
LEMMA CommitBooked ==
    ASSUME TypeInv, BookedInv, NEW r \in Requests, Commit(r)
    PROVE  BookedInv'
<1> PICK p : p = req[r]
  OBVIOUS
<1>0. p \in Request /\ HoldsOp(p) /\ HoldsId(p, used.calls) /\ used.calls \in Nat
  BY RowsTyped DEF Holding
<1> DEFINE y == [id |-> p.id, method |-> p.method, customer |-> p.customer,
                 session |-> p.session, basket |-> p.basket, total |-> p.amount,
                 tax |-> Receipt(p.basket).tax]
<1>1. /\ p.pc = "commit" /\ sales' = sales \cup {y} /\ req' = [req EXCEPT ![r] = Idle]
      /\ UNCHANGED <<customer, ledger, session, drawer, audited, used>>
  BY DEF Commit, Goto
<1>2. p.op = "sale" /\ p.id \in 1..used.calls
  BY <1>0, <1>1 DEF HoldsOp, HoldsId, Selling
<1>3. y.id = p.id /\ y.method = p.method /\ y.customer = p.customer /\ y.total = p.amount
  OBVIOUS
<1> HIDE DEF y
<1>4. \A s \in Requests : req'[s] = IF s = r THEN Idle ELSE req[s]
  BY <1>1 DEF TypeInv, RequestsHold
<1>5. IdsInv'
  <2>1. \A s, t \in Requests : req'[s].id = req'[t].id /\ req'[s].id # 0 => s = t
    BY <1>4, IdleTyped DEF BookedInv, IdsInv
  <2>2. ASSUME NEW x \in sales'
        PROVE  x.id \in 1..used'.calls /\ \A s \in Requests : req'[s].id # x.id
    <3>1. CASE x \in sales
      BY <1>1, <1>4, <3>1, IdleTyped DEF BookedInv, IdsInv
    <3>2. CASE x = y
      BY <1>1, <1>2, <1>3, <1>4, <3>2, IdleTyped DEF BookedInv, IdsInv
    <3> QED
      BY <1>1, <3>1, <3>2
  <2>3. \A k \in DOMAIN ledger' : ledger'[k].sale \in 0..used'.calls
    BY <1>1 DEF BookedInv, IdsInv
  <2> QED
    BY <2>1, <2>2, <2>3 DEF IdsInv
<1>6. \A id : EntriesOf(id)' = EntriesOf(id)
  BY <1>1 DEF EntriesOf
<1>7. \A id, c, amount : EntryOf(id, c, amount)' <=> EntryOf(id, c, amount)
  BY <1>1, <1>6 DEF EntryOf
<1>8. ASSUME NEW x \in sales'
      PROVE  Settled(x)'
  <2>1. CASE x \in sales
    BY <1>1, <1>7, <2>1 DEF BookedInv, Settled
  <2>2. CASE x = y
    BY <1>1, <1>2, <1>3, <1>7, <2>2 DEF BookedInv, Settled, SaleInv, Entered
  <2> QED
    BY <1>1, <2>1, <2>2
<1>9. \A s \in Requests : SaleInv(req[s])'
  BY <1>1, <1>4, <1>6, <1>7, IdleTyped DEF BookedInv, SaleInv, Entered
<1> QED
  BY <1>5, <1>8, <1>9 DEF BookedInv

\* A request that dies takes nothing of what it booked with it.
LEMMA DieBooked ==
    ASSUME TypeInv, BookedInv, NEW r \in Requests, Die(r)
    PROVE  BookedInv'
<1>1. UNCHANGED <<ledger, sales, audited>> /\ req' = [req EXCEPT ![r] = Idle]
      /\ used'.calls = used.calls
  BY DEF Die, Throw, Goto, db, TypeInv, UsedOK
<1>2. used.calls <= used'.calls /\ used'.calls \in Nat
  BY <1>1, RowsTyped
<1>3. KeepsSale(req[r], Idle)
  BY IdleTyped DEF KeepsSale
<1> QED
  BY <1>1, <1>2, <1>3, BookedStays

\* Every step keeps the committed sales booked.
LEMMA NextBooked ==
    ASSUME TypeInv, BookedInv, [Next]_vars
    PROVE  BookedInv'
<1>1. CASE UNCHANGED vars
  BY <1>1
  DEF vars, BookedInv, IdsInv, Settled, EntryOf, EntriesOf, SaleInv, Entered
<1>2. ASSUME NEW r \in Requests, Run(r)
      PROVE  BookedInv'
  <2>1. CASE InsertEntry(r) \/ LogAudit(r) \/ Commit(r)
    BY <2>1, EntryBooked, AuditBooked, CommitBooked
  <2>2. CASE ~(InsertEntry(r) \/ LogAudit(r) \/ Commit(r))
    <3>1. /\ UNCHANGED <<ledger, sales, audited, used>>
          /\ \E q : req' = [req EXCEPT ![r] = q] /\ KeepsSale(req[r], q)
      BY <1>2, <2>2, StepKeepsSale DEF Run
    <3>2. used.calls <= used'.calls /\ used'.calls \in Nat
      BY <3>1, RowsTyped
    <3> QED
      BY <3>1, <3>2, BookedStays
  <2> QED
    BY <2>1, <2>2
<1> QED
  BY <1>1, <1>2, BeginBooked, DieBooked DEF Next

\* The sales are booked in every state.
LEMMA BookedAlways == Spec => [](TypeInv /\ BookedInv)
<1>1. Init => BookedInv
  BY IdleTyped DEF Init, BookedInv, IdsInv, SaleInv
<1> QED
  BY <1>1, InitTypes, NextTypes, NextBooked, PTL DEF Spec

\* A committed sale has its audit record and, if it was on credit, exactly one ledger
\* entry, of its customer and of its total, whatever overlapped or died.
THEOREM BookingHolds == Spec => []SaleIsBooked
<1>1. ASSUME TypeInv, BookedInv
      PROVE  SaleIsBooked
  <2>1. ASSUME NEW x \in sales
        PROVE  /\ x.id \in audited
               /\ x.method = "CREDIT" =>
                    /\ Cardinality(EntriesOf(x.id)) = 1
                    /\ \A k \in EntriesOf(x.id) :
                         ledger[k].customer = x.customer /\ ledger[k].amount = x.total
    <3>1. Settled(x)
      BY <1>1 DEF BookedInv
    <3>2. ASSUME x.method = "CREDIT"
          PROVE  /\ Cardinality(EntriesOf(x.id)) = 1
                 /\ \A k \in EntriesOf(x.id) :
                      ledger[k].customer = x.customer /\ ledger[k].amount = x.total
      <4>1. PICK k \in EntriesOf(x.id) :
              EntriesOf(x.id) = {k} /\ ledger[k].customer = x.customer /\ ledger[k].amount = x.total
        BY <3>1, <3>2 DEF Settled, EntryOf
      <4>2. Cardinality({k}) = 1
        BY FS_Singleton
      <4> QED
        BY <4>1, <4>2
    <3> QED
      BY <3>1, <3>2 DEF Settled
  <2> QED
    BY <2>1 DEF SaleIsBooked
<1> QED
  BY <1>1, BookedAlways, PTL

-----------------------------------------------------------------------------
(* Debts and audit records that are left behind.  A sale throws only before anything *)
(* of it is booked, so each of them is the trace of a request that died.              *)

Orphans == {id \in 1..used.calls : ~Lives(id) /\ (id \in audited \/ EntriesOf(id) # {})}

\* Orphans are counted.
LEMMA OrphansCounted ==
    ASSUME TypeInv
    PROVE  IsFiniteSet(Orphans) /\ Cardinality(Orphans) \in Nat
<1>1. used.calls \in Nat
  BY RowsTyped
<1>2. IsFiniteSet(1..used.calls)
  BY <1>1, FS_Interval
<1>3. Orphans \subseteq 1..used.calls
  BY DEF Orphans
<1> HIDE DEF Orphans
<1> QED
  BY <1>2, <1>3, FS_Subset, FS_CardinalityType

\* Nothing of a sale is booked while it may still throw, and a number that is not that
\* of a sale is none of those that are counted.
LEMMA UnbookedInHand ==
    ASSUME TypeInv, BookedInv, NEW r \in Requests, req[r].pc \notin {"audit", "commit"},
           NEW id, id = req[r].id, id # 0
    PROVE  id \notin audited /\ EntriesOf(id) = {}
<1>1. req[r].op = "sale"
  BY RowsTyped DEF HoldsId
<1> QED
  BY <1>1 DEF BookedInv, SaleInv, Entered

\* A request goes on, or ends, without booking anything: only what it had booked itself,
\* if it is gone, may become an orphan.
LEMMA OrphansStay ==
    ASSUME TypeInv, BookedInv, UNCHANGED <<ledger, sales, audited>>, used'.calls = used.calls,
           NEW r \in Requests, NEW q, req' = [req EXCEPT ![r] = q]
    PROVE  /\ Orphans' \subseteq Orphans \cup {req[r].id}
           /\ q.id = req[r].id \/ req[r].pc \notin {"audit", "commit"} => Orphans' \subseteq Orphans
<1>1. \A s \in Requests : req'[s] = IF s = r THEN q ELSE req[s]
  BY DEF TypeInv, RequestsHold
<1>2. \A id : EntriesOf(id)' = EntriesOf(id)
  BY DEF EntriesOf
<1>3. \A id : id # req[r].id => (Lives(id) => Lives(id)')
  BY <1>1 DEF Lives
<1>4. Orphans' \subseteq Orphans \cup {req[r].id}
  BY <1>2, <1>3 DEF Orphans
<1>5. ASSUME q.id = req[r].id
      PROVE  Orphans' \subseteq Orphans
  <2>1. \A id : Lives(id) => Lives(id)'
    BY <1>1, <1>5 DEF Lives
  <2> QED
    BY <1>2, <2>1 DEF Orphans
<1>6. ASSUME req[r].pc \notin {"audit", "commit"}
      PROVE  Orphans' \subseteq Orphans
  <2>1. \A id : id \in Orphans' => id \in audited \/ EntriesOf(id) # {}
    BY <1>2 DEF Orphans
  <2>2. req[r].id \notin Orphans'
    <3>1. req[r].id # 0 => req[r].id \notin audited /\ EntriesOf(req[r].id) = {}
      BY <1>6, UnbookedInHand
    <3>2. 0 \notin Orphans'
      BY DEF Orphans
    <3> QED
      BY <2>1, <3>1, <3>2
  <2> QED
    BY <1>4, <2>2
<1> QED
  BY <1>4, <1>5, <1>6

\* A call begins with a number of which nothing is booked.
LEMMA BeginOrphans ==
    ASSUME TypeInv, BookedInv, NEW r \in Requests, Begin(r)
    PROVE  Orphans' \subseteq Orphans /\ used'.faults = used.faults
<1>1. /\ UNCHANGED <<ledger, sales, audited>> /\ used'.calls = used.calls + 1
      /\ used'.faults = used.faults
      /\ \E q : req' = [req EXCEPT ![r] = q]
  BY DEF Begin, SalesController, CustomersController, CashController, BeginSale, BeginPayment,
         BeginEdit, BeginOpen, BeginClose, BeginMovement, Call, db, TypeInv, UsedOK
<1>2. req[r] = Idle /\ Idle.id = 0
  BY IdleTyped DEF Begin, Free, Running
<1>3. \A s \in Requests : s # r => req'[s] = req[s]
  BY <1>1 DEF TypeInv, RequestsHold
<1>4. ASSUME NEW id \in 1..used'.calls, Lives(id)
      PROVE  Lives(id)'
  <2>1. used.calls \in Nat /\ id # 0
    BY <1>1, RowsTyped
  <2> QED
    BY <1>1, <1>2, <1>3, <1>4, <2>1 DEF Lives
<1>5. ASSUME NEW id \in Orphans'
      PROVE  id \in Orphans
  <2>1. id \in 1..used'.calls /\ (id \in audited \/ EntriesOf(id) # {}) /\ ~Lives(id)
    BY <1>1, <1>4, <1>5 DEF Orphans, EntriesOf
  <2>2. used.calls \in Nat /\ audited \subseteq 1..used.calls
        /\ \A k \in DOMAIN ledger : ledger[k].sale \in 0..used.calls
    BY RowsTyped DEF BookedInv, IdsInv, TypeInv
  <2>3. id \in 1..used.calls
    BY <1>1, <2>1, <2>2 DEF EntriesOf
  <2> QED
    BY <2>1, <2>3 DEF Orphans
<1> QED
  BY <1>1, <1>5

\* The statements make no orphan.
LEMMA RunOrphans ==
    ASSUME TypeInv, BookedInv, NEW r \in Requests, Run(r)
    PROVE  Orphans' \subseteq Orphans /\ used'.faults = used.faults
<1> PICK p : p = req[r]
  OBVIOUS
<1>0. p \in Request /\ HoldsOp(p) /\ HoldsId(p, used.calls) /\ used.calls \in Nat
  BY RowsTyped DEF Holding
<1>1. CASE InsertEntry(r)
  <2> DEFINE q == [p EXCEPT !.pc = "audit"]
  <2>1. /\ p.pc = "entry" /\ ledger' = Append(ledger, Entry(p))
        /\ req' = [req EXCEPT ![r] = IF p.op = "sale" THEN q ELSE Idle]
        /\ UNCHANGED <<sales, audited, used>>
    BY <1>1 DEF InsertEntry, AfterEntry, Goto
  <2>2. Entry(p) \in LedgerRow /\ Entry(p).sale = p.id
    BY <1>0, <2>1, RowsTyped DEF Entry, LedgerRow, Holding, HoldsCustomer, Request
  <2>3. q.id = p.id
    BY <1>0 DEF Request
  <2> HIDE DEF q
  <2>4. \A s \in Requests : req'[s] = IF s = r THEN (IF p.op = "sale" THEN q ELSE Idle) ELSE req[s]
    BY <2>1 DEF TypeInv, RequestsHold
  <2>5. p.op # "sale" => p.id = 0
    BY <1>0 DEF HoldsId
  <2>6. ASSUME NEW id \in Nat \ {0}
        PROVE  Lives(id)' <=> Lives(id)
    BY <2>1, <2>3, <2>4, <2>5, <2>6, IdleTyped DEF Lives
  <2>7. ASSUME NEW id \in Nat \ {0}, id # p.id
        PROVE  EntriesOf(id)' = EntriesOf(id)
    BY <2>1, <2>2, <2>7, EntriesAfter
  <2>8. p.id # 0 => Lives(p.id)
    BY DEF Lives
  <2>9. ASSUME NEW id \in Orphans'
        PROVE  id \in Orphans
    <3>1. id \in 1..used.calls /\ id \in Nat \ {0} /\ ~Lives(id)
          /\ (id \in audited \/ EntriesOf(id)' # {})
      BY <1>0, <2>1, <2>6, <2>9 DEF Orphans
    <3> QED
      BY <2>7, <2>8, <3>1 DEF Orphans
  <2> QED
    BY <2>1, <2>9
<1>2. CASE LogAudit(r)
  <2> DEFINE q == [p EXCEPT !.pc = "commit"]
  <2>1. /\ audited' = audited \cup {p.id} /\ req' = [req EXCEPT ![r] = q]
        /\ UNCHANGED <<ledger, sales, used>>
    BY <1>2 DEF LogAudit, Goto
  <2>2. q.id = p.id
    BY <1>0 DEF Request
  <2> HIDE DEF q
  <2>3. \A s \in Requests : req'[s].id = req[s].id
    BY <2>1, <2>2 DEF TypeInv, RequestsHold
  <2>4. \A id : (Lives(id)' <=> Lives(id)) /\ EntriesOf(id)' = EntriesOf(id)
    BY <2>1, <2>3 DEF Lives, EntriesOf
  <2>5. Lives(p.id)
    BY DEF Lives
  <2> QED
    BY <2>1, <2>4, <2>5 DEF Orphans
<1>3. CASE Commit(r)
  <2> DEFINE y == [id |-> p.id, method |-> p.method, customer |-> p.customer,
                   session |-> p.session, basket |-> p.basket, total |-> p.amount,
                   tax |-> Receipt(p.basket).tax]
  <2>1. /\ sales' = sales \cup {y} /\ req' = [req EXCEPT ![r] = Idle]
        /\ UNCHANGED <<ledger, audited, used>>
    BY <1>3 DEF Commit, Goto
  <2>2. y.id = p.id
    OBVIOUS
  <2> HIDE DEF y
  <2>3. \A s \in Requests : s # r => req'[s] = req[s]
    BY <2>1 DEF TypeInv, RequestsHold
  <2>4. \A id : (Lives(id) => Lives(id)') /\ EntriesOf(id)' = EntriesOf(id)
    BY <2>1, <2>2, <2>3 DEF Lives, EntriesOf
  <2> QED
    BY <2>1, <2>4 DEF Orphans
<1>4. CASE ~(InsertEntry(r) \/ LogAudit(r) \/ Commit(r))
  <2>1. /\ UNCHANGED <<ledger, sales, audited, used>>
        /\ \E q : req' = [req EXCEPT ![r] = q] /\ KeepsSale(req[r], q)
    BY <1>4, StepKeepsSale DEF Run
  <2>2. p.pc \notin {"audit", "commit"}
    BY <1>4 DEF Run, OpenTransaction, CheckStock, ReadBatch, TakeUnits, DeadlockVictim, WaitsFor,
                LoadCustomer, SelectCustomer, WriteCustomer, LoadSession, SelectSession,
                WriteSession, InsertSession, InsertMovement
  <2> QED
    BY <2>1, <2>2, OrphansStay
<1> QED
  BY <1>1, <1>2, <1>3, <1>4

\* There are no more orphans than there were faults.
LEMMA NextOrphans ==
    ASSUME TypeInv, TypeInv', BookedInv, Cardinality(Orphans) <= used.faults, [Next]_vars
    PROVE  Cardinality(Orphans') <= used'.faults
<1>1. IsFiniteSet(Orphans) /\ Cardinality(Orphans) \in Nat /\ used.faults \in Nat
  BY OrphansCounted, TillAssumption DEF TypeInv, UsedOK
<1>2. Cardinality(Orphans') \in Nat
  <2>1. Orphans' \subseteq 1..used'.calls /\ used'.calls \in Nat
    BY TillAssumption DEF Orphans, TypeInv, UsedOK
  <2>2. IsFiniteSet(1..used'.calls)
    BY <2>1, FS_Interval
  <2> HIDE DEF Orphans
  <2>3. IsFiniteSet(Orphans')
    BY ONLY <2>1, <2>2, FS_Subset
  <2> QED
    BY ONLY <2>3, FS_CardinalityType
<1>3. ASSUME Orphans' \subseteq Orphans, used'.faults = used.faults
      PROVE  Cardinality(Orphans') <= used'.faults
  <2>1. Cardinality(Orphans') <= Cardinality(Orphans)
    <3> HIDE DEF Orphans
    <3> QED
      BY <1>1, <1>3, FS_Subset
  <2> QED
    BY <1>1, <1>2, <1>3, <2>1
<1>4. CASE UNCHANGED vars
  <2>1. Orphans' = Orphans /\ used' = used
    BY <1>4 DEF vars, Orphans, Lives, EntriesOf
  <2> QED
    BY <1>3, <2>1
<1>5. ASSUME NEW r \in Requests, Die(r)
      PROVE  Cardinality(Orphans') <= used'.faults
  <2>1. /\ UNCHANGED <<ledger, sales, audited>> /\ req' = [req EXCEPT ![r] = Idle]
        /\ used'.calls = used.calls /\ used'.faults = used.faults + 1
    BY <1>5 DEF Die, Throw, Goto, db, TypeInv, UsedOK
  <2>2. Orphans' \subseteq Orphans \cup {req[r].id}
    BY <2>1, OrphansStay
  <2> HIDE DEF Orphans
  <2>3. IsFiniteSet(Orphans \cup {req[r].id})
        /\ Cardinality(Orphans \cup {req[r].id}) <= Cardinality(Orphans) + 1
        /\ Cardinality(Orphans \cup {req[r].id}) \in Nat
    <3>1. IsFiniteSet(Orphans \cup {req[r].id})
      BY ONLY <1>1, FS_AddElement
    <3>2. Cardinality(Orphans \cup {req[r].id})
            = IF req[r].id \in Orphans THEN Cardinality(Orphans) ELSE Cardinality(Orphans) + 1
      BY ONLY <1>1, FS_AddElement
    <3> QED
      BY <1>1, <3>1, <3>2
  <2>4. Cardinality(Orphans') <= Cardinality(Orphans \cup {req[r].id})
    BY ONLY <2>2, <2>3, FS_Subset
  <2> QED
    BY <1>1, <1>2, <2>1, <2>3, <2>4
<1> QED
  BY <1>3, <1>4, <1>5, BeginOrphans, RunOrphans DEF Next

\* After the audit record only a crash can make a sale fail, and between the debt and
\* the audit as well: there are no more orphans than crashes.
THEOREM OrphansHold == Spec => []OrphansNeedCrash
<1>1. Init => Cardinality(Orphans) <= used.faults
  <2>1. ASSUME Init
        PROVE  Orphans = {} /\ used.faults = 0
    BY <2>1 DEF Init, Orphans
  <2> QED
    BY <2>1, FS_EmptySet
<1>2. OrphansNeedCrash <=> Cardinality(Orphans) <= used.faults
  BY DEF OrphansNeedCrash, Orphans
<1>3. TypeInv /\ TypeInv' /\ BookedInv /\ OrphansNeedCrash /\ [Next]_vars => OrphansNeedCrash'
  <2>1. OrphansNeedCrash' <=> Cardinality(Orphans') <= used'.faults
    BY DEF OrphansNeedCrash, Orphans
  <2> QED
    BY <1>2, <2>1, NextOrphans
<1> QED
  BY <1>1, <1>2, <1>3, BookedAlways, PTL DEF Spec

-----------------------------------------------------------------------------
(* How a request goes on *)

\* The statements of the handlers, by the one before.
Flow ==
    {<<"begin", "check">>, <<"check", "check">>, <<"check", "read">>, <<"read", "take">>,
     <<"take", "read">>, <<"take", "customer">>, <<"take", "session">>, <<"take", "audit">>,
     <<"customer", "selectCustomer">>, <<"selectCustomer", "writeCustomer">>,
     <<"writeCustomer", "entry">>, <<"entry", "audit">>,
     <<"session", "selectSession">>, <<"selectSession", "writeSession">>,
     <<"writeSession", "audit">>, <<"writeSession", "move">>, <<"audit", "commit">>}
\* What a request was asked for stays with it.
SameCall(p, q) ==
    /\ q.op = p.op /\ q.id = p.id /\ q.method = p.method /\ q.customer = p.customer
    /\ q.session = p.session /\ q.amount = p.amount
GoesTo(p, q) == q = Idle \/ (SameCall(p, q) /\ <<p.pc, q.pc>> \in Flow)

\* Every statement goes to the next one, or ends the request.
LEMMA RunFlows ==
    ASSUME TypeInv, NEW r \in Requests, Run(r)
    PROVE  /\ used' = used
           /\ \E q : req' = [req EXCEPT ![r] = q] /\ GoesTo(req[r], q)
<1> PICK p : p = req[r]
  OBVIOUS
<1>0. p \in Request /\ HoldsOp(p)
  BY RowsTyped DEF Holding
<1>1. ASSUME NEW q, Goto(r, q), GoesTo(p, q)
      PROVE  \E x : req' = [req EXCEPT ![r] = x] /\ GoesTo(req[r], x)
  BY <1>1 DEF Goto
<1>2. GoesTo(p, Idle)
  BY DEF GoesTo
<1>3. CASE OpenTransaction(r)
  <2>1. GoesTo(p, [p EXCEPT !.pc = "check"])
    BY <1>0, <1>3 DEF OpenTransaction, GoesTo, SameCall, Request, Flow
  <2> QED
    BY <1>1, <1>3, <2>1 DEF OpenTransaction
<1>4. CASE CheckStock(r)
  <2>1. p.pc = "check"
    BY <1>4 DEF CheckStock
  <2>2. GoesTo(p, [p EXCEPT !.item = @ + 1])
    BY <1>0, <2>1 DEF GoesTo, SameCall, Request, Flow
  <2>3. GoesTo(p, [p EXCEPT !.pc = "read", !.item = 1])
    BY <1>0, <2>1 DEF GoesTo, SameCall, Request, Flow
  <2> QED
    BY <1>1, <1>2, <1>4, <2>2, <2>3 DEF CheckStock, Throw
<1>5. CASE ReadBatch(r)
  <2> DEFINE units == Sees(p, ItemOf(p).product)
  <2>1. p.pc = "read"
    BY <1>5 DEF ReadBatch
  <2>2. GoesTo(p, [p EXCEPT !.pc = "take", !.units = units])
    <3> HIDE DEF units
    <3> QED
      BY <1>0, <2>1 DEF GoesTo, SameCall, Request, Flow
  <2> QED
    BY <1>1, <1>2, <1>5, <2>2 DEF ReadBatch, Throw
<1>6. CASE TakeUnits(r)
  <2> DEFINE y == ItemOf(p).product
             rest == p.units - ItemOf(p).qty
             took == [p EXCEPT !.wrote = @ \cup {y}, !.left[y] = rest]
             more == [took EXCEPT !.pc = "read", !.item = @ + 1]
             last == AfterItems(took)
  <2>1. p.pc = "take" /\ Goto(r, IF p.item < Len(p.basket) THEN more ELSE last) /\ used' = used
    BY <1>6 DEF TakeUnits
  <2> HIDE DEF y, rest
  <2>2. took.pc = p.pc /\ SameCall(p, took) /\ DOMAIN took = DOMAIN p
    BY <1>0 DEF Request, SameCall
  <2> HIDE DEF took
  <2>3. GoesTo(p, more)
    BY <1>0, <2>1, <2>2 DEF GoesTo, SameCall, Request, Flow
  <2>4. last.pc \in {"customer", "session", "audit"} /\ SameCall(p, last)
    BY <1>0, <2>2 DEF AfterItems, SameCall, Request
  <2>5. GoesTo(p, last)
    <3> HIDE DEF last
    <3>1. <<p.pc, last.pc>> \in Flow
      BY <2>1, <2>4 DEF Flow
    <3> QED
      BY <2>4, <3>1 DEF GoesTo
  <2> HIDE DEF more, last
  <2> QED
    BY <1>1, <2>1, <2>3, <2>5
<1>7. CASE DeadlockVictim(r)
  BY <1>1, <1>2, <1>7 DEF DeadlockVictim, Throw
<1>8. CASE LoadCustomer(r)
  <2> DEFINE cust == [customer[p.customer] EXCEPT !.balance = @ + p.amount]
             q == [p EXCEPT !.pc = "selectCustomer", !.cust = cust]
  <2>1. p.pc = "customer" /\ used' = used
    BY <1>8 DEF LoadCustomer
  <2>2. GoesTo(p, q)
    <3> HIDE DEF cust
    <3> QED
      BY <1>0, <2>1 DEF GoesTo, SameCall, Request, Flow
  <2>3. Goto(r, q) \/ Goto(r, Idle)
    BY <1>8 DEF LoadCustomer, Throw
  <2> HIDE DEF q
  <2> QED
    BY <1>1, <1>2, <2>1, <2>2, <2>3
<1>9. CASE SelectCustomer(r)
  <2> DEFINE cols == {c \in DOMAIN customer[p.customer] : p.cust[c] # customer[p.customer][c]}
             q == [p EXCEPT !.pc = "writeCustomer", !.cols = cols]
  <2>1. p.pc = "selectCustomer" /\ Goto(r, q) /\ used' = used
    BY <1>9 DEF SelectCustomer
  <2>2. GoesTo(p, q)
    <3> HIDE DEF cols
    <3> QED
      BY <1>0, <2>1 DEF GoesTo, SameCall, Request, Flow
  <2> HIDE DEF q
  <2> QED
    BY <1>1, <2>1, <2>2
<1>10. CASE WriteCustomer(r)
  <2> DEFINE q == [p EXCEPT !.pc = "entry", !.cols = {}, !.cust = NoCustomer]
  <2>1. p.pc = "writeCustomer" /\ used' = used /\ Goto(r, IF p.op = "edit" THEN Idle ELSE q)
    BY <1>10 DEF WriteCustomer
  <2>2. GoesTo(p, q)
    BY <1>0, <2>1 DEF GoesTo, SameCall, Request, Flow
  <2> HIDE DEF q
  <2> QED
    BY <1>1, <1>2, <2>1, <2>2
<1>11. CASE InsertEntry(r)
  <2>1. p.pc = "entry" /\ used' = used
        /\ Goto(r, IF p.op = "sale" THEN [p EXCEPT !.pc = "audit"] ELSE Idle)
    BY <1>11 DEF InsertEntry, AfterEntry
  <2>2. GoesTo(p, [p EXCEPT !.pc = "audit"])
    BY <1>0, <2>1 DEF GoesTo, SameCall, Request, Flow
  <2> QED
    BY <1>1, <1>2, <2>1, <2>2
<1>12. CASE LoadSession(r)
  <2> DEFINE sess == [session[p.session] EXCEPT !.expected = @ + p.amount]
             q == [p EXCEPT !.pc = "selectSession", !.sess = sess]
  <2>1. p.pc = "session" /\ used' = used
    BY <1>12 DEF LoadSession
  <2>2. GoesTo(p, q)
    <3> HIDE DEF sess
    <3> QED
      BY <1>0, <2>1 DEF GoesTo, SameCall, Request, Flow
  <2>3. Goto(r, q) \/ Goto(r, Idle)
    BY <1>12 DEF LoadSession, Throw
  <2> HIDE DEF q
  <2> QED
    BY <1>1, <1>2, <2>1, <2>2, <2>3
<1>13. CASE SelectSession(r)
  <2> DEFINE row == session[p.session]
             cols == {c \in DOMAIN row \ {"user", "opening"} : p.sess[c] # row[c]}
             q == [p EXCEPT !.pc = "writeSession", !.cols = cols]
  <2>1. p.pc = "selectSession" /\ Goto(r, q) /\ used' = used
    BY <1>13 DEF SelectSession
  <2>2. GoesTo(p, q)
    <3> HIDE DEF cols
    <3> QED
      BY <1>0, <2>1 DEF GoesTo, SameCall, Request, Flow
  <2> HIDE DEF q
  <2> QED
    BY <1>1, <2>1, <2>2
<1>14. CASE WriteSession(r)
  <2> DEFINE base == [p EXCEPT !.cols = {}, !.sess = NoSession(AnyCashier)]
  <2>1. p.pc = "writeSession" /\ used' = used /\ Goto(r, AfterSession(base))
    BY <1>14 DEF WriteSession
  <2>2. p.op \in {"sale", "movement", "close"}
    BY <1>0, <2>1 DEF HoldsOp, AtSession
  <2>3. SameCall(p, base) /\ DOMAIN base = DOMAIN p
    BY <1>0 DEF SameCall, Request
  <2> HIDE DEF base
  <2>4. /\ p.op = "sale" => AfterSession(base) = [base EXCEPT !.pc = "audit"]
        /\ p.op = "movement" => AfterSession(base) = [base EXCEPT !.pc = "move"]
        /\ p.op = "close" => AfterSession(base) = Idle
    BY <2>3 DEF AfterSession, SameCall
  <2>5. ASSUME NEW pc \in {"audit", "move"}
        PROVE  GoesTo(p, [base EXCEPT !.pc = pc])
    <3>1. <<p.pc, pc>> \in Flow
      BY <2>1 DEF Flow
    <3> QED
      BY <1>0, <2>3, <3>1 DEF GoesTo, SameCall, Request
  <2>6. GoesTo(p, AfterSession(base))
    BY <1>2, <2>2, <2>4, <2>5
  <2> QED
    BY <1>1, <2>1, <2>6
<1>15. CASE InsertSession(r)
  BY <1>1, <1>2, <1>15 DEF InsertSession
<1>16. CASE InsertMovement(r)
  BY <1>1, <1>2, <1>16 DEF InsertMovement
<1>17. CASE LogAudit(r)
  <2>1. p.pc = "audit" /\ used' = used /\ Goto(r, [p EXCEPT !.pc = "commit"])
    BY <1>17 DEF LogAudit
  <2>2. GoesTo(p, [p EXCEPT !.pc = "commit"])
    BY <1>0, <2>1 DEF GoesTo, SameCall, Request, Flow
  <2> QED
    BY <1>1, <2>1, <2>2
<1>18. CASE Commit(r)
  BY <1>1, <1>2, <1>18 DEF Commit
<1> QED
  BY <1>3, <1>4, <1>5, <1>6, <1>7, <1>8, <1>9, <1>10, <1>11, <1>12, <1>13, <1>14, <1>15, <1>16,
     <1>17, <1>18 DEF Run

-----------------------------------------------------------------------------
(* Balances.  The customer a handler will save is in range, as the rows are: it writes *)
(* some of the columns it holds, and which ones does not matter.                       *)

InRange(row) ==
    /\ row.limit \in Limits /\ row.balance >= 0
    /\ 0 \notin Limits => row.balance <= Max(Limits)
DebtInv ==
    /\ \A c \in Customers : InRange(customer[c])
    /\ \A r \in Requests : req[r].pc \in AtCustomer => InRange(req[r].cust)

\* No limit is higher than the highest one.
LEMMA HighestLimit ==
    /\ Max(Limits) \in Limits /\ Max(Limits) \in Nat
    /\ \A limit \in Limits : limit \in Nat /\ limit <= Max(Limits)
<1>1. Limits \subseteq Int /\ IsFiniteSet(Limits) /\ Limits # {}
  BY TillAssumption
<1>2. Max(Limits) \in Limits /\ \A limit \in Limits : limit <= Max(Limits)
  BY ONLY <1>1, MaxIsLargest
<1> QED
  BY <1>2, TillAssumption

\* A step that writes no customer, of a request that holds one in range, if any.
LEMMA DebtStays ==
    ASSUME TypeInv, DebtInv, customer' = customer, NEW r \in Requests, NEW q,
           req' = [req EXCEPT ![r] = q], q.pc \in AtCustomer => InRange(q.cust)
    PROVE  DebtInv'
<1>1. \A s \in Requests : req'[s] = IF s = r THEN q ELSE req[s]
  BY DEF TypeInv, RequestsHold
<1> QED
  BY <1>1 DEF DebtInv, InRange

\* A call that begins finds every debt in its range.
LEMMA BeginDebt ==
    ASSUME TypeInv, DebtInv, NEW r \in Requests, Begin(r)
    PROVE  DebtInv'
<1>1. ASSUME NEW q, Call(r, q), q.pc \in AtCustomer => InRange(q.cust)
      PROVE  DebtInv'
  BY <1>1, DebtStays DEF Call, db
<1>2. Idle \in Request
  BY IdleTyped
<1>3. ASSUME NEW basket, NEW method, NEW c, NEW s, BeginSale(r, basket, method, c, s)
      PROVE  DebtInv'
  <2> DEFINE amount == Receipt(basket).total
             q == [Idle EXCEPT !.op = "sale", !.pc = "begin", !.id = used.calls + 1,
                     !.method = method, !.basket = basket, !.item = 1,
                     !.customer = c, !.session = s, !.amount = amount]
  <2>1. Call(r, q)
    BY <1>3 DEF BeginSale
  <2> HIDE DEF amount
  <2>2. q.pc = "begin"
    BY <1>2 DEF Request
  <2> QED
    BY <1>1, <2>1, <2>2 DEF AtCustomer
<1>4. ASSUME NEW c \in Customers, NEW amount \in Amounts, BeginPayment(r, c, amount)
      PROVE  DebtInv'
  <2> DEFINE cust == [customer[c] EXCEPT !.balance = @ - amount]
             q == [Idle EXCEPT !.op = "payment", !.pc = "selectCustomer", !.customer = c,
                     !.cust = cust, !.amount = -amount]
  <2>1. Call(r, q) /\ amount <= customer[c].balance
    BY <1>4 DEF BeginPayment, MayPayOff
  <2>2. amount \in Nat \ {0} /\ customer[c] \in CustomerRow
    BY InputsTyped, RowsTyped
  <2>3. cust.limit = customer[c].limit /\ cust.balance = customer[c].balance - amount
        /\ customer[c].balance \in Int
    BY <2>2 DEF CustomerRow
  <2>4. InRange(cust)
    BY <2>1, <2>2, <2>3, HighestLimit DEF DebtInv, InRange
  <2> HIDE DEF cust
  <2>5. q.cust = cust
    BY <1>2 DEF Request
  <2> QED
    BY <1>1, <2>1, <2>4, <2>5
<1>5. ASSUME NEW c \in Customers, NEW enabled \in BOOLEAN, NEW limit \in Limits,
             BeginEdit(r, c, enabled, limit)
      PROVE  DebtInv'
  <2> DEFINE cust == [customer[c] EXCEPT !.enabled = enabled, !.limit = limit]
             q == [Idle EXCEPT !.op = "edit", !.pc = "selectCustomer", !.customer = c,
                     !.cust = cust]
  <2>1. Call(r, q)
    BY <1>5 DEF BeginEdit
  <2>2. customer[c] \in CustomerRow
    BY RowsTyped
  <2>3. cust.limit = limit /\ cust.balance = customer[c].balance
    BY <2>2 DEF CustomerRow
  <2>4. InRange(cust)
    BY <2>3 DEF DebtInv, InRange
  <2> HIDE DEF cust
  <2>5. q.cust = cust
    BY <1>2 DEF Request
  <2> QED
    BY <1>1, <2>1, <2>4, <2>5
<1>6. CASE SalesController(r)
  BY <1>3, <1>6 DEF SalesController
<1>7. CASE CustomersController(r)
  BY <1>4, <1>5, <1>7 DEF CustomersController
<1>8. CASE CashController(r)
  BY <1>1, <1>2, <1>8 DEF CashController, BeginOpen, BeginClose, BeginMovement, Request, AtCustomer
<1> QED
  BY <1>6, <1>7, <1>8 DEF Begin

\* A step of a handler leaves every debt, and the row it has loaded, in range.
LEMMA RunDebt ==
    ASSUME TypeInv, DebtInv, NEW r \in Requests, Run(r)
    PROVE  DebtInv'
<1> PICK p : p = req[r]
  OBVIOUS
<1>0. p \in Request /\ Holding(p, Len(session))
  BY RowsTyped
<1>1. CASE LoadCustomer(r)
  <2> DEFINE row == customer[p.customer]
             cust == [row EXCEPT !.balance = @ + p.amount]
             q == [p EXCEPT !.pc = "selectCustomer", !.cust = cust]
  <2>1. p.pc = "customer" /\ customer' = customer
    BY <1>1 DEF LoadCustomer, Throw, db
  <2>2. p.op = "sale" /\ p.basket \in Baskets /\ p.amount = Receipt(p.basket).total
        /\ p.customer \in Customers
    BY <1>0, <2>1 DEF Holding, HoldsOp, HoldsBasket, HoldsCustomer, Selling
  <2>3. row \in CustomerRow /\ p.amount \in Nat
    BY <2>2, RowsTyped, ReceiptType
  <2>4. cust.limit = row.limit /\ cust.balance = row.balance + p.amount /\ row.balance \in Int
    BY <2>3 DEF CustomerRow
  <2>5. WithinLimit(row, p.amount) => InRange(cust)
    <3>1. InRange(row)
      BY <2>2 DEF DebtInv
    <3> HIDE DEF row, cust
    <3>2. row.limit \in Limits /\ row.limit \in Nat /\ row.limit <= Max(Limits)
          /\ Max(Limits) \in Nat /\ (0 \notin Limits => row.limit > 0)
      BY <3>1, HighestLimit DEF InRange
    <3> QED
      BY <2>3, <2>4, <3>1, <3>2 DEF WithinLimit, InRange
  <2>6. \/ Goto(r, q) /\ WithinLimit(row, p.amount)
        \/ Goto(r, Idle)
    BY <1>1 DEF LoadCustomer, Throw
  <2> HIDE DEF cust, row
  <2>7. q.cust = cust
    BY <1>0 DEF Request
  <2> HIDE DEF q
  <2> QED
    BY <2>1, <2>5, <2>6, <2>7, DebtStays, IdleTyped DEF Goto, AtCustomer
<1>2. CASE SelectCustomer(r)
  <2> DEFINE cols == {c \in DOMAIN customer[p.customer] : p.cust[c] # customer[p.customer][c]}
             q == [p EXCEPT !.pc = "writeCustomer", !.cols = cols]
  <2>1. p.pc = "selectCustomer" /\ customer' = customer /\ Goto(r, q)
    BY <1>2 DEF SelectCustomer, db
  <2> HIDE DEF cols
  <2>2. q.cust = p.cust
    BY <1>0 DEF Request
  <2> HIDE DEF q
  <2>3. InRange(p.cust)
    BY <2>1 DEF DebtInv, AtCustomer
  <2> QED
    BY <2>1, <2>2, <2>3, DebtStays DEF Goto
<1>3. CASE WriteCustomer(r)
  <2> DEFINE row == customer[p.customer]
             new == [c \in DOMAIN row |-> IF c \in p.cols THEN p.cust[c] ELSE row[c]]
  <2>1. p.pc = "writeCustomer" /\ customer' = [customer EXCEPT ![p.customer] = new]
    BY <1>3 DEF WriteCustomer
  <2>2. p.customer \in Customers /\ row \in CustomerRow /\ p.cust \in CustomerRow
    BY <1>0, <2>1, RowsTyped DEF Holding, HoldsCustomer, AtCustomer, Request
  <2>3. InRange(row) /\ InRange(p.cust)
    BY <2>1, <2>2 DEF DebtInv, AtCustomer
  <2>4. /\ new.limit \in {row.limit, p.cust.limit} /\ new.balance \in {row.balance, p.cust.balance}
    BY <2>2 DEF CustomerRow
  <2>5. InRange(new)
    <3> HIDE DEF new, row
    <3> QED
      BY <2>3, <2>4 DEF InRange
  <2> HIDE DEF new, row
  <2>6. \A c \in Customers : InRange(customer[c])'
    BY <2>1, <2>5 DEF DebtInv, TypeInv, TablesOK, InRange
  <2>7. PICK q : req' = [req EXCEPT ![r] = q] /\ GoesTo(p, q)
    BY RunFlows
  <2>8. q.pc \notin AtCustomer
    BY <2>1, <2>7, IdleTyped DEF GoesTo, Flow, AtCustomer
  <2>9. \A s \in Requests : req'[s] = IF s = r THEN q ELSE req[s]
    BY <2>7 DEF TypeInv, RequestsHold
  <2> QED
    BY <2>6, <2>8, <2>9 DEF DebtInv, InRange
<1>4. CASE ~(LoadCustomer(r) \/ SelectCustomer(r) \/ WriteCustomer(r))
  <2>1. customer' = customer /\ p.pc \notin {"customer", "selectCustomer"}
    BY <1>4 DEF Run, OpenTransaction, CheckStock, ReadBatch, TakeUnits, DeadlockVictim, WaitsFor,
                InsertEntry, LoadSession, SelectSession, WriteSession, InsertSession,
                InsertMovement, LogAudit, Commit, Throw, db
  <2>2. PICK q : req' = [req EXCEPT ![r] = q] /\ GoesTo(p, q)
    BY RunFlows
  <2>3. q.pc \notin AtCustomer
    BY <2>1, <2>2, IdleTyped DEF GoesTo, Flow, AtCustomer
  <2> QED
    BY <2>1, <2>2, <2>3, DebtStays
<1> QED
  BY <1>1, <1>2, <1>3, <1>4

\* Every step leaves every debt in its range.
LEMMA NextDebt ==
    ASSUME TypeInv, DebtInv, [Next]_vars
    PROVE  DebtInv'
<1>1. CASE UNCHANGED vars
  BY <1>1 DEF vars, DebtInv, InRange
<1>2. ASSUME NEW r \in Requests, Die(r)
      PROVE  DebtInv'
  BY <1>2, DebtStays, IdleTyped DEF Die, Throw, Goto, db, AtCustomer
<1> QED
  BY <1>1, <1>2, BeginDebt, RunDebt DEF Next

\* No overlap of sales, payments and edits makes a balance negative or carries it beyond
\* the highest limit anyone could have set.
THEOREM DebtHolds == Spec => []DebtInRange
<1>1. Init => DebtInv
  BY HighestLimit, IdleTyped DEF Init, DebtInv, InRange, AtCustomer
<1>2. DebtInv => DebtInRange
  BY DEF DebtInv, InRange, DebtInRange
<1> QED
  BY <1>1, <1>2, InitTypes, NextTypes, NextDebt, PTL DEF Spec

-----------------------------------------------------------------------------
(* Requests that do not overlap: one runs at a time, and what it read is still so. *)

OneAtATime == \A r, s \in Requests : Running(r) /\ Running(s) => r = s
SerialInv == Serial => OneAtATime

\* As long as no call has begun while another was running, only one runs.
LEMMA NextSerial ==
    ASSUME TypeInv, SerialInv, [Next]_vars, Serial'
    PROVE  Serial /\ OneAtATime /\ OneAtATime'
<1>1. ASSUME NEW r \in Requests, Begin(r)
      PROVE  Serial /\ OneAtATime /\ OneAtATime'
  <2>1. PICK q : Call(r, q)
    BY <1>1, Zenon
    DEF Begin, SalesController, CustomersController, CashController, BeginSale, BeginPayment,
        BeginEdit, BeginOpen, BeginClose, BeginMovement
  <2>2. used.overlaps \in Nat
    BY TillAssumption DEF TypeInv, UsedOK
  <2>3. /\ used'.overlaps = IF Overlaps(r) THEN used.overlaps + 1 ELSE used.overlaps
        /\ req' = [req EXCEPT ![r] = q]
    BY <2>1 DEF Call, TypeInv, UsedOK
  <2>4. ~Overlaps(r) /\ Serial
    BY <2>2, <2>3 DEF Serial
  <2>5. \A s \in Requests : s # r => ~Running(s) /\ req'[s] = req[s]
    BY <2>3, <2>4 DEF Overlaps, TypeInv, RequestsHold
  <2> QED
    BY <2>4, <2>5 DEF SerialInv, OneAtATime, Running
<1>2. ASSUME NEW r \in Requests, Run(r)
      PROVE  Serial /\ OneAtATime /\ OneAtATime'
  <2>1. used' = used /\ \E q : req' = [req EXCEPT ![r] = q] /\ GoesTo(req[r], q)
    BY <1>2, RunFlows
  <2>2. Running(r)
    BY <1>2, IdleTyped
    DEF Run, OpenTransaction, CheckStock, ReadBatch, TakeUnits, DeadlockVictim, WaitsFor,
        LoadCustomer, SelectCustomer, WriteCustomer, InsertEntry, LoadSession, SelectSession,
        WriteSession, InsertSession, InsertMovement, LogAudit, Commit, Running
  <2>3. Serial /\ OneAtATime
    BY <2>1 DEF Serial, SerialInv
  <2>4. \A s \in Requests : s # r => ~Running(s) /\ req'[s] = req[s]
    BY <2>1, <2>2, <2>3 DEF OneAtATime, TypeInv, RequestsHold
  <2> QED
    BY <2>3, <2>4 DEF OneAtATime, Running
<1>3. ASSUME NEW r \in Requests, Die(r)
      PROVE  Serial /\ OneAtATime /\ OneAtATime'
  <2>1. used'.overlaps = used.overlaps /\ req' = [req EXCEPT ![r] = Idle] /\ Running(r)
    BY <1>3 DEF Die, Throw, Goto, TypeInv, UsedOK
  <2>2. Serial /\ OneAtATime
    BY <2>1 DEF Serial, SerialInv
  <2>3. \A s \in Requests : s # r => ~Running(s) /\ req'[s] = req[s]
    BY <2>1, <2>2 DEF OneAtATime, TypeInv, RequestsHold
  <2> QED
    BY <2>2, <2>3 DEF OneAtATime, Running
<1>4. CASE UNCHANGED vars
  BY <1>4 DEF vars, Serial, SerialInv, OneAtATime, Running
<1> QED
  BY <1>1, <1>2, <1>3, <1>4 DEF Next

\* A statement of the only request that runs.
LEMMA OthersIdle ==
    ASSUME TypeInv, OneAtATime, NEW r \in Requests, Run(r)
    PROVE  \A s \in Requests \ {r} : req[s] = Idle /\ req'[s] = Idle
<1>1. Running(r)
  BY IdleTyped
  DEF Run, OpenTransaction, CheckStock, ReadBatch, TakeUnits, DeadlockVictim, WaitsFor,
      LoadCustomer, SelectCustomer, WriteCustomer, InsertEntry, LoadSession, SelectSession,
      WriteSession, InsertSession, InsertMovement, LogAudit, Commit, Running
<1>2. \A s \in Requests \ {r} : req[s] = Idle
  BY <1>1 DEF OneAtATime, Running
<1>3. \E q : req' = [req EXCEPT ![r] = q]
  BY RunFlows
<1> QED
  BY <1>2, <1>3 DEF TypeInv, RequestsHold

\* A call of the only request that will run.
LEMMA OthersIdleAtCall ==
    ASSUME TypeInv, NEW r \in Requests, NEW q, Call(r, q), OneAtATime', q # Idle
    PROVE  /\ \A s \in Requests \ {r} : req[s] = Idle /\ req'[s] = Idle
           /\ req'[r] = q /\ UNCHANGED db /\ used'.faults = used.faults
<1>1. /\ req' = [req EXCEPT ![r] = q] /\ UNCHANGED db /\ used'.faults = used.faults
  BY DEF Call, TypeInv, UsedOK
<1>2. \A s \in Requests : req'[s] = IF s = r THEN q ELSE req[s]
  BY <1>1 DEF TypeInv, RequestsHold
<1> QED
  BY <1>1, <1>2 DEF OneAtATime, Running

-----------------------------------------------------------------------------
(* Open sessions.  A session that is closed is not opened again: the one in the hands *)
(* of a handler is only open if the row still is.                                      *)

OneOpen ==
    \A s, t \in DOMAIN session :
      session[s].user = session[t].user /\ session[s].status = "OPEN"
        /\ session[t].status = "OPEN" => s = t
HoldsOpen(q) ==
    /\ q.pc = "insertSession" => OpenOf(q.sess.user) = {}
    /\ q.pc \in AtSession /\ q.sess.status = "OPEN" => session[q.session].status = "OPEN"
OpenInv == Serial => OneOpen /\ \A r \in Requests : HoldsOpen(req[r])

\* The slots in which nothing runs hold no session.
LEMMA IdleOpen == HoldsOpen(Idle)
  BY IdleTyped DEF HoldsOpen, AtSession

\* A call that begins while no other runs.
LEMMA BeginOneOpen ==
    ASSUME TypeInv, OneOpen, NEW r \in Requests, Begin(r), OneAtATime'
    PROVE  OneOpen' /\ \A s \in Requests : HoldsOpen(req[s])'
<1>0. Idle \in Request /\ Idle.pc = "idle"
  BY IdleTyped
<1>1. ASSUME NEW q, Call(r, q), q # Idle, HoldsOpen(q)
      PROVE  OneOpen' /\ \A s \in Requests : HoldsOpen(req[s])'
  <2>1. /\ \A s \in Requests \ {r} : req'[s] = Idle
        /\ req'[r] = q /\ session' = session
    BY <1>1, OthersIdleAtCall DEF db
  <2> QED
    BY <1>1, <2>1, IdleOpen DEF OneOpen, HoldsOpen, OpenOf
<1>2. ASSUME NEW q, Call(r, q), q.pc \notin AtSession \cup {"idle", "insertSession"}
      PROVE  OneOpen' /\ \A s \in Requests : HoldsOpen(req[s])'
  BY <1>0, <1>1, <1>2 DEF HoldsOpen
<1>3. CASE SalesController(r)
  <2>1. ASSUME NEW basket, NEW method, NEW c, NEW s, BeginSale(r, basket, method, c, s)
        PROVE  OneOpen' /\ \A t \in Requests : HoldsOpen(req[t])'
    <3> DEFINE amount == Receipt(basket).total
               q == [Idle EXCEPT !.op = "sale", !.pc = "begin", !.id = used.calls + 1,
                       !.method = method, !.basket = basket, !.item = 1,
                       !.customer = c, !.session = s, !.amount = amount]
    <3>1. Call(r, q)
      BY <2>1 DEF BeginSale
    <3> HIDE DEF amount
    <3>2. q.pc = "begin"
      BY <1>0 DEF Request
    <3> HIDE DEF q
    <3> QED
      BY <1>2, <3>1, <3>2 DEF AtSession
  <2> QED
    BY <1>3, <2>1 DEF SalesController
<1>4. CASE CustomersController(r)
  BY <1>0, <1>2, <1>4 DEF CustomersController, BeginPayment, BeginEdit, Request, AtSession
<1>5. ASSUME NEW u \in Cashiers, NEW amount \in Amounts, BeginOpen(r, u, amount)
      PROVE  OneOpen' /\ \A s \in Requests : HoldsOpen(req[s])'
  <2> DEFINE sess == [NoSession(u) EXCEPT !.opening = amount, !.expected = amount]
             q == [Idle EXCEPT !.op = "open", !.pc = "insertSession", !.sess = sess]
  <2>1. Call(r, q) /\ OpenOf(u) = {}
    BY <1>5 DEF BeginOpen
  <2>2. sess.user = u
    BY DEF NoSession
  <2> HIDE DEF sess
  <2>3. q.pc = "insertSession" /\ q.sess = sess
    BY <1>0 DEF Request
  <2> HIDE DEF q
  <2>4. HoldsOpen(q) /\ q # Idle
    BY <1>0, <2>1, <2>2, <2>3 DEF HoldsOpen, AtSession
  <2> QED
    BY <1>1, <2>1, <2>4
<1>6. ASSUME NEW s \in DOMAIN session, NEW sess, NEW q, q.pc = "selectSession", q.session = s,
             q.sess = sess, Call(r, q), IsOpen(s)
      PROVE  OneOpen' /\ \A t \in Requests : HoldsOpen(req[t])'
  <2>1. HoldsOpen(q) /\ q # Idle
    BY <1>0, <1>6 DEF HoldsOpen, IsOpen
  <2> QED
    BY <1>1, <1>6, <2>1
<1>7. ASSUME NEW s \in DOMAIN session, NEW amount, BeginClose(r, s, amount)
      PROVE  OneOpen' /\ \A t \in Requests : HoldsOpen(req[t])'
  <2> DEFINE sess == [session[s] EXCEPT !.counted = amount, !.status = "CLOSED",
                              !.difference = amount - session[s].expected]
             q == [Idle EXCEPT !.op = "close", !.pc = "selectSession", !.session = s, !.sess = sess]
  <2>1. Call(r, q) /\ IsOpen(s)
    BY <1>7 DEF BeginClose
  <2> HIDE DEF sess
  <2>2. q.pc = "selectSession" /\ q.session = s /\ q.sess = sess
    BY <1>0 DEF Request
  <2> HIDE DEF q
  <2> QED
    BY <1>6, <2>1, <2>2
<1>8. ASSUME NEW s \in DOMAIN session, NEW amount, BeginMovement(r, s, amount)
      PROVE  OneOpen' /\ \A t \in Requests : HoldsOpen(req[t])'
  <2> DEFINE sess == [session[s] EXCEPT !.expected = @ + amount]
             q == [Idle EXCEPT !.op = "movement", !.pc = "selectSession", !.session = s,
                     !.sess = sess, !.amount = amount]
  <2>1. Call(r, q) /\ IsOpen(s)
    BY <1>8 DEF BeginMovement
  <2> HIDE DEF sess
  <2>2. q.pc = "selectSession" /\ q.session = s /\ q.sess = sess
    BY <1>0 DEF Request
  <2> HIDE DEF q
  <2> QED
    BY <1>6, <2>1, <2>2
<1>9. CASE CashController(r)
  BY <1>5, <1>7, <1>8, <1>9 DEF CashController
<1> QED
  BY <1>3, <1>4, <1>9 DEF Begin

\* A step of the only handler that runs: it inserts a session after it found none.
LEMMA RunOneOpen ==
    ASSUME TypeInv, OneOpen, OneAtATime, NEW r \in Requests, HoldsOpen(req[r]), Run(r)
    PROVE  OneOpen' /\ \A s \in Requests : HoldsOpen(req[s])'
<1> PICK p : p = req[r]
  OBVIOUS
<1>0. p \in Request /\ Holding(p, Len(session)) /\ Idle.pc = "idle"
  BY RowsTyped, IdleTyped
<1>1. \A s \in Requests \ {r} : req'[s] = Idle
  BY OthersIdle
<1>2. PICK q : req' = [req EXCEPT ![r] = q] /\ GoesTo(p, q)
  BY RunFlows
<1>3. req'[r] = q
  BY <1>2 DEF TypeInv, RequestsHold
<1>4. session \in Seq(SessionRow)
  BY DEF TypeInv, TablesOK
<1>5. ASSUME q.pc \notin AtSession
      PROVE  \A s \in Requests : HoldsOpen(req[s])'
  <2>1. q.pc # "insertSession"
    BY <1>0, <1>2 DEF GoesTo, Flow
  <2> QED
    BY <1>0, <1>1, <1>3, <1>5, <2>1 DEF HoldsOpen, AtSession
<1>6. ASSUME session' = session
      PROVE  OneOpen' /\ (HoldsOpen(q) => \A s \in Requests : HoldsOpen(req[s])')
  <2>1. OneOpen'
    BY <1>6 DEF OneOpen
  <2>2. HoldsOpen(q) => \A s \in Requests : HoldsOpen(req[s])'
    BY <1>1, <1>3, <1>6, IdleOpen DEF HoldsOpen, OpenOf
  <2> QED
    BY <2>1, <2>2
<1>7. CASE LoadSession(r)
  <2> DEFINE sess == [session[p.session] EXCEPT !.expected = @ + p.amount]
             x == [p EXCEPT !.pc = "selectSession", !.sess = sess]
  <2>1. p.pc = "session" /\ session' = session
    BY <1>7 DEF LoadSession, Throw, db
  <2>2. \/ req' = [req EXCEPT ![r] = x] /\ IsOpen(p.session)
        \/ req' = [req EXCEPT ![r] = Idle]
    BY <1>7 DEF LoadSession, Throw, Goto
  <2> HIDE DEF sess
  <2>3. x.pc = "selectSession" /\ x.session = p.session
    BY <1>0 DEF Request
  <2> HIDE DEF x
  <2>4. q = Idle \/ (q = x /\ IsOpen(p.session))
    BY <1>3, <2>2 DEF TypeInv, RequestsHold
  <2>5. HoldsOpen(q)
    BY <2>3, <2>4, IdleOpen DEF HoldsOpen, IsOpen
  <2> QED
    BY <1>6, <2>1, <2>5
<1>8. CASE SelectSession(r)
  <2> DEFINE row == session[p.session]
             cols == {c \in DOMAIN row \ {"user", "opening"} : p.sess[c] # row[c]}
             x == [p EXCEPT !.pc = "writeSession", !.cols = cols]
  <2>1. p.pc = "selectSession" /\ req' = [req EXCEPT ![r] = x] /\ session' = session
    BY <1>8 DEF SelectSession, Goto, db
  <2> HIDE DEF cols
  <2>2. x.pc = "writeSession" /\ x.session = p.session /\ x.sess = p.sess
    BY <1>0 DEF Request
  <2> HIDE DEF x
  <2>3. q = x
    BY <1>3, <2>1 DEF TypeInv, RequestsHold
  <2>4. HoldsOpen(q)
    BY <2>1, <2>2, <2>3 DEF HoldsOpen, AtSession
  <2> QED
    BY <1>6, <2>1, <2>4
<1>9. CASE WriteSession(r)
  <2> DEFINE row == session[p.session]
             new == [c \in DOMAIN row |-> IF c \in p.cols THEN p.sess[c] ELSE row[c]]
  <2>1. p.pc = "writeSession" /\ session' = [session EXCEPT ![p.session] = new]
    BY <1>9 DEF WriteSession
  <2>2. p.session \in DOMAIN session
    <3>1. p.session \in 0..Len(session) /\ p.session # 0 /\ Len(session) \in Nat
      BY <1>0, <2>1, RowsTyped DEF Holding, HoldsSession, AtSession
    <3> QED
      BY <3>1, RowsTyped
  <2>3. row \in SessionRow /\ p.sess \in SessionRow /\ "user" \notin p.cols
    BY <1>0, <2>2, RowsTyped DEF Request, Columns
  <2>4. new.user = row.user /\ new.status \in {row.status, p.sess.status}
    BY <2>3 DEF SessionRow
  <2>5. new.status = "OPEN" => row.status = "OPEN"
    BY <2>1, <2>4 DEF HoldsOpen, AtSession
  <2>6. DOMAIN session' = DOMAIN session
        /\ \A s \in DOMAIN session : session'[s] = IF s = p.session THEN new ELSE session[s]
    <3> HIDE DEF new
    <3> QED
      BY <1>4, <2>1
  <2> HIDE DEF new
  <2>7. \A s \in DOMAIN session :
          session'[s].user = session[s].user
            /\ (session'[s].status = "OPEN" => session[s].status = "OPEN")
    BY <2>4, <2>5, <2>6
  <2>8. OneOpen'
    BY <2>6, <2>7 DEF OneOpen
  <2>9. q.pc \notin AtSession
    BY <1>0, <1>2, <2>1 DEF GoesTo, Flow, AtSession
  <2> QED
    BY <1>5, <2>8, <2>9
<1>10. CASE InsertSession(r)
  <2> DEFINE n == Len(session) + 1
  <2>1. p.pc = "insertSession" /\ session' = Append(session, p.sess)
        /\ req' = [req EXCEPT ![r] = Idle]
    BY <1>10 DEF InsertSession, Goto
  <2>2. OpenOf(p.sess.user) = {}
    BY <2>1 DEF HoldsOpen
  <2>3. DOMAIN session' = DOMAIN session \cup {n} /\ session'[n] = p.sess
        /\ \A s \in DOMAIN session : session'[s] = session[s]
    BY <1>4, <2>1
  <2>4. OneOpen'
    BY <2>2, <2>3 DEF OneOpen, OpenOf
  <2>5. q = Idle
    BY <1>3, <2>1 DEF TypeInv, RequestsHold
  <2> QED
    BY <1>0, <1>5, <2>4, <2>5 DEF AtSession
<1>11. CASE ~(LoadSession(r) \/ SelectSession(r) \/ WriteSession(r) \/ InsertSession(r))
  <2>1. session' = session /\ p.pc \notin {"session", "selectSession"}
    BY <1>11 DEF Run, OpenTransaction, CheckStock, ReadBatch, TakeUnits, DeadlockVictim, WaitsFor,
                 LoadCustomer, SelectCustomer, WriteCustomer, InsertEntry, InsertMovement,
                 LogAudit, Commit, Throw, db
  <2>2. q.pc \notin AtSession
    BY <1>0, <1>2, <2>1 DEF GoesTo, Flow, AtSession
  <2> QED
    BY <1>5, <1>6, <2>1, <2>2
<1> QED
  BY <1>7, <1>8, <1>9, <1>10, <1>11

\* Every step keeps a cashier to one open session while requests do not overlap.
LEMMA NextOneOpen ==
    ASSUME TypeInv, SerialInv, OpenInv, [Next]_vars
    PROVE  SerialInv' /\ OpenInv'
<1>1. SerialInv'
  BY NextSerial DEF SerialInv
<1>2. ASSUME Serial'
      PROVE  OneOpen' /\ \A s \in Requests : HoldsOpen(req[s])'
  <2>1. Serial /\ OneAtATime /\ OneAtATime'
    BY <1>2, NextSerial
  <2>2. OneOpen /\ \A s \in Requests : HoldsOpen(req[s])
    BY <2>1 DEF OpenInv
  <2>3. CASE UNCHANGED vars
    BY <2>2, <2>3 DEF vars, OneOpen, HoldsOpen, OpenOf
  <2>4. ASSUME NEW r \in Requests, Die(r)
        PROVE  OneOpen' /\ \A s \in Requests : HoldsOpen(req[s])'
    <3>1. session' = session /\ req' = [req EXCEPT ![r] = Idle]
      BY <2>4 DEF Die, Throw, Goto, db
    <3>2. \A s \in Requests : req'[s] = req[s] \/ req'[s] = Idle
      BY <3>1 DEF TypeInv, RequestsHold
    <3> QED
      BY <2>2, <3>1, <3>2, IdleOpen DEF OneOpen, HoldsOpen, OpenOf
  <2> QED
    BY <2>1, <2>2, <2>3, <2>4, BeginOneOpen, RunOneOpen DEF Next
<1> QED
  BY <1>1, <1>2 DEF OpenInv

\* The first state.
LEMMA InitSerial ==
    ASSUME Init
    PROVE  SerialInv /\ OpenInv
<1>1. \A r \in Requests : req[r] = Idle
  BY DEF Init
<1>2. DOMAIN session = {1}
  BY DEF Init
<1> QED
  BY <1>1, <1>2, IdleOpen DEF SerialInv, OneAtATime, Running, OpenInv, OneOpen

\* While requests do not overlap, one handler runs and a cashier has one open session.
LEMMA SerialAlways == Spec => [](TypeInv /\ SerialInv /\ OpenInv)
  BY InitTypes, NextTypes, InitSerial, NextOneOpen, PTL DEF Spec

\* When requests do not overlap, a cashier has one open session at a time: openSession
\* looks for one before it inserts.
THEOREM SessionsHold == Spec => []OneOpenSession
<1>1. OpenInv => OneOpenSession
  BY DEF OpenInv, OneOpen, OneOpenSession
<1> QED
  BY <1>1, SerialAlways, PTL

-----------------------------------------------------------------------------
(* Sums over the rows of a table *)

AmountsOf(rows, S) == MapThenSumSet(LAMBDA k : rows[k].amount, S)

\* The sum of the amounts of rows is the sum of a function.
LEMMA AmountsAreSums ==
    ASSUME NEW rows, NEW S, IsFiniteSet(S)
    PROVE  AmountsOf(rows, S) = SumOf([k \in S |-> rows[k].amount], S)
<1> DEFINE f == [k \in S |-> rows[k].amount]
           iter(g) == g = [s \in SUBSET S |-> IF s = {} THEN 0
                             ELSE rows[First(s)].amount + g[s \ {First(s)}]]
<1>1. AmountsOf(rows, S) = (CHOOSE g : iter(g))[S]
  BY DEF AmountsOf, MapThenSumSet, MapThenFoldSet, First
<1>2. ASSUME NEW s \in SUBSET S, s # {}
      PROVE  f[First(s)] = rows[First(s)].amount
  BY <1>2, FirstIsIn
<1> HIDE DEF f
<1>3. ASSUME NEW g
      PROVE  iter(g) <=> Adds(g, f, S)
  <2>1. [s \in SUBSET S |-> IF s = {} THEN 0 ELSE rows[First(s)].amount + g[s \ {First(s)}]]
          = [s \in SUBSET S |-> IF s = {} THEN 0 ELSE f[First(s)] + g[s \ {First(s)}]]
    BY <1>2
  <2> QED
    BY <2>1 DEF Adds
<1>4. \E g : Adds(g, f, S)
  BY AddsExists
<1> HIDE DEF iter
<1>5. Adds(CHOOSE g : iter(g), f, S) /\ Adds(CHOOSE g : Adds(g, f, S), f, S)
  BY <1>3, <1>4
<1>6. (CHOOSE g : iter(g))[S] = (CHOOSE g : Adds(g, f, S))[S]
  BY <1>5, AddsUnique
<1> QED
  BY <1>1, <1>6, SumUnfolds DEF f

\* The sum of whole amounts is whole.
LEMMA AmountsType ==
    ASSUME NEW rows, NEW S, IsFiniteSet(S), \A k \in S : rows[k].amount \in Int
    PROVE  AmountsOf(rows, S) \in Int
<1> DEFINE f == [k \in S |-> rows[k].amount]
<1>1. \A k \in S : f[k] \in Int
  OBVIOUS
<1> HIDE DEF f
<1>2. SumOf(f, S) \in Int
  BY <1>1, SumType
<1> QED
  BY <1>2, AmountsAreSums DEF f

\* Rows that are the same have the same sum.
LEMMA AmountsSame ==
    ASSUME NEW rows, NEW more, NEW S, IsFiniteSet(S), \A k \in S : more[k] = rows[k]
    PROVE  AmountsOf(more, S) = AmountsOf(rows, S)
<1> DEFINE f == [k \in S |-> rows[k].amount]
           g == [k \in S |-> more[k].amount]
<1>1. \A k \in S : g[k] = f[k]
  OBVIOUS
<1>2. AmountsOf(more, S) = SumOf(g, S) /\ AmountsOf(rows, S) = SumOf(f, S)
  BY AmountsAreSums
<1> HIDE DEF f, g
<1>3. SumOf(g, S) = SumOf(f, S)
  BY <1>1, SumSame
<1> QED
  BY <1>2, <1>3

\* A row more adds its amount.
LEMMA AmountsAdded ==
    ASSUME NEW rows, NEW S, IsFiniteSet(S), NEW n, n \notin S,
           \A k \in S \cup {n} : rows[k].amount \in Int
    PROVE  AmountsOf(rows, S \cup {n}) = rows[n].amount + AmountsOf(rows, S)
<1> DEFINE T == S \cup {n}
           f == [k \in S |-> rows[k].amount]
           h == [k \in T |-> rows[k].amount]
<1>1. /\ \A k \in T : h[k] \in Int
      /\ \A k \in S : f[k] = h[k]
      /\ h[n] = rows[n].amount
  OBVIOUS
<1>2. IsFiniteSet(T)
  BY FS_AddElement
<1>3. AmountsOf(rows, T) = SumOf(h, T) /\ AmountsOf(rows, S) = SumOf(f, S)
  BY <1>2, AmountsAreSums
<1> HIDE DEF f, h
<1>4. SumOf(f, S) = SumOf(h, S)
  BY <1>1, SumSame
<1>5. SumOf(h, T) = h[n] + SumOf(h, S)
  BY <1>1, SumInsert
<1> QED
  BY <1>1, <1>3, <1>4, <1>5

-----------------------------------------------------------------------------
(* The ledger.  A balance is a sum but for the entry that is still to be inserted, and *)
(* for one amount of each request that died before it inserted it.                     *)

Gap(c) == customer[c].balance - Debt(c)
Slack == used.faults * LargestAmount
Near(x) == x <= Slack /\ -x <= Slack
Pending(q, c) == IF q.pc = "entry" /\ q.customer = c THEN q.amount ELSE 0
DueOf(c) == {r \in Requests : req[r].pc = "entry" /\ req[r].customer = c}
Balanced ==
    \A c \in Customers :
      /\ DueOf(c) = {} => Near(Gap(c))
      /\ \A r \in DueOf(c) : Near(Gap(c) - req[r].amount)
HoldsChange(q) ==
    /\ q.op = "payment" => -q.amount \in Amounts
    /\ q.pc \in AtCustomer => /\ q.cust.balance = customer[q.customer].balance + q.amount
                              /\ q.op = "edit" => q.amount = 0
    /\ q.pc = "writeCustomer" => ("balance" \in q.cols <=> q.amount # 0)
LedgerInv == Serial => Balanced /\ \A r \in Requests : HoldsChange(req[r])

\* No sale or payment is of more than the largest amount.
LEMMA LargestIsLargest ==
    /\ LargestAmount \in Nat
    /\ \A amount \in Amounts : amount <= LargestAmount
    /\ \A basket \in Baskets : Receipt(basket).total <= LargestAmount
<1> DEFINE T == {Receipt(b).total : b \in Baskets}
           A == Amounts \cup T
<1>1. IsFiniteSet(T)
  <2> DEFINE f == [b \in Baskets |-> Receipt(b).total]
  <2>1. f \in Surjection(Baskets, T)
    BY DEF Surjection
  <2>2. IsFiniteSet(Baskets)
    BY TillAssumption
  <2> HIDE DEF f, T
  <2> QED
    BY ONLY <2>1, <2>2, FS_Surjection
<1>2. IsFiniteSet(Amounts) /\ Amounts \subseteq Nat \ {0} /\ Amounts # {}
  BY TillAssumption
<1>3. IsFiniteSet(A)
  BY ONLY <1>1, <1>2, FS_Union
<1>4. A # {} /\ A \subseteq Int /\ \A x \in A : x >= 0
  <2>1. \A x \in T : x \in Nat
    BY ReceiptType
  <2> HIDE DEF T
  <2>2. \A x \in Amounts \cup T : x \in Int /\ x >= 0
    BY <1>2, <2>1
  <2> QED
    BY <1>2, <2>2
<1>5. Max(A) \in A /\ \A x \in A : x <= Max(A)
  BY ONLY <1>3, <1>4, MaxIsLargest
<1>6. LargestAmount = Max(A)
  BY DEF LargestAmount
<1> QED
  BY <1>4, <1>5, <1>6

\* What a balance is off by is a whole number.
LEMMA GapType ==
    ASSUME TypeInv
    PROVE  /\ \A c \in Customers : /\ customer[c].balance \in Int /\ Debt(c) \in Int /\ Gap(c) \in Int
                                   /\ IsFiniteSet({k \in DOMAIN ledger : ledger[k].customer = c})
           /\ \A k \in DOMAIN ledger : ledger[k].amount \in Int
           /\ Slack \in Nat /\ used.faults \in Nat
<1>1. ledger \in Seq(LedgerRow) /\ Len(ledger) \in Nat /\ DOMAIN ledger = 1..Len(ledger)
  BY DEF TypeInv, TablesOK
<1>2. \A k \in DOMAIN ledger : ledger[k] \in LedgerRow
  BY <1>1
<1>3. \A k \in DOMAIN ledger : ledger[k].amount \in Int
  BY <1>2 DEF LedgerRow
<1>4. ASSUME NEW c \in Customers
      PROVE  /\ customer[c].balance \in Int /\ Debt(c) \in Int
             /\ IsFiniteSet({k \in DOMAIN ledger : ledger[k].customer = c})
  <2> DEFINE S == {k \in DOMAIN ledger : ledger[k].customer = c}
  <2>1. IsFiniteSet(DOMAIN ledger)
    BY <1>1, FS_Interval
  <2>2. IsFiniteSet(S)
    BY <2>1, FS_Subset
  <2>3. \A k \in S : ledger[k].amount \in Int
    BY <1>3
  <2>4. Debt(c) = AmountsOf(ledger, S)
    BY DEF Debt, AmountsOf, MapThenSumSet, MapThenFoldSet
  <2> HIDE DEF S
  <2>5. Debt(c) \in Int
    BY <2>2, <2>3, <2>4, AmountsType
  <2>6. customer[c].balance \in Int
    BY RowsTyped DEF CustomerRow
  <2> QED
    BY <2>2, <2>5, <2>6 DEF S
<1>5. used.faults \in Nat
  BY TillAssumption DEF TypeInv, UsedOK
<1>6. Slack \in Nat
  BY <1>5, LargestIsLargest DEF Slack
<1>7. ASSUME NEW c \in Customers
      PROVE  Gap(c) \in Int
  <2>1. customer[c].balance \in Int /\ Debt(c) \in Int
    BY <1>4
  <2> QED
    BY ONLY <2>1 DEF Gap
<1> QED
  BY <1>3, <1>4, <1>5, <1>6, <1>7

\* An entry more adds its amount to its customer's debt.
LEMMA DebtAppended ==
    ASSUME TypeInv, NEW e \in LedgerRow, ledger' = Append(ledger, e), NEW c \in Customers
    PROVE  Debt(c)' = Debt(c) + (IF e.customer = c THEN e.amount ELSE 0)
<1> DEFINE S == {k \in DOMAIN ledger : ledger[k].customer = c}
           T == {k \in DOMAIN ledger' : ledger'[k].customer = c}
           n == Len(ledger) + 1
<1>1. ledger \in Seq(LedgerRow)
  BY DEF TypeInv, TablesOK
<1>2. /\ n \notin DOMAIN ledger /\ DOMAIN ledger' = DOMAIN ledger \cup {n} /\ ledger'[n] = e
      /\ \A k \in DOMAIN ledger : ledger'[k] = ledger[k]
  BY <1>1
<1>3. /\ n \notin S /\ T = IF e.customer = c THEN S \cup {n} ELSE S
      /\ \A k \in S : ledger'[k] = ledger[k]
      /\ \A k \in S \cup {n} : ledger'[k].amount \in Int
  BY <1>2, GapType DEF LedgerRow
<1>4. IsFiniteSet(S)
  BY GapType
<1>5. Debt(c) = AmountsOf(ledger, S)
      /\ Debt(c)' = AmountsOf(ledger', T)
  BY DEF Debt, AmountsOf, MapThenSumSet, MapThenFoldSet
<1>6. Debt(c) \in Int /\ e.amount \in Int
  BY GapType DEF LedgerRow
<1> HIDE DEF S, T, n
<1>7. AmountsOf(ledger', S) = AmountsOf(ledger, S)
  BY ONLY <1>3, <1>4, AmountsSame
<1>8. AmountsOf(ledger', S \cup {n}) = ledger'[n].amount + AmountsOf(ledger', S)
  BY ONLY <1>3, <1>4, AmountsAdded
<1> QED
  BY <1>2, <1>3, <1>5, <1>6, <1>7, <1>8

\* What does not write the ledger leaves the debts.
LEMMA DebtUnwritten ==
    ASSUME ledger' = ledger, NEW c
    PROVE  Debt(c)' = Debt(c)
  BY DEF Debt, MapThenSumSet, MapThenFoldSet

\* What writes neither the customers nor the ledger leaves what the balances are off by.
LEMMA GapSame ==
    ASSUME TypeInv, customer' = customer, ledger' = ledger
    PROVE  \A c \in Customers : Gap(c)' = Gap(c) /\ Gap(c) \in Int
<1>1. \A c \in Customers : Debt(c)' = Debt(c)
  BY DebtUnwritten
<1> QED
  BY <1>1, GapType DEF Gap

\* A slot in which nothing runs changes nothing.
LEMMA IdleChange == HoldsChange(Idle) /\ HoldsChange(Idle)'
  BY IdleTyped DEF HoldsChange, AtCustomer

\* Of the only request that runs, the entry is all that may be pending.
LEMMA NearNow ==
    ASSUME TypeInv, Balanced, NEW r \in Requests, NEW p, req[r] = p,
           \A s \in Requests \ {r} : req[s] = Idle, NEW c \in Customers
    PROVE  Near(Gap(c) - Pending(p, c))
<1>1. CASE p.pc = "entry" /\ p.customer = c
  <2>1. r \in DueOf(c)
    BY <1>1 DEF DueOf
  <2> QED
    BY <1>1, <2>1 DEF Balanced, Pending
<1>2. CASE ~(p.pc = "entry" /\ p.customer = c)
  <2>1. DueOf(c) = {}
    BY <1>2, IdleTyped DEF DueOf
  <2>2. Gap(c) \in Int /\ Pending(p, c) = 0
    BY <1>2, GapType DEF Pending
  <2>3. Gap(c) - Pending(p, c) = Gap(c)
    BY ONLY <2>2
  <2> QED
    BY <2>1, <2>3 DEF Balanced
<1> QED
  BY <1>1, <1>2

\* So it is when the balances are near in the next state.
LEMMA BalancedNext ==
    ASSUME NEW r \in Requests, NEW q, req'[r] = q, \A s \in Requests \ {r} : req'[s] = Idle,
           \A c \in Customers : /\ Gap(c)' \in Int
                                /\ Gap(c)' - Pending(q, c) <= Slack'
                                /\ -(Gap(c)' - Pending(q, c)) <= Slack'
    PROVE  Balanced'
<1>1. ASSUME NEW c \in Customers, DueOf(c)' = {}
      PROVE  Near(Gap(c))'
  <2>1. ~(q.pc = "entry" /\ q.customer = c)
    BY <1>1 DEF DueOf
  <2>2. Gap(c)' - Pending(q, c) = Gap(c)'
    BY <2>1 DEF Pending
  <2> QED
    BY <2>2 DEF Near
<1>2. ASSUME NEW c \in Customers, NEW s \in DueOf(c)'
      PROVE  Near(Gap(c) - req[s].amount)'
  <2>1. s = r /\ q.pc = "entry" /\ q.customer = c
    BY <1>2, IdleTyped DEF DueOf
  <2>2. Pending(q, c) = req'[s].amount
    BY <2>1 DEF Pending
  <2> QED
    BY <2>2 DEF Near
<1> QED
  BY <1>1, <1>2 DEF Balanced

\* A step of the only request keeps what the balances are off by.
LEMMA LedgerStep ==
    ASSUME TypeInv, Balanced, NEW r \in Requests, NEW p, req[r] = p, NEW q, req'[r] = q,
           \A s \in Requests \ {r} : req[s] = Idle /\ req'[s] = Idle,
           used'.faults = used.faults,
           \A c \in Customers : /\ Gap(c)' \in Int
                                /\ Gap(c)' - Pending(q, c) = Gap(c) - Pending(p, c),
           HoldsChange(q)'
    PROVE  Balanced' /\ \A s \in Requests : HoldsChange(req[s])'
<1>1. Slack' = Slack
  BY DEF Slack, LargestAmount
<1>2. \A c \in Customers : Near(Gap(c) - Pending(p, c))
  BY NearNow
<1>3. \A c \in Customers : /\ Gap(c)' \in Int
                           /\ Gap(c)' - Pending(q, c) <= Slack'
                           /\ -(Gap(c)' - Pending(q, c)) <= Slack'
  BY <1>1, <1>2 DEF Near
<1>4. Balanced'
  BY <1>3, BalancedNext
<1>5. \A s \in Requests : HoldsChange(req[s])'
  BY IdleChange
<1> QED
  BY <1>4, <1>5

\* A call reads a customer before anybody else can write it.
LEMMA BeginLedger ==
    ASSUME TypeInv, Balanced, NEW r \in Requests, Begin(r), OneAtATime'
    PROVE  Balanced' /\ \A s \in Requests : HoldsChange(req[s])'
<1>0. Idle \in Request /\ Idle.pc = "idle" /\ Idle.amount = 0 /\ Idle.op = "none"
  BY IdleTyped
<1>1. ASSUME NEW q, Call(r, q), q.pc \notin {"idle", "entry"}, HoldsChange(q)
      PROVE  Balanced' /\ \A s \in Requests : HoldsChange(req[s])'
  <2>1. q # Idle
    BY <1>0, <1>1
  <2>2. /\ \A s \in Requests \ {r} : req[s] = Idle /\ req'[s] = Idle
        /\ req'[r] = q /\ UNCHANGED db /\ used'.faults = used.faults
    BY <1>1, <2>1, OthersIdleAtCall
  <2>3. req[r] = Idle
    BY DEF Begin, Free, Running
  <2>4. customer' = customer /\ ledger' = ledger
    BY <2>2 DEF db
  <2>5. HoldsChange(q)'
    BY <1>1, <2>4 DEF HoldsChange
  <2>6. \A c \in Customers : Gap(c)' = Gap(c) /\ Gap(c) \in Int
    BY <2>4, GapSame
  <2>7. \A c : Pending(q, c) = 0 /\ Pending(Idle, c) = 0
    BY <1>0, <1>1 DEF Pending
  <2> QED
    BY <1>0, <2>2, <2>3, <2>5, <2>6, <2>7, LedgerStep
<1>2. ASSUME NEW q, Call(r, q), q.pc \notin AtCustomer \cup {"idle", "entry"}, q.op # "payment"
      PROVE  Balanced' /\ \A s \in Requests : HoldsChange(req[s])'
  BY <1>1, <1>2 DEF HoldsChange, AtCustomer
<1>3. ASSUME NEW basket, NEW method, NEW c, NEW s, BeginSale(r, basket, method, c, s)
      PROVE  Balanced' /\ \A t \in Requests : HoldsChange(req[t])'
  <2> DEFINE amount == Receipt(basket).total
             q == [Idle EXCEPT !.op = "sale", !.pc = "begin", !.id = used.calls + 1,
                     !.method = method, !.basket = basket, !.item = 1,
                     !.customer = c, !.session = s, !.amount = amount]
  <2>1. Call(r, q)
    BY <1>3 DEF BeginSale
  <2> HIDE DEF amount
  <2>2. q.pc = "begin" /\ q.op = "sale"
    BY <1>0 DEF Request
  <2> HIDE DEF q
  <2> QED
    BY <1>2, <2>1, <2>2 DEF AtCustomer
<1>4. ASSUME NEW c \in Customers, NEW amount \in Amounts, BeginPayment(r, c, amount)
      PROVE  Balanced' /\ \A t \in Requests : HoldsChange(req[t])'
  <2> DEFINE cust == [customer[c] EXCEPT !.balance = @ - amount]
             q == [Idle EXCEPT !.op = "payment", !.pc = "selectCustomer", !.customer = c,
                     !.cust = cust, !.amount = -amount]
  <2>1. Call(r, q)
    BY <1>4 DEF BeginPayment
  <2>2. amount \in Nat \ {0} /\ customer[c] \in CustomerRow
    BY InputsTyped, RowsTyped
  <2>3. cust.balance = customer[c].balance - amount /\ customer[c].balance \in Int
    BY <2>2 DEF CustomerRow
  <2> HIDE DEF cust
  <2>4. q.pc = "selectCustomer" /\ q.op = "payment" /\ q.customer = c /\ q.cust = cust
        /\ q.amount = -amount
    BY <1>0 DEF Request
  <2> HIDE DEF q
  <2>5. HoldsChange(q)
    BY <2>2, <2>3, <2>4 DEF HoldsChange
  <2> QED
    BY <1>1, <2>1, <2>4, <2>5
<1>5. ASSUME NEW c \in Customers, NEW enabled \in BOOLEAN, NEW limit \in Limits,
             BeginEdit(r, c, enabled, limit)
      PROVE  Balanced' /\ \A t \in Requests : HoldsChange(req[t])'
  <2> DEFINE cust == [customer[c] EXCEPT !.enabled = enabled, !.limit = limit]
             q == [Idle EXCEPT !.op = "edit", !.pc = "selectCustomer", !.customer = c,
                     !.cust = cust]
  <2>1. Call(r, q)
    BY <1>5 DEF BeginEdit
  <2>2. customer[c] \in CustomerRow
    BY RowsTyped
  <2>3. cust.balance = customer[c].balance /\ customer[c].balance \in Int
    BY <2>2 DEF CustomerRow
  <2> HIDE DEF cust
  <2>4. q.pc = "selectCustomer" /\ q.op = "edit" /\ q.customer = c /\ q.cust = cust
        /\ q.amount = 0
    BY <1>0 DEF Request
  <2> HIDE DEF q
  <2>5. HoldsChange(q)
    BY <2>3, <2>4 DEF HoldsChange
  <2> QED
    BY <1>1, <2>1, <2>4, <2>5
<1>6. CASE SalesController(r)
  BY <1>3, <1>6 DEF SalesController
<1>7. CASE CustomersController(r)
  BY <1>4, <1>5, <1>7 DEF CustomersController
<1>8. CASE CashController(r)
  BY <1>0, <1>2, <1>8
  DEF CashController, BeginOpen, BeginClose, BeginMovement, Request, AtCustomer
<1> QED
  BY <1>6, <1>7, <1>8 DEF Begin

\* The statements that read and write a customer, in turn; nobody writes in between.
LEMMA CustomerStepLedger ==
    ASSUME TypeInv, Balanced, OneAtATime, NEW r \in Requests, HoldsChange(req[r]), Run(r),
           LoadCustomer(r) \/ SelectCustomer(r) \/ WriteCustomer(r)
    PROVE  Balanced' /\ \A s \in Requests : HoldsChange(req[s])'
<1> PICK p : p = req[r]
  OBVIOUS
<1>0. p \in Request /\ Holding(p, Len(session)) /\ Idle.pc = "idle" /\ Idle.amount = 0
      /\ Idle.op = "none" /\ HoldsChange(p)
  BY RowsTyped, IdleTyped
<1>1. \A s \in Requests \ {r} : req[s] = Idle /\ req'[s] = Idle
  BY OthersIdle
<1>2. used' = used
  BY RunFlows
<1>3. ASSUME NEW q, Goto(r, q), HoldsChange(q)',
             \A c \in Customers : /\ Gap(c)' \in Int
                                  /\ Gap(c)' - Pending(q, c) = Gap(c) - Pending(p, c)
      PROVE  Balanced' /\ \A s \in Requests : HoldsChange(req[s])'
  <2>1. req'[r] = q
    BY <1>3 DEF Goto, TypeInv, RequestsHold
  <2> QED
    BY <1>1, <1>2, <1>3, <2>1, LedgerStep
<1>4. ASSUME NEW q, Goto(r, q), UNCHANGED db, HoldsChange(q), p.pc # "entry", q.pc # "entry"
      PROVE  Balanced' /\ \A s \in Requests : HoldsChange(req[s])'
  <2>1. customer' = customer /\ ledger' = ledger
    BY <1>4 DEF db
  <2>2. HoldsChange(q)'
    BY <1>4, <2>1 DEF HoldsChange
  <2>3. \A c \in Customers : Gap(c)' = Gap(c) /\ Gap(c) \in Int
    BY <2>1, GapSame
  <2>4. \A c : Pending(q, c) = 0 /\ Pending(p, c) = 0
    BY <1>4 DEF Pending
  <2> QED
    BY <1>3, <1>4, <2>2, <2>3, <2>4
<1>5. CASE LoadCustomer(r)
  <2> DEFINE row == customer[p.customer]
             cust == [row EXCEPT !.balance = @ + p.amount]
             q == [p EXCEPT !.pc = "selectCustomer", !.cust = cust]
  <2>1. p.pc = "customer" /\ UNCHANGED db /\ (Goto(r, q) \/ Goto(r, Idle))
    BY <1>5 DEF LoadCustomer, Throw
  <2>2. p.op = "sale" /\ p.customer \in Customers /\ p.amount \in Int
    BY <1>0, <2>1 DEF Holding, HoldsOp, HoldsCustomer, Selling, Request
  <2>3. row \in CustomerRow
    BY <2>2, RowsTyped
  <2>4. cust.balance = row.balance + p.amount
    BY <2>3 DEF CustomerRow
  <2> HIDE DEF cust
  <2>5. q.pc = "selectCustomer" /\ q.op = p.op /\ q.customer = p.customer /\ q.cust = cust
        /\ q.amount = p.amount
    BY <1>0 DEF Request
  <2> HIDE DEF q
  <2>6. HoldsChange(q)
    BY <2>2, <2>4, <2>5 DEF HoldsChange
  <2> QED
    BY <1>0, <1>4, <2>1, <2>5, <2>6, IdleChange
<1>6. CASE SelectCustomer(r)
  <2> DEFINE row == customer[p.customer]
             cols == {c \in DOMAIN row : p.cust[c] # row[c]}
             q == [p EXCEPT !.pc = "writeCustomer", !.cols = cols]
  <2>1. p.pc = "selectCustomer" /\ UNCHANGED db /\ Goto(r, q)
    BY <1>6 DEF SelectCustomer
  <2>2. p.customer \in Customers /\ p.amount \in Int
    BY <1>0, <2>1 DEF Holding, HoldsCustomer, AtCustomer, Request
  <2>3. row \in CustomerRow
    BY <2>2, RowsTyped
  <2>4. "balance" \in cols <=> p.cust.balance # row.balance
    BY <2>3 DEF CustomerRow
  <2>5. row.balance \in Int /\ p.cust.balance = row.balance + p.amount
    BY <1>0, <2>1, <2>3 DEF HoldsChange, AtCustomer, CustomerRow
  <2>6. "balance" \in cols <=> p.amount # 0
    <3> HIDE DEF row, cols
    <3> QED
      BY <2>2, <2>4, <2>5
  <2> HIDE DEF cols
  <2>7. q.pc = "writeCustomer" /\ q.op = p.op /\ q.customer = p.customer /\ q.cust = p.cust
        /\ q.amount = p.amount /\ q.cols = cols
    BY <1>0 DEF Request
  <2> HIDE DEF q
  <2>8. HoldsChange(q)
    BY <1>0, <2>1, <2>6, <2>7 DEF HoldsChange, AtCustomer
  <2> QED
    BY <1>4, <2>1, <2>7, <2>8
<1>7. CASE WriteCustomer(r)
  <2> DEFINE row == customer[p.customer]
             new == [c \in DOMAIN row |-> IF c \in p.cols THEN p.cust[c] ELSE row[c]]
             q == [p EXCEPT !.pc = "entry", !.cols = {}, !.cust = NoCustomer]
  <2>1. /\ p.pc = "writeCustomer" /\ customer' = [customer EXCEPT ![p.customer] = new]
        /\ ledger' = ledger /\ Goto(r, IF p.op = "edit" THEN Idle ELSE q)
    BY <1>7 DEF WriteCustomer
  <2>2. p.customer \in Customers /\ p.amount \in Int
    BY <1>0, <2>1 DEF Holding, HoldsCustomer, AtCustomer, Request
  <2>3. row \in CustomerRow
    BY <2>2, RowsTyped
  <2>4. new.balance = IF "balance" \in p.cols THEN p.cust.balance ELSE row.balance
    BY <2>3 DEF CustomerRow
  <2>5. row.balance \in Int /\ p.cust.balance = row.balance + p.amount
        /\ (p.op = "edit" => p.amount = 0) /\ ("balance" \in p.cols <=> p.amount # 0)
    BY <1>0, <2>1, <2>3 DEF HoldsChange, AtCustomer, CustomerRow
  <2>6. new.balance = row.balance + p.amount
    <3> HIDE DEF row, new
    <3> QED
      BY <2>2, <2>4, <2>5
  <2> HIDE DEF new
  <2>7. \A c \in Customers :
          customer'[c].balance = customer[c].balance + (IF c = p.customer THEN p.amount ELSE 0)
    <3>1. \A c \in Customers : customer'[c] = IF c = p.customer THEN new ELSE customer[c]
      BY <2>1 DEF TypeInv, TablesOK
    <3>2. \A c \in Customers : customer[c].balance \in Int
      BY GapType
    <3> QED
      BY <2>6, <3>1, <3>2
  <2>8. \A c \in Customers : Debt(c)' = Debt(c) /\ Debt(c) \in Int /\ customer[c].balance \in Int
    <3>1. \A c \in Customers : Debt(c)' = Debt(c)
      BY <2>1, DebtUnwritten
    <3> QED
      BY <3>1, GapType
  <2>9. \A c \in Customers :
          /\ Gap(c)' \in Int
          /\ Gap(c)' = Gap(c) + (IF c = p.customer THEN p.amount ELSE 0)
          /\ Gap(c) \in Int
    <3> SUFFICES ASSUME NEW c \in Customers
                 PROVE  /\ Gap(c)' \in Int /\ Gap(c) \in Int
                        /\ Gap(c)' = Gap(c) + (IF c = p.customer THEN p.amount ELSE 0)
      OBVIOUS
    <3>1. Gap(c) = customer[c].balance - Debt(c) /\ Gap(c)' = customer'[c].balance - Debt(c)'
      BY DEF Gap
    <3> QED
      BY <2>2, <2>7, <2>8, <3>1
  <2>10. q.pc = "entry" /\ q.op = p.op /\ q.customer = p.customer /\ q.amount = p.amount
    BY <1>0 DEF Request
  <2> HIDE DEF q, row
  <2>11. HoldsChange(q)'
    BY <1>0, <2>10 DEF HoldsChange, AtCustomer
  <2>12. \A c \in Customers : Pending(p, c) = 0 /\ Pending(Idle, c) = 0
           /\ Pending(q, c) = IF c = p.customer THEN p.amount ELSE 0
    BY <1>0, <2>1, <2>10 DEF Pending
  <2>13. CASE p.op = "edit"
    BY <1>3, <2>1, <2>2, <2>5, <2>9, <2>12, <2>13, IdleChange
  <2>14. CASE p.op # "edit"
    BY <1>3, <2>1, <2>2, <2>9, <2>11, <2>12, <2>14
  <2> QED
    BY <2>13, <2>14
<1> QED
  BY <1>5, <1>6, <1>7

\* The entry is the change that the balance already has; the other statements write
\* neither.
LEMMA RunLedger ==
    ASSUME TypeInv, Balanced, OneAtATime, NEW r \in Requests, HoldsChange(req[r]), Run(r)
    PROVE  Balanced' /\ \A s \in Requests : HoldsChange(req[s])'
<1> PICK p : p = req[r]
  OBVIOUS
<1>0. p \in Request /\ Holding(p, Len(session)) /\ Idle.pc = "idle" /\ Idle.amount = 0
      /\ Idle.op = "none" /\ HoldsChange(p) /\ p.amount \in Int
  BY RowsTyped, IdleTyped DEF Request
<1>1. \A s \in Requests \ {r} : req[s] = Idle /\ req'[s] = Idle
  BY OthersIdle
<1>2. used' = used
  BY RunFlows
<1>3. PICK q : req' = [req EXCEPT ![r] = q] /\ GoesTo(p, q)
  BY RunFlows
<1>4. req'[r] = q
  BY <1>3 DEF TypeInv, RequestsHold
<1>5. ASSUME p.pc \notin {"customer", "selectCustomer"}
      PROVE  HoldsChange(q)'
  <2>1. q.pc \notin AtCustomer
    BY <1>0, <1>3, <1>5 DEF GoesTo, Flow, AtCustomer
  <2>2. q = Idle \/ (q.op = p.op /\ q.amount = p.amount)
    BY <1>3 DEF GoesTo, SameCall
  <2> QED
    BY <1>0, <2>1, <2>2 DEF HoldsChange, AtCustomer
<1>6. ASSUME HoldsChange(q)',
             \A c \in Customers : /\ Gap(c)' \in Int
                                  /\ Gap(c)' - Pending(q, c) = Gap(c) - Pending(p, c)
      PROVE  Balanced' /\ \A s \in Requests : HoldsChange(req[s])'
  BY <1>0, <1>1, <1>2, <1>4, <1>6, LedgerStep
<1>7. CASE LoadCustomer(r) \/ SelectCustomer(r) \/ WriteCustomer(r)
  BY <1>7, CustomerStepLedger
<1>8. CASE InsertEntry(r)
  <2>1. p.pc = "entry" /\ customer' = customer /\ ledger' = Append(ledger, Entry(p))
    BY <1>8 DEF InsertEntry
  <2>2. p.customer \in Customers
    BY <1>0, <2>1 DEF Holding, HoldsCustomer
  <2>3. Entry(p) \in LedgerRow /\ Entry(p).customer = p.customer /\ Entry(p).amount = p.amount
    BY <1>0, <2>2 DEF Entry, LedgerRow, Request
  <2>4. \A c \in Customers : Debt(c)' = Debt(c) + (IF c = p.customer THEN p.amount ELSE 0)
    BY <2>1, <2>3, DebtAppended
  <2>5. \A c \in Customers : /\ Gap(c)' \in Int /\ Gap(c) \in Int
                             /\ Gap(c)' = Gap(c) - (IF c = p.customer THEN p.amount ELSE 0)
    <3> SUFFICES ASSUME NEW c \in Customers
                 PROVE  /\ Gap(c)' \in Int /\ Gap(c) \in Int
                        /\ Gap(c)' = Gap(c) - (IF c = p.customer THEN p.amount ELSE 0)
      OBVIOUS
    <3>1. Gap(c) = customer[c].balance - Debt(c) /\ Gap(c)' = customer[c].balance - Debt(c)'
      BY <2>1 DEF Gap
    <3>2. customer[c].balance \in Int /\ Debt(c) \in Int
      BY GapType
    <3> QED
      BY <1>0, <2>4, <3>1, <3>2
  <2>6. q.pc # "entry"
    BY <1>0, <1>3, <2>1 DEF GoesTo, Flow
  <2>7. \A c \in Customers : Pending(q, c) = 0
          /\ Pending(p, c) = IF c = p.customer THEN p.amount ELSE 0
    BY <2>1, <2>6 DEF Pending
  <2> QED
    BY <1>0, <1>5, <1>6, <2>1, <2>5, <2>7
<1>9. CASE ~(LoadCustomer(r) \/ SelectCustomer(r) \/ WriteCustomer(r) \/ InsertEntry(r))
  <2>1. customer' = customer /\ ledger' = ledger
        /\ p.pc \notin {"customer", "selectCustomer", "writeCustomer", "entry"}
    BY <1>9 DEF Run, OpenTransaction, CheckStock, ReadBatch, TakeUnits, DeadlockVictim, WaitsFor,
                LoadSession, SelectSession, WriteSession, InsertSession, InsertMovement,
                LogAudit, Commit, Throw, db
  <2>2. q.pc # "entry"
    BY <1>0, <1>3, <2>1 DEF GoesTo, Flow
  <2>3. \A c \in Customers : Gap(c)' = Gap(c) /\ Gap(c) \in Int
    BY <2>1, GapSame
  <2>4. \A c : Pending(q, c) = 0 /\ Pending(p, c) = 0
    BY <2>1, <2>2 DEF Pending
  <2> QED
    BY <1>5, <1>6, <2>1, <2>3, <2>4
<1> QED
  BY <1>7, <1>8, <1>9

\* A request that dies leaves one entry out at most.
LEMMA DieLedger ==
    ASSUME TypeInv, Balanced, OneAtATime, NEW r \in Requests, HoldsChange(req[r]), Die(r)
    PROVE  Balanced' /\ \A s \in Requests : HoldsChange(req[s])'
<1> PICK p : p = req[r]
  OBVIOUS
<1>0. p \in Request /\ Holding(p, Len(session)) /\ HoldsChange(p) /\ p.amount \in Int
  BY RowsTyped DEF Request
<1>1. /\ Running(r) /\ req' = [req EXCEPT ![r] = Idle] /\ customer' = customer /\ ledger' = ledger
      /\ used'.faults = used.faults + 1 /\ used.faults \in Nat
  BY GapType DEF Die, Throw, Goto, db, TypeInv, UsedOK
<1>2. \A s \in Requests \ {r} : req[s] = Idle /\ req'[s] = Idle
  BY <1>1 DEF OneAtATime, Running, TypeInv, RequestsHold
<1>3. req'[r] = Idle
  BY <1>1 DEF TypeInv, RequestsHold
<1>4. LargestAmount \in Nat /\ Slack \in Nat /\ Slack' = Slack + LargestAmount
  <2>1. LargestAmount \in Nat /\ Slack \in Nat
    BY LargestIsLargest, GapType
  <2>2. Slack = used.faults * LargestAmount /\ Slack' = (used.faults + 1) * LargestAmount
    BY <1>1 DEF Slack, LargestAmount
  <2>3. (used.faults + 1) * LargestAmount = used.faults * LargestAmount + LargestAmount
    BY ONLY <1>1, <2>1
  <2> QED
    BY <2>1, <2>2, <2>3
<1>5. ASSUME NEW c \in Customers
      PROVE  Pending(p, c) \in Int /\ Pending(p, c) <= LargestAmount
             /\ -Pending(p, c) <= LargestAmount
  <2>1. CASE p.pc # "entry"
    BY <1>4, <2>1 DEF Pending
  <2>2. CASE p.pc = "entry" /\ p.op = "sale"
    <3>1. p.basket \in Baskets /\ p.amount = Receipt(p.basket).total
      BY <1>0, <2>2 DEF Holding, HoldsBasket
    <3>2. p.amount \in Nat /\ p.amount <= LargestAmount
      BY <3>1, ReceiptType, LargestIsLargest
    <3> QED
      BY <1>4, <3>2 DEF Pending
  <2>3. CASE p.pc = "entry" /\ p.op = "payment"
    <3>1. -p.amount \in Amounts
      BY <1>0, <2>3 DEF HoldsChange
    <3>2. -p.amount \in Nat /\ -p.amount <= LargestAmount
      BY <3>1, InputsTyped, LargestIsLargest
    <3> QED
      BY <1>0, <1>4, <3>2 DEF Pending
  <2> QED
    BY <1>0, <2>1, <2>2, <2>3 DEF Holding, HoldsOp
<1>6. ASSUME NEW c \in Customers
      PROVE  /\ Gap(c)' \in Int
             /\ Gap(c)' - Pending(Idle, c) <= Slack'
             /\ -(Gap(c)' - Pending(Idle, c)) <= Slack'
  <2>1. Gap(c)' = Gap(c) /\ Gap(c) \in Int /\ Pending(Idle, c) = 0
    BY <1>1, GapSame, IdleTyped DEF Pending
  <2>2. Gap(c) - Pending(p, c) <= Slack /\ -(Gap(c) - Pending(p, c)) <= Slack
    BY <1>2, NearNow DEF Near
  <2> QED
    BY ONLY <1>4, <1>5, <2>1, <2>2
<1>7. Balanced'
  BY <1>2, <1>3, <1>6, BalancedNext
<1> QED
  BY <1>2, <1>3, <1>7, IdleChange

\* What each step keeps.
LEMMA NextLedger ==
    ASSUME TypeInv, SerialInv, LedgerInv, [Next]_vars
    PROVE  LedgerInv'
<1> SUFFICES ASSUME Serial'
             PROVE  Balanced' /\ \A s \in Requests : HoldsChange(req[s])'
  BY DEF LedgerInv
<1>1. Serial /\ OneAtATime /\ OneAtATime'
  BY NextSerial
<1>2. Balanced /\ \A s \in Requests : HoldsChange(req[s])
  BY <1>1 DEF LedgerInv
<1>3. CASE UNCHANGED vars
  <2>1. customer' = customer /\ ledger' = ledger /\ req' = req /\ used' = used
    BY <1>3 DEF vars
  <2>2. \A c \in Customers : Gap(c)' = Gap(c) /\ DueOf(c)' = DueOf(c)
    BY <2>1, GapSame DEF DueOf
  <2>3. Slack' = Slack
    BY <2>1 DEF Slack, LargestAmount
  <2>4. Balanced'
    BY <1>2, <2>1, <2>2, <2>3 DEF Balanced, Near
  <2> QED
    BY <1>2, <2>1, <2>4 DEF HoldsChange
<1> QED
  BY <1>1, <1>2, <1>3, BeginLedger, RunLedger, DieLedger DEF Next

\* The first balances are those of an empty ledger.
LEMMA InitLedger ==
    ASSUME Init, TypeInv
    PROVE  LedgerInv
<1>1. ASSUME NEW c \in Customers
      PROVE  Near(Gap(c)) /\ DueOf(c) = {}
  <2> DEFINE S == {k \in DOMAIN ledger : ledger[k].customer = c}
  <2>1. S = {}
    BY DEF Init
  <2>2. Debt(c) = AmountsOf(ledger, S)
    BY DEF Debt, AmountsOf, MapThenSumSet, MapThenFoldSet
  <2> DEFINE f == [k \in S |-> ledger[k].amount]
  <2> HIDE DEF S
  <2>3. AmountsOf(ledger, S) = SumOf(f, S)
    BY <2>1, FS_EmptySet, AmountsAreSums
  <2> HIDE DEF f
  <2>4. SumOf(f, {}) = 0
    BY SumEmpty
  <2>5. Debt(c) = 0
    BY <2>1, <2>2, <2>3, <2>4
  <2>6. customer[c].balance = 0 /\ Slack \in Nat
    BY GapType DEF Init
  <2>7. Near(Gap(c))
    BY <2>5, <2>6 DEF Gap, Near
  <2> QED
    BY <2>7, IdleTyped DEF Init, DueOf
<1> QED
  BY <1>1, IdleChange DEF Init, LedgerInv, Balanced

\* When requests do not overlap, a balance is the sum of the ledger but for one entry's
\* amount for each request that died between the two.
THEOREM LedgerHolds == Spec => []DebtMatchesLedger
<1>1. Init => TypeInv /\ SerialInv /\ LedgerInv
  BY InitTypes, InitSerial, InitLedger
<1>2. TypeInv /\ LedgerInv => DebtMatchesLedger
  <2> SUFFICES ASSUME TypeInv, LedgerInv, Serial, Quiet, NEW c \in Customers
               PROVE  /\ customer[c].balance - Debt(c) <= used.faults * LargestAmount
                      /\ Debt(c) - customer[c].balance <= used.faults * LargestAmount
    BY DEF DebtMatchesLedger
  <2>1. DueOf(c) = {}
    BY IdleTyped DEF Quiet, Running, DueOf
  <2>2. Gap(c) <= Slack /\ -Gap(c) <= Slack
    BY <2>1 DEF LedgerInv, Balanced, Near
  <2>3. customer[c].balance \in Int /\ Debt(c) \in Int
    BY GapType
  <2>4. Gap(c) = customer[c].balance - Debt(c) /\ -Gap(c) = Debt(c) - customer[c].balance
    BY <2>3 DEF Gap
  <2>5. Slack = used.faults * LargestAmount
    BY DEF Slack
  <2> HIDE DEF Slack
  <2> QED
    BY <2>2, <2>4, <2>5
<1> QED
  BY <1>1, <1>2, NextTypes, NextSerial, NextLedger, PTL DEF Spec, SerialInv

-----------------------------------------------------------------------------
(* The drawer.  What a session expects is a sum but for the sale or the movement that *)
(* is still to be inserted; nobody writes a session between its load and its save, so *)
(* the row becomes the entity in hand.                                                *)

TotalsOf(S) == MapThenSumSet(LAMBDA x : x.total, S)
DrawnFrom(s) == AmountsOf(drawer, {k \in DOMAIN drawer : drawer[k].session = s})
SoldTo(s) == TotalsOf(CashSales(s))
Missing(s) == session[s].expected - (session[s].opening + DrawnFrom(s) + SoldTo(s))
Owing(q) == q.pc = "move" \/ (q.op = "sale" /\ q.method = "CASH" /\ q.pc \in {"audit", "commit"})
Drawn(q, s) == IF Owing(q) /\ q.session = s THEN q.amount ELSE 0
OwingTo(s) == {r \in Requests : Owing(req[r]) /\ req[r].session = s}
ClosedRight(row) == row.status = "CLOSED" => row.difference = row.counted - row.expected
Explained ==
    \A s \in DOMAIN session :
      /\ OwingTo(s) = {} => Missing(s) = 0
      /\ \A r \in OwingTo(s) : Missing(s) = req[r].amount /\ session[s].status = "OPEN"
      /\ ClosedRight(session[s])
Changed(q, row) ==
    IF q.op = "close"
    THEN [row EXCEPT !.counted = q.sess.counted, !.status = "CLOSED",
                     !.difference = q.sess.counted - row.expected]
    ELSE [row EXCEPT !.expected = @ + q.amount]
HoldsRow(q) ==
    /\ q.pc = "insertSession" => /\ q.sess.expected = q.sess.opening
                                 /\ q.sess.status = "OPEN"
    /\ q.pc \in AtSession => LET row == session[q.session]
                             IN  row.status = "OPEN" /\ q.sess = Changed(q, row)
    /\ q.pc = "writeSession" =>
         LET row == session[q.session]
         IN  q.cols = {c \in DOMAIN row \ {"user", "opening"} : q.sess[c] # row[c]}
RefsOK ==
    /\ \A k \in DOMAIN drawer : drawer[k].session \in DOMAIN session
    /\ IsFiniteSet(sales) /\ \A x \in sales : x.session \in 0..Len(session)
DrawerInv == Clean => Explained /\ RefsOK /\ \A r \in Requests : HoldsRow(req[r])

\* The sum of the totals of sales is the sum of a function.
LEMMA TotalsAreSumsOf ==
    ASSUME NEW S, IsFiniteSet(S)
    PROVE  TotalsOf(S) = SumOf([x \in S |-> x.total], S)
<1> DEFINE f == [x \in S |-> x.total]
           iter(g) == g = [s \in SUBSET S |-> IF s = {} THEN 0
                             ELSE First(s).total + g[s \ {First(s)}]]
<1>1. TotalsOf(S) = (CHOOSE g : iter(g))[S]
  BY DEF TotalsOf, MapThenSumSet, MapThenFoldSet, First
<1>2. ASSUME NEW s \in SUBSET S, s # {}
      PROVE  f[First(s)] = First(s).total
  BY <1>2, FirstIsIn
<1> HIDE DEF f
<1>3. ASSUME NEW g
      PROVE  iter(g) <=> Adds(g, f, S)
  <2>1. [s \in SUBSET S |-> IF s = {} THEN 0 ELSE First(s).total + g[s \ {First(s)}]]
          = [s \in SUBSET S |-> IF s = {} THEN 0 ELSE f[First(s)] + g[s \ {First(s)}]]
    BY <1>2
  <2> QED
    BY <2>1 DEF Adds
<1>4. \E g : Adds(g, f, S)
  BY AddsExists
<1> HIDE DEF iter
<1>5. Adds(CHOOSE g : iter(g), f, S) /\ Adds(CHOOSE g : Adds(g, f, S), f, S)
  BY <1>3, <1>4
<1>6. (CHOOSE g : iter(g))[S] = (CHOOSE g : Adds(g, f, S))[S]
  BY <1>5, AddsUnique
<1> QED
  BY <1>1, <1>6, SumUnfolds DEF f

\* The sum of whole totals is whole.
LEMMA TotalsType ==
    ASSUME NEW S, IsFiniteSet(S), \A x \in S : x.total \in Int
    PROVE  TotalsOf(S) \in Int
<1> DEFINE f == [x \in S |-> x.total]
<1>1. \A x \in S : f[x] \in Int
  OBVIOUS
<1> HIDE DEF f
<1>2. SumOf(f, S) \in Int
  BY <1>1, SumType
<1> QED
  BY <1>2, TotalsAreSumsOf DEF f

\* A sale more adds its total.
LEMMA TotalsAdded ==
    ASSUME NEW S, IsFiniteSet(S), NEW y, y \notin S, \A x \in S \cup {y} : x.total \in Int
    PROVE  TotalsOf(S \cup {y}) = y.total + TotalsOf(S)
<1> DEFINE T == S \cup {y}
           f == [x \in S |-> x.total]
           h == [x \in T |-> x.total]
<1>1. /\ \A x \in T : h[x] \in Int
      /\ \A x \in S : f[x] = h[x]
      /\ h[y] = y.total
  OBVIOUS
<1>2. IsFiniteSet(T)
  BY FS_AddElement
<1>3. TotalsOf(T) = SumOf(h, T) /\ TotalsOf(S) = SumOf(f, S)
  BY <1>2, TotalsAreSumsOf
<1> HIDE DEF f, h
<1>4. SumOf(f, S) = SumOf(h, S)
  BY <1>1, SumSame
<1>5. SumOf(h, T) = h[y] + SumOf(h, S)
  BY <1>1, SumInsert
<1> QED
  BY <1>1, <1>3, <1>4, <1>5

\* What a session lacks is a whole number.
LEMMA MissingType ==
    ASSUME TypeInv, RefsOK
    PROVE  /\ \A s : /\ DrawnFrom(s) \in Int /\ SoldTo(s) \in Int
                     /\ IsFiniteSet({k \in DOMAIN drawer : drawer[k].session = s})
                     /\ IsFiniteSet(CashSales(s))
           /\ \A k \in DOMAIN drawer : drawer[k].amount \in Int
           /\ \A x \in sales : x.total \in Int
           /\ \A s \in DOMAIN session : /\ session[s].expected \in Int
                                        /\ session[s].opening \in Int
                                        /\ Missing(s) \in Int
<1>1. drawer \in Seq(CashMovementRow) /\ Len(drawer) \in Nat /\ DOMAIN drawer = 1..Len(drawer)
  BY DEF TypeInv, TablesOK
<1>2. \A k \in DOMAIN drawer : drawer[k] \in CashMovementRow
  BY <1>1
<1>3. \A k \in DOMAIN drawer : drawer[k].amount \in Int
  BY <1>2 DEF CashMovementRow
<1>4. \A x \in sales : x.total \in Int
  BY DEF TypeInv, TablesOK, SaleRow
<1>5. ASSUME NEW s
      PROVE  DrawnFrom(s) \in Int /\ IsFiniteSet({k \in DOMAIN drawer : drawer[k].session = s})
  <2> DEFINE S == {k \in DOMAIN drawer : drawer[k].session = s}
  <2>1. IsFiniteSet(DOMAIN drawer)
    BY <1>1, FS_Interval
  <2>2. IsFiniteSet(S)
    BY <2>1, FS_Subset
  <2>3. \A k \in S : drawer[k].amount \in Int
    BY <1>3
  <2>4. DrawnFrom(s) = AmountsOf(drawer, S)
    BY DEF DrawnFrom
  <2> HIDE DEF S
  <2>5. AmountsOf(drawer, S) \in Int
    BY ONLY <2>2, <2>3, AmountsType
  <2> QED
    BY <2>2, <2>4, <2>5 DEF S
<1>6. ASSUME NEW s
      PROVE  SoldTo(s) \in Int /\ IsFiniteSet(CashSales(s))
  <2>1. CashSales(s) \subseteq sales /\ IsFiniteSet(sales)
    BY DEF CashSales, RefsOK
  <2>2. IsFiniteSet(CashSales(s))
    BY ONLY <2>1, FS_Subset
  <2>3. \A x \in CashSales(s) : x.total \in Int
    BY <1>4, <2>1
  <2>4. TotalsOf(CashSales(s)) \in Int
    BY ONLY <2>2, <2>3, TotalsType
  <2> QED
    BY <2>2, <2>4 DEF SoldTo
<1>7. ASSUME NEW s \in DOMAIN session
      PROVE  session[s].expected \in Int /\ session[s].opening \in Int /\ Missing(s) \in Int
  <2>1. session[s].expected \in Int /\ session[s].opening \in Int
    BY RowsTyped DEF SessionRow
  <2>2. DrawnFrom(s) \in Int /\ SoldTo(s) \in Int
    BY <1>5, <1>6
  <2> QED
    BY ONLY <2>1, <2>2 DEF Missing
<1> QED
  BY <1>3, <1>4, <1>5, <1>6, <1>7

\* What writes neither movements nor sales leaves their sums.
LEMMA SumsUnwritten ==
    ASSUME NEW s
    PROVE  /\ drawer' = drawer => DrawnFrom(s)' = DrawnFrom(s)
           /\ sales' = sales => SoldTo(s)' = SoldTo(s)
<1>1. ASSUME drawer' = drawer
      PROVE  DrawnFrom(s)' = DrawnFrom(s)
  BY <1>1 DEF DrawnFrom, AmountsOf, MapThenSumSet, MapThenFoldSet
<1>2. ASSUME sales' = sales
      PROVE  SoldTo(s)' = SoldTo(s)
  <2>1. CashSales(s)' = CashSales(s)
    BY <1>2 DEF CashSales
  <2>2. SoldTo(s)' = TotalsOf(CashSales(s)') /\ SoldTo(s) = TotalsOf(CashSales(s))
    BY DEF SoldTo, TotalsOf, MapThenSumSet, MapThenFoldSet
  <2> QED
    BY <2>1, <2>2
<1> QED
  BY <1>1, <1>2

\* A session to which no movement and no sale refers has no sums.
LEMMA SumsEmpty ==
    ASSUME NEW s, \A k \in DOMAIN drawer : drawer[k].session # s, \A x \in sales : x.session # s
    PROVE  DrawnFrom(s) = 0 /\ SoldTo(s) = 0
<1> DEFINE S == {k \in DOMAIN drawer : drawer[k].session = s}
           f == [k \in S |-> drawer[k].amount]
           g == [x \in CashSales(s) |-> x.total]
<1>1. S = {} /\ CashSales(s) = {}
  BY DEF CashSales
<1>2. DrawnFrom(s) = AmountsOf(drawer, S) /\ SoldTo(s) = TotalsOf(CashSales(s))
  BY DEF DrawnFrom, SoldTo
<1> HIDE DEF S
<1>3. AmountsOf(drawer, S) = SumOf(f, S) /\ TotalsOf(CashSales(s)) = SumOf(g, CashSales(s))
  BY <1>1, FS_EmptySet, AmountsAreSums, TotalsAreSumsOf
<1> HIDE DEF f, g
<1>4. SumOf(f, {}) = 0 /\ SumOf(g, {}) = 0
  BY SumEmpty
<1> QED
  BY <1>1, <1>2, <1>3, <1>4

\* A movement more adds its amount to its session's.
LEMMA MovementAppended ==
    ASSUME TypeInv, RefsOK, NEW m \in CashMovementRow, drawer' = Append(drawer, m), NEW s
    PROVE  DrawnFrom(s)' = DrawnFrom(s) + (IF m.session = s THEN m.amount ELSE 0)
<1> DEFINE S == {k \in DOMAIN drawer : drawer[k].session = s}
           T == {k \in DOMAIN drawer' : drawer'[k].session = s}
           n == Len(drawer) + 1
<1>1. drawer \in Seq(CashMovementRow)
  BY DEF TypeInv, TablesOK
<1>2. /\ n \notin DOMAIN drawer /\ DOMAIN drawer' = DOMAIN drawer \cup {n} /\ drawer'[n] = m
      /\ \A k \in DOMAIN drawer : drawer'[k] = drawer[k]
  BY <1>1
<1>3. /\ n \notin S /\ T = IF m.session = s THEN S \cup {n} ELSE S
      /\ \A k \in S : drawer'[k] = drawer[k]
      /\ \A k \in S \cup {n} : drawer'[k].amount \in Int
  BY <1>2, MissingType DEF CashMovementRow
<1>4. IsFiniteSet(S)
  BY MissingType
<1>5. DrawnFrom(s) = AmountsOf(drawer, S) /\ DrawnFrom(s)' = AmountsOf(drawer', T)
  BY DEF DrawnFrom, AmountsOf, MapThenSumSet, MapThenFoldSet
<1>6. DrawnFrom(s) \in Int /\ m.amount \in Int
  BY MissingType DEF CashMovementRow
<1> HIDE DEF S, T, n
<1>7. AmountsOf(drawer', S) = AmountsOf(drawer, S)
  BY ONLY <1>3, <1>4, AmountsSame
<1>8. AmountsOf(drawer', S \cup {n}) = drawer'[n].amount + AmountsOf(drawer', S)
  BY ONLY <1>3, <1>4, AmountsAdded
<1> QED
  BY <1>2, <1>3, <1>5, <1>6, <1>7, <1>8

\* A sale more adds its total to its session's, if it was paid in cash.
LEMMA SaleAppended ==
    ASSUME TypeInv, RefsOK, NEW y \in SaleRow, y \notin sales, sales' = sales \cup {y}, NEW s
    PROVE  SoldTo(s)' = SoldTo(s) + (IF y.method = "CASH" /\ y.session = s THEN y.total ELSE 0)
<1> DEFINE S == CashSales(s)
           T == CashSales(s)'
<1>1. T = IF y.method = "CASH" /\ y.session = s THEN S \cup {y} ELSE S
  BY DEF CashSales
<1>2. y \notin S /\ IsFiniteSet(S) /\ \A x \in S \cup {y} : x.total \in Int
  <2>1. y.total \in Int /\ y \notin S /\ S \subseteq sales
    BY DEF CashSales, SaleRow
  <2>2. IsFiniteSet(S) /\ \A x \in sales : x.total \in Int
    BY MissingType
  <2> QED
    BY ONLY <2>1, <2>2
<1>3. SoldTo(s) = TotalsOf(S) /\ SoldTo(s)' = TotalsOf(T)
  BY DEF SoldTo, TotalsOf, MapThenSumSet, MapThenFoldSet
<1>4. SoldTo(s) \in Int
  BY MissingType
<1> HIDE DEF S, T
<1>5. TotalsOf(S \cup {y}) = y.total + TotalsOf(S)
  BY ONLY <1>2, TotalsAdded
<1> QED
  BY <1>1, <1>2, <1>3, <1>4, <1>5

\* A slot in which nothing runs holds no session.
LEMMA IdleRow == HoldsRow(Idle) /\ HoldsRow(Idle)' /\ ~Owing(Idle) /\ \A s : Drawn(Idle, s) = 0
  BY IdleTyped DEF HoldsRow, AtSession, Owing, Drawn

\* Of the only request that runs, its sale or movement is all that may be missing.
LEMMA MissingNow ==
    ASSUME TypeInv, RefsOK, Explained, NEW r \in Requests, NEW p, req[r] = p,
           \A s \in Requests \ {r} : req[s] = Idle, NEW s \in DOMAIN session
    PROVE  /\ Missing(s) = Drawn(p, s) /\ ClosedRight(session[s])
           /\ Owing(p) /\ p.session = s => session[s].status = "OPEN"
<1>1. CASE Owing(p) /\ p.session = s
  <2>1. r \in OwingTo(s)
    BY <1>1 DEF OwingTo
  <2> QED
    BY <1>1, <2>1 DEF Explained, Drawn
<1>2. CASE ~(Owing(p) /\ p.session = s)
  <2>1. OwingTo(s) = {}
    BY <1>2, IdleRow DEF OwingTo
  <2> QED
    BY <1>2, <2>1 DEF Explained, Drawn
<1> QED
  BY <1>1, <1>2

\* So it is when it is all that is missing in the next state.
LEMMA ExplainedNext ==
    ASSUME NEW r \in Requests, NEW q, req'[r] = q, \A s \in Requests \ {r} : req'[s] = Idle,
           \A s \in DOMAIN session' :
             /\ Missing(s)' = Drawn(q, s) /\ ClosedRight(session'[s])
             /\ Owing(q) /\ q.session = s => session'[s].status = "OPEN"
    PROVE  Explained'
<1>1. ASSUME NEW s \in DOMAIN session', OwingTo(s)' = {}
      PROVE  Missing(s)' = 0
  <2>1. ~(Owing(q) /\ q.session = s)
    BY <1>1 DEF OwingTo, Owing
  <2> QED
    BY <2>1 DEF Drawn
<1>2. ASSUME NEW s \in DOMAIN session', NEW t \in OwingTo(s)'
      PROVE  Missing(s)' = req'[t].amount /\ session'[s].status = "OPEN"
  <2>1. t = r /\ Owing(q) /\ q.session = s
    BY <1>2, IdleRow DEF OwingTo, Owing
  <2> QED
    BY <2>1 DEF Drawn
<1> QED
  BY <1>1, <1>2 DEF Explained, ClosedRight

\* A step of the only request that writes no session, movement or sale.
LEMMA DrawerUnwritten ==
    ASSUME TypeInv, RefsOK, Explained, NEW r \in Requests, NEW p, req[r] = p, NEW q, req'[r] = q,
           \A s \in Requests \ {r} : req[s] = Idle /\ req'[s] = Idle,
           session' = session, drawer' = drawer, sales' = sales,
           \A s \in DOMAIN session : (Owing(p) /\ p.session = s) <=> (Owing(q) /\ q.session = s),
           Owing(q) => q.amount = p.amount
    PROVE  Explained' /\ RefsOK'
<1>1. RefsOK'
  BY DEF RefsOK
<1>2. ASSUME NEW s \in DOMAIN session
      PROVE  Missing(s)' = Missing(s)
  BY SumsUnwritten DEF Missing
<1>3. ASSUME NEW s \in DOMAIN session
      PROVE  Drawn(q, s) = Drawn(p, s)
  BY DEF Drawn
<1>4. \A s \in DOMAIN session :
        /\ Missing(s) = Drawn(p, s) /\ ClosedRight(session[s])
        /\ Owing(p) /\ p.session = s => session[s].status = "OPEN"
  BY MissingNow
<1>5. \A s \in DOMAIN session' :
        /\ Missing(s)' = Drawn(q, s) /\ ClosedRight(session'[s])
        /\ Owing(q) /\ q.session = s => session'[s].status = "OPEN"
  BY <1>2, <1>3, <1>4
<1> QED
  BY <1>1, <1>5, ExplainedNext

\* A call reads a session before anybody else can write it.
LEMMA BeginDrawer ==
    ASSUME TypeInv, RefsOK, Explained, NEW r \in Requests, Begin(r), OneAtATime'
    PROVE  Explained' /\ RefsOK' /\ \A s \in Requests : HoldsRow(req[s])'
<1>0. Idle \in Request /\ Idle.pc = "idle" /\ Idle.op = "none"
  BY IdleTyped
<1>1. ASSUME NEW q, Call(r, q),
             q.pc \in {"begin", "selectCustomer", "insertSession", "selectSession"}, HoldsRow(q)
      PROVE  Explained' /\ RefsOK' /\ \A s \in Requests : HoldsRow(req[s])'
  <2>1. q # Idle
    BY <1>0, <1>1
  <2>2. /\ \A s \in Requests \ {r} : req[s] = Idle /\ req'[s] = Idle
        /\ req'[r] = q /\ UNCHANGED db
    BY <1>1, <2>1, OthersIdleAtCall
  <2>3. req[r] = Idle
    BY DEF Begin, Free, Running
  <2>4. session' = session /\ drawer' = drawer /\ sales' = sales
    BY <2>2 DEF db
  <2>5. ~Owing(q)
    BY <1>1 DEF Owing
  <2>6. Explained' /\ RefsOK'
    BY <2>2, <2>3, <2>4, <2>5, IdleRow, DrawerUnwritten
  <2>7. HoldsRow(q)'
    BY <1>1, <2>4 DEF HoldsRow, Changed
  <2> QED
    BY <2>2, <2>6, <2>7, IdleRow
<1>2. ASSUME NEW q, Call(r, q), q.pc \in {"begin", "selectCustomer"}
      PROVE  Explained' /\ RefsOK' /\ \A s \in Requests : HoldsRow(req[s])'
  BY <1>1, <1>2 DEF HoldsRow, AtSession
<1>3. ASSUME NEW basket, NEW method, NEW c, NEW s, BeginSale(r, basket, method, c, s)
      PROVE  Explained' /\ RefsOK' /\ \A t \in Requests : HoldsRow(req[t])'
  <2> DEFINE amount == Receipt(basket).total
             q == [Idle EXCEPT !.op = "sale", !.pc = "begin", !.id = used.calls + 1,
                     !.method = method, !.basket = basket, !.item = 1,
                     !.customer = c, !.session = s, !.amount = amount]
  <2>1. Call(r, q)
    BY <1>3 DEF BeginSale
  <2> HIDE DEF amount
  <2>2. q.pc = "begin"
    BY <1>0 DEF Request
  <2> HIDE DEF q
  <2> QED
    BY <1>2, <2>1, <2>2
<1>4. CASE SalesController(r)
  BY <1>3, <1>4 DEF SalesController
<1>5. CASE CustomersController(r)
  BY <1>0, <1>2, <1>5 DEF CustomersController, BeginPayment, BeginEdit, Request
<1>6. ASSUME NEW u \in Cashiers, NEW amount \in Amounts, BeginOpen(r, u, amount)
      PROVE  Explained' /\ RefsOK' /\ \A t \in Requests : HoldsRow(req[t])'
  <2> DEFINE sess == [NoSession(u) EXCEPT !.opening = amount, !.expected = amount]
             q == [Idle EXCEPT !.op = "open", !.pc = "insertSession", !.sess = sess]
  <2>1. Call(r, q)
    BY <1>6 DEF BeginOpen
  <2>2. sess.expected = sess.opening /\ sess.status = "OPEN"
    BY DEF NoSession
  <2> HIDE DEF sess
  <2>3. q.pc = "insertSession" /\ q.sess = sess
    BY <1>0 DEF Request
  <2> HIDE DEF q
  <2>4. HoldsRow(q)
    BY <2>2, <2>3 DEF HoldsRow, AtSession
  <2> QED
    BY <1>1, <2>1, <2>3, <2>4
<1>7. ASSUME NEW s \in DOMAIN session, NEW amount \in Amounts, BeginClose(r, s, amount)
      PROVE  Explained' /\ RefsOK' /\ \A t \in Requests : HoldsRow(req[t])'
  <2> DEFINE row == session[s]
             sess == [row EXCEPT !.counted = amount, !.status = "CLOSED",
                              !.difference = amount - row.expected]
             q == [Idle EXCEPT !.op = "close", !.pc = "selectSession", !.session = s,
                     !.sess = sess]
  <2>1. Call(r, q) /\ row.status = "OPEN"
    BY <1>7 DEF BeginClose, IsOpen
  <2>2. sess.counted = amount
    BY RowsTyped DEF SessionRow
  <2>3. sess = [row EXCEPT !.counted = sess.counted, !.status = "CLOSED",
                           !.difference = sess.counted - row.expected]
    BY <2>2
  <2> HIDE DEF sess
  <2>4. q.pc = "selectSession" /\ q.session = s /\ q.sess = sess /\ q.op = "close"
    BY <1>0 DEF Request
  <2> HIDE DEF q
  <2>5. HoldsRow(q)
    BY <2>1, <2>3, <2>4 DEF HoldsRow, Changed
  <2> QED
    BY <1>1, <2>1, <2>4, <2>5
<1>8. ASSUME NEW s \in DOMAIN session, NEW amount, BeginMovement(r, s, amount)
      PROVE  Explained' /\ RefsOK' /\ \A t \in Requests : HoldsRow(req[t])'
  <2> DEFINE row == session[s]
             sess == [row EXCEPT !.expected = @ + amount]
             q == [Idle EXCEPT !.op = "movement", !.pc = "selectSession", !.session = s,
                     !.sess = sess, !.amount = amount]
  <2>1. Call(r, q) /\ row.status = "OPEN"
    BY <1>8 DEF BeginMovement, IsOpen
  <2>2. sess = [row EXCEPT !.expected = @ + amount]
    OBVIOUS
  <2> HIDE DEF sess
  <2>3. q.pc = "selectSession" /\ q.session = s /\ q.sess = sess /\ q.op = "movement"
        /\ q.amount = amount
    BY <1>0 DEF Request
  <2> HIDE DEF q
  <2>4. HoldsRow(q)
    BY <2>1, <2>2, <2>3 DEF HoldsRow, Changed
  <2> QED
    BY <1>1, <2>1, <2>3, <2>4
<1>9. CASE CashController(r)
  BY <1>6, <1>7, <1>8, <1>9 DEF CashController
<1> QED
  BY <1>4, <1>5, <1>9 DEF Begin

\* The row that is written is the entity in hand: nobody wrote it after it was read.
LEMMA RowWritten ==
    ASSUME TypeInv, NEW r \in Requests, HoldsRow(req[r]), WriteSession(r)
    PROVE  /\ req[r].session \in DOMAIN session /\ session[req[r].session].status = "OPEN"
           /\ req[r].sess = Changed(req[r], session[req[r].session])
           /\ DOMAIN session' = DOMAIN session /\ Len(session') = Len(session)
           /\ \A s \in DOMAIN session :
                session'[s] = IF s = req[r].session THEN req[r].sess ELSE session[s]
<1> PICK p : p = req[r]
  OBVIOUS
<1> DEFINE row == session[p.session]
           new == [c \in DOMAIN row |-> IF c \in p.cols THEN p.sess[c] ELSE row[c]]
<1>0. p \in Request /\ Holding(p, Len(session)) /\ session \in Seq(SessionRow)
  BY RowsTyped DEF TypeInv, TablesOK
<1>1. p.pc = "writeSession" /\ session' = [session EXCEPT ![p.session] = new]
  BY DEF WriteSession
<1>2. p.session \in DOMAIN session
  <2>1. p.session \in 0..Len(session) /\ p.session # 0 /\ Len(session) \in Nat
    BY <1>0, <1>1, RowsTyped DEF Holding, HoldsSession, AtSession
  <2> QED
    BY <2>1, RowsTyped
<1>3. row \in SessionRow /\ p.sess \in SessionRow
  BY <1>0, <1>2, RowsTyped DEF Request
<1>4. /\ row.status = "OPEN" /\ p.sess = Changed(p, row)
      /\ p.cols = {c \in DOMAIN row \ {"user", "opening"} : p.sess[c] # row[c]}
  BY <1>1 DEF HoldsRow, AtSession
<1>5. p.sess["user"] = row["user"] /\ p.sess["opening"] = row["opening"]
  BY <1>3, <1>4 DEF Changed, SessionRow
<1>6. \A c \in DOMAIN row : new[c] = p.sess[c]
  <2> HIDE DEF row
  <2> QED
    BY <1>4, <1>5
<1>7. new = p.sess
  BY <1>3, <1>6 DEF SessionRow
<1>8. DOMAIN session' = DOMAIN session /\ Len(session') = Len(session)
  BY <1>0, <1>1, <1>2, <1>3, <1>7, RowReplaced
<1>9. \A s \in DOMAIN session : session'[s] = IF s = p.session THEN p.sess ELSE session[s]
  <2> HIDE DEF new
  <2> QED
    BY <1>0, <1>1, <1>7
<1> QED
  BY <1>2, <1>4, <1>8, <1>9

\* The statements that read and write a session.
LEMMA SessionStepDrawer ==
    ASSUME TypeInv, RefsOK, Explained, OneAtATime, NEW r \in Requests, HoldsRow(req[r]), Run(r),
           LoadSession(r) \/ SelectSession(r) \/ WriteSession(r)
    PROVE  Explained' /\ RefsOK' /\ \A s \in Requests : HoldsRow(req[s])'
<1> PICK p : p = req[r]
  OBVIOUS
<1>0. p \in Request /\ Holding(p, Len(session)) /\ HoldsRow(p) /\ p.amount \in Int
  BY RowsTyped DEF Request
<1>1. \A s \in Requests \ {r} : req[s] = Idle /\ req'[s] = Idle
  BY OthersIdle
<1>2. ASSUME NEW q, Goto(r, q), UNCHANGED db, HoldsRow(q), ~Owing(p), ~Owing(q)
      PROVE  Explained' /\ RefsOK' /\ \A s \in Requests : HoldsRow(req[s])'
  <2>1. req'[r] = q /\ session' = session /\ drawer' = drawer /\ sales' = sales
    BY <1>2 DEF Goto, TypeInv, RequestsHold, db
  <2>2. Explained' /\ RefsOK'
    BY <1>1, <1>2, <2>1, DrawerUnwritten
  <2>3. HoldsRow(q)'
    BY <1>2, <2>1 DEF HoldsRow, Changed
  <2> QED
    BY <1>1, <2>1, <2>2, <2>3, IdleRow
<1>3. CASE LoadSession(r)
  <2> DEFINE row == session[p.session]
             sess == [row EXCEPT !.expected = @ + p.amount]
             q == [p EXCEPT !.pc = "selectSession", !.sess = sess]
  <2>1. p.pc = "session" /\ UNCHANGED db /\ (Goto(r, Idle) \/ (Goto(r, q) /\ row.status = "OPEN"))
    BY <1>3 DEF LoadSession, Throw, IsOpen
  <2>2. p.op = "sale"
    BY <1>0, <2>1 DEF Holding, HoldsOp, Selling
  <2>3. sess = [row EXCEPT !.expected = @ + p.amount]
    OBVIOUS
  <2> HIDE DEF sess
  <2>4. q.pc = "selectSession" /\ q.op = p.op /\ q.session = p.session /\ q.sess = sess
        /\ q.amount = p.amount
    BY <1>0 DEF Request
  <2> HIDE DEF q
  <2>5. row.status = "OPEN" => HoldsRow(q)
    BY <2>2, <2>3, <2>4 DEF HoldsRow, Changed
  <2>6. ~Owing(p) /\ ~Owing(q)
    BY <2>1, <2>4 DEF Owing
  <2> QED
    BY <1>2, <2>1, <2>5, <2>6, IdleRow
<1>4. CASE SelectSession(r)
  <2> DEFINE row == session[p.session]
             cols == {c \in DOMAIN row \ {"user", "opening"} : p.sess[c] # row[c]}
             q == [p EXCEPT !.pc = "writeSession", !.cols = cols]
  <2>1. p.pc = "selectSession" /\ UNCHANGED db /\ Goto(r, q)
    BY <1>4 DEF SelectSession
  <2>2. cols = {c \in DOMAIN row \ {"user", "opening"} : p.sess[c] # row[c]}
    OBVIOUS
  <2> HIDE DEF cols
  <2>3. q.pc = "writeSession" /\ q.op = p.op /\ q.session = p.session /\ q.sess = p.sess
        /\ q.amount = p.amount /\ q.cols = cols
    BY <1>0 DEF Request
  <2> HIDE DEF q
  <2>4. HoldsRow(q)
    BY <1>0, <2>1, <2>2, <2>3 DEF HoldsRow, Changed, AtSession
  <2>5. ~Owing(p) /\ ~Owing(q)
    BY <2>1, <2>3 DEF Owing
  <2> QED
    BY <1>2, <2>1, <2>4, <2>5
<1>5. CASE WriteSession(r)
  <2> DEFINE row == session[p.session]
             base == [p EXCEPT !.cols = {}, !.sess = NoSession(AnyCashier)]
             q == AfterSession(base)
  <2>1. p.pc = "writeSession" /\ drawer' = drawer /\ sales' = sales /\ Goto(r, q)
    BY <1>5 DEF WriteSession
  <2>2. /\ p.session \in DOMAIN session /\ row.status = "OPEN" /\ p.sess = Changed(p, row)
        /\ DOMAIN session' = DOMAIN session /\ Len(session') = Len(session)
        /\ \A s \in DOMAIN session : session'[s] = IF s = p.session THEN p.sess ELSE session[s]
    BY <1>5, RowWritten
  <2>3. p.op \in {"sale", "movement", "close"} /\ (p.op = "sale" => p.method = "CASH")
        /\ p.session # 0
    BY <1>0, <2>1 DEF Holding, HoldsOp, HoldsCustomer, HoldsSession, AtSession
  <2>4. base.op = p.op /\ base.session = p.session /\ base.amount = p.amount
        /\ base.method = p.method /\ DOMAIN base = DOMAIN p
        /\ {"op", "pc", "session", "amount", "method"} \subseteq DOMAIN p
    BY <1>0 DEF Request
  <2> HIDE DEF base
  <2>5. IF p.op = "close" THEN q = Idle
        ELSE q.pc = (IF p.op = "sale" THEN "audit" ELSE "move") /\ q.op = p.op
             /\ q.session = p.session /\ q.amount = p.amount /\ q.method = p.method
    <3>1. CASE p.op = "sale"
      BY <2>4, <3>1 DEF AfterSession
    <3>2. CASE p.op = "movement"
      BY <2>4, <3>2 DEF AfterSession
    <3>3. CASE p.op = "close"
      BY <2>4, <3>3 DEF AfterSession
    <3> QED
      BY <2>3, <3>1, <3>2, <3>3
  <2> HIDE DEF q
  <2>6. \A s : Drawn(q, s) = IF p.op # "close" /\ s = p.session THEN p.amount ELSE 0
    BY <2>3, <2>5, IdleRow DEF Drawn, Owing
  <2>7. ~Owing(p) /\ (Owing(q) => p.op # "close" /\ q.session = p.session)
    BY <2>1, <2>5, IdleRow DEF Owing
  <2>8. row \in SessionRow /\ row.expected \in Int
    BY <2>2, RowsTyped DEF SessionRow
  <2>9. /\ p.sess.opening = row.opening
        /\ p.op = "close" => p.sess.expected = row.expected /\ ClosedRight(p.sess)
        /\ p.op # "close" => p.sess.expected = row.expected + p.amount /\ p.sess.status = "OPEN"
    <3>1. CASE p.op = "close"
      <4>1. p.sess = [row EXCEPT !.counted = p.sess.counted, !.status = "CLOSED",
                                 !.difference = p.sess.counted - row.expected]
        BY <2>2, <3>1 DEF Changed
      <4> HIDE DEF row
      <4> QED
        BY <2>8, <3>1, <4>1 DEF SessionRow, ClosedRight
    <3>2. CASE p.op # "close"
      <4>1. p.sess = [row EXCEPT !.expected = @ + p.amount]
        BY <2>2, <3>2 DEF Changed
      <4> HIDE DEF row
      <4> QED
        BY <2>2, <2>8, <3>2, <4>1 DEF SessionRow
    <3> QED
      BY <3>1, <3>2
  <2>10. ASSUME NEW s \in DOMAIN session
         PROVE  /\ Missing(s)' = Drawn(q, s) /\ ClosedRight(session'[s])
                /\ Owing(q) /\ q.session = s => session'[s].status = "OPEN"
    <3>1. Missing(s) = 0 /\ ClosedRight(session[s])
      BY <1>1, <2>7, MissingNow DEF Drawn
    <3>2. Missing(s)' = session'[s].expected - (session'[s].opening + DrawnFrom(s) + SoldTo(s))
      BY <2>1, SumsUnwritten DEF Missing
    <3>3. Missing(s) = session[s].expected - (session[s].opening + DrawnFrom(s) + SoldTo(s))
          /\ session[s].expected \in Int /\ session[s].opening \in Int
          /\ DrawnFrom(s) \in Int /\ SoldTo(s) \in Int
      BY MissingType DEF Missing
    <3>4. CASE s # p.session
      BY <2>2, <2>6, <2>7, <3>1, <3>2, <3>3, <3>4
    <3>5. CASE s = p.session /\ p.op = "close"
      <4>1. session'[s] = p.sess /\ session[s] = row
        BY <2>2, <3>5
      <4>2. Missing(s)' = Missing(s)
        BY <2>9, <3>2, <3>3, <3>5, <4>1
      <4> QED
        BY <2>6, <2>7, <2>9, <3>1, <3>5, <4>1, <4>2
    <3>6. CASE s = p.session /\ p.op # "close"
      <4>1. session'[s] = p.sess /\ session[s] = row
        BY <2>2, <3>6
      <4>2. session'[s].expected = session[s].expected + p.amount
            /\ session'[s].opening = session[s].opening /\ session'[s].status = "OPEN"
        BY <2>9, <3>6, <4>1
      <4>3. Missing(s)' = p.amount
        BY ONLY <1>0, <3>1, <3>2, <3>3, <4>2, SMTT(40)
      <4> QED
        BY <2>6, <3>6, <4>2, <4>3 DEF ClosedRight
    <3> QED
      BY <3>4, <3>5, <3>6
  <2>11. req'[r] = q
    BY <2>1 DEF Goto, TypeInv, RequestsHold
  <2>12. Explained'
    <3>1. \A s \in DOMAIN session' :
            /\ Missing(s)' = Drawn(q, s) /\ ClosedRight(session'[s])
            /\ Owing(q) /\ q.session = s => session'[s].status = "OPEN"
      BY <2>2, <2>10
    <3> QED
      BY <1>1, <2>11, <3>1, ExplainedNext
  <2>13. RefsOK'
    BY <2>1, <2>2 DEF RefsOK
  <2>14. HoldsRow(q)'
    BY <2>3, <2>5, IdleRow DEF HoldsRow, AtSession
  <2> QED
    BY <1>1, <2>11, <2>12, <2>13, <2>14, IdleRow
<1> QED
  BY <1>3, <1>4, <1>5

\* The statements that insert a session, a movement or a sale.
LEMMA InsertStepDrawer ==
    ASSUME TypeInv, IdsInv, RefsOK, Explained, OneAtATime, NEW r \in Requests,
           HoldsRow(req[r]), Run(r), InsertSession(r) \/ InsertMovement(r) \/ Commit(r)
    PROVE  Explained' /\ RefsOK' /\ \A s \in Requests : HoldsRow(req[s])'
<1> PICK p : p = req[r]
  OBVIOUS
<1>0. p \in Request /\ Holding(p, Len(session)) /\ HoldsRow(p) /\ p.amount \in Int
      /\ session \in Seq(SessionRow) /\ Len(session) \in Nat /\ DOMAIN session = 1..Len(session)
  BY RowsTyped DEF Request, TypeInv, TablesOK
<1>1. \A s \in Requests \ {r} : req[s] = Idle /\ req'[s] = Idle
  BY OthersIdle
<1>2. req'[r] = Idle
  BY DEF InsertSession, InsertMovement, Commit, Goto, TypeInv, RequestsHold
<1>3. \A s \in Requests : HoldsRow(req[s])'
  BY <1>1, <1>2, IdleRow
<1>4. ASSUME \A s \in DOMAIN session' : Missing(s)' = 0 /\ ClosedRight(session'[s])
      PROVE  Explained'
  BY <1>1, <1>2, <1>4, IdleRow, ExplainedNext
<1>5. \A s \in DOMAIN session : Missing(s) = Drawn(p, s) /\ ClosedRight(session[s])
  BY <1>1, MissingNow
<1>6. CASE InsertSession(r)
  <2> PICK n : n = Len(session) + 1
    OBVIOUS
  <2>1. p.pc = "insertSession" /\ session' = Append(session, p.sess)
        /\ drawer' = drawer /\ sales' = sales
    BY <1>6 DEF InsertSession
  <2>2. p.sess \in SessionRow /\ p.sess.expected = p.sess.opening /\ p.sess.status = "OPEN"
    BY <1>0, <2>1 DEF HoldsRow, Request
  <2>3. /\ DOMAIN session' = DOMAIN session \cup {n} /\ n \notin DOMAIN session
        /\ session'[n] = p.sess /\ \A s \in DOMAIN session : session'[s] = session[s]
        /\ Len(session') = Len(session) + 1
    BY <1>0, <2>1, <2>2
  <2>4. RefsOK'
    <3>1. \A k \in DOMAIN drawer' : drawer'[k].session \in DOMAIN session'
      BY <2>1, <2>3 DEF RefsOK
    <3>2. \A x \in sales' : x.session \in 0..Len(session')
      BY <1>0, <2>1, <2>3 DEF RefsOK
    <3> QED
      BY <2>1, <3>1, <3>2 DEF RefsOK
  <2>5. ASSUME NEW s \in DOMAIN session
        PROVE  Missing(s)' = 0 /\ ClosedRight(session'[s])
    <3>1. Missing(s)' = Missing(s)
      BY <2>1, <2>3, SumsUnwritten DEF Missing
    <3>2. Drawn(p, s) = 0
      BY <2>1 DEF Drawn, Owing
    <3> QED
      BY <1>5, <2>3, <3>1, <3>2
  <2>6. Missing(n)' = 0 /\ ClosedRight(session'[n])
    <3>1. DrawnFrom(n) = 0 /\ SoldTo(n) = 0
      <4>1. \A k \in DOMAIN drawer : drawer[k].session # n
        BY <2>3 DEF RefsOK
      <4>2. \A x \in sales : x.session # n
        BY <1>0 DEF RefsOK
      <4> QED
        BY <4>1, <4>2, SumsEmpty
    <3>2. DrawnFrom(n)' = 0 /\ SoldTo(n)' = 0
      BY <2>1, <3>1, SumsUnwritten
    <3>3. Missing(n)' = session'[n].expected - (session'[n].opening + DrawnFrom(n)' + SoldTo(n)')
      BY DEF Missing
    <3>4. session'[n].expected = session'[n].opening /\ session'[n].opening \in Int
      BY <2>2, <2>3 DEF SessionRow
    <3>5. Missing(n)' = 0
      BY <3>2, <3>3, <3>4
    <3> QED
      BY <2>2, <2>3, <3>5 DEF ClosedRight
  <2> QED
    BY <1>3, <1>4, <2>3, <2>4, <2>5, <2>6
<1>7. CASE InsertMovement(r)
  <2> DEFINE m == [session |-> p.session, amount |-> p.amount]
  <2>1. p.pc = "move" /\ drawer' = Append(drawer, m) /\ session' = session /\ sales' = sales
    BY <1>7 DEF InsertMovement
  <2>2. p.session \in DOMAIN session
    BY <1>0, <2>1 DEF Holding, HoldsSession
  <2>3. m \in CashMovementRow
    BY <1>0, <2>2 DEF CashMovementRow
  <2>4. \A s : DrawnFrom(s)' = DrawnFrom(s) + (IF p.session = s THEN p.amount ELSE 0)
    <3>1. m.session = p.session /\ m.amount = p.amount
      OBVIOUS
    <3> HIDE DEF m
    <3> QED
      BY <2>1, <2>3, <3>1, MovementAppended
  <2>5. ASSUME NEW s \in DOMAIN session
        PROVE  Missing(s)' = 0
    <3>1. Missing(s) = IF p.session = s THEN p.amount ELSE 0
      BY <1>5, <2>1 DEF Drawn, Owing
    <3>2. Missing(s)' = session[s].expected - (session[s].opening + DrawnFrom(s)' + SoldTo(s))
      BY <2>1, SumsUnwritten DEF Missing
    <3>3. Missing(s) = session[s].expected - (session[s].opening + DrawnFrom(s) + SoldTo(s))
          /\ session[s].expected \in Int /\ session[s].opening \in Int
          /\ DrawnFrom(s) \in Int /\ SoldTo(s) \in Int
      BY MissingType DEF Missing
    <3>4. DrawnFrom(s)' = DrawnFrom(s) + (IF p.session = s THEN p.amount ELSE 0)
          /\ p.amount \in Int
      BY <1>0, <2>4
    <3>5. DrawnFrom(s)' = DrawnFrom(s) + Missing(s)
      BY ONLY <3>1, <3>4
    <3> QED
      BY ONLY <3>2, <3>3, <3>5
  <2>6. RefsOK'
    <3>1. drawer \in Seq(CashMovementRow)
      BY DEF TypeInv, TablesOK
    <3>2. \A k \in DOMAIN drawer' : drawer'[k].session \in DOMAIN session'
      BY <2>1, <2>2, <3>1 DEF RefsOK
    <3> QED
      BY <2>1, <3>2 DEF RefsOK
  <2> QED
    BY <1>3, <1>4, <1>5, <2>1, <2>5, <2>6
<1>8. CASE Commit(r)
  <2> DEFINE y == [id |-> p.id, method |-> p.method, customer |-> p.customer,
                   session |-> p.session, basket |-> p.basket, total |-> p.amount,
                   tax |-> Receipt(p.basket).tax]
  <2>1. p.pc = "commit" /\ sales' = sales \cup {y} /\ session' = session /\ drawer' = drawer
    BY <1>8 DEF Commit
  <2>2. y.id = p.id /\ y.method = p.method /\ y.session = p.session /\ y.total = p.amount
    OBVIOUS
  <2> HIDE DEF y
  <2>3. y \notin sales
    BY <2>2 DEF IdsInv
  <2>4. y \in SaleRow
    <3>1. TypeInv'
      BY NextTypes DEF Next
    <3> QED
      BY <2>1, <3>1 DEF TypeInv, TablesOK
  <2>5. \A s : SoldTo(s)' = SoldTo(s)
                 + (IF p.method = "CASH" /\ p.session = s THEN p.amount ELSE 0)
    BY <2>1, <2>2, <2>3, <2>4, SaleAppended
  <2>6. p.op = "sale"
    BY <1>0, <2>1 DEF Holding, HoldsOp, Selling
  <2>7. ASSUME NEW s \in DOMAIN session
        PROVE  Missing(s)' = 0
    <3>1. Missing(s) = IF p.method = "CASH" /\ p.session = s THEN p.amount ELSE 0
      BY <1>5, <2>1, <2>6 DEF Drawn, Owing
    <3>2. Missing(s)' = session[s].expected - (session[s].opening + DrawnFrom(s) + SoldTo(s)')
      BY <2>1, SumsUnwritten DEF Missing
    <3>3. Missing(s) = session[s].expected - (session[s].opening + DrawnFrom(s) + SoldTo(s))
          /\ session[s].expected \in Int /\ session[s].opening \in Int
          /\ DrawnFrom(s) \in Int /\ SoldTo(s) \in Int
      BY MissingType DEF Missing
    <3>4. SoldTo(s)' = SoldTo(s) + (IF p.method = "CASH" /\ p.session = s THEN p.amount ELSE 0)
      BY <2>5
    <3> QED
      BY ONLY <1>0, <3>1, <3>2, <3>3, <3>4
  <2>8. RefsOK'
    <3>1. IsFiniteSet(sales')
      BY <2>1, FS_AddElement DEF RefsOK
    <3>2. p.session \in 0..Len(session)
      BY <1>0 DEF Holding, HoldsSession
    <3> QED
      BY <2>1, <2>2, <3>1, <3>2 DEF RefsOK
  <2> QED
    BY <1>3, <1>4, <1>5, <2>1, <2>7, <2>8
<1> QED
  BY <1>6, <1>7, <1>8

\* Every statement of the only request.
LEMMA RunDrawer ==
    ASSUME TypeInv, IdsInv, RefsOK, Explained, OneAtATime, NEW r \in Requests,
           HoldsRow(req[r]), Run(r)
    PROVE  Explained' /\ RefsOK' /\ \A s \in Requests : HoldsRow(req[s])'
<1> PICK p : p = req[r]
  OBVIOUS
<1>0. p \in Request /\ Holding(p, Len(session))
      /\ \A s \in DOMAIN session : s # 0
  BY RowsTyped
<1>1. \A s \in Requests \ {r} : req[s] = Idle /\ req'[s] = Idle
  BY OthersIdle
<1>2. PICK q : req' = [req EXCEPT ![r] = q] /\ GoesTo(p, q)
  BY RunFlows
<1>3. req'[r] = q
  BY <1>2 DEF TypeInv, RequestsHold
<1>4. ASSUME session' = session, drawer' = drawer, sales' = sales,
             p.pc \notin {"session", "selectSession"}, Owing(q) => q.amount = p.amount,
             \A s \in DOMAIN session : (Owing(p) /\ p.session = s) <=> (Owing(q) /\ q.session = s)
      PROVE  Explained' /\ RefsOK' /\ \A s \in Requests : HoldsRow(req[s])'
  <2>1. Explained' /\ RefsOK'
    BY <1>1, <1>3, <1>4, DrawerUnwritten
  <2>2. q.pc \notin AtSession \cup {"insertSession"}
    BY <1>2, <1>4, IdleTyped DEF GoesTo, Flow, AtSession
  <2>3. HoldsRow(q)'
    BY <2>2 DEF HoldsRow, AtSession
  <2> QED
    BY <1>1, <1>3, <2>1, <2>3, IdleRow
<1>5. CASE LoadSession(r) \/ SelectSession(r) \/ WriteSession(r)
  BY <1>5, SessionStepDrawer
<1>6. CASE InsertSession(r) \/ InsertMovement(r) \/ Commit(r)
  BY <1>6, InsertStepDrawer
<1>7. CASE LogAudit(r)
  <2>1. p.pc = "audit" /\ session' = session /\ drawer' = drawer /\ sales' = sales
        /\ Goto(r, [p EXCEPT !.pc = "commit"])
    BY <1>7 DEF LogAudit
  <2>2. q = [p EXCEPT !.pc = "commit"]
    BY <1>3, <2>1 DEF Goto, TypeInv, RequestsHold
  <2>3. q.pc = "commit" /\ q.op = p.op /\ q.method = p.method /\ q.session = p.session
        /\ q.amount = p.amount
    BY <1>0, <2>2 DEF Request
  <2> QED
    BY <1>4, <2>1, <2>3 DEF Owing
<1>8. CASE DeadlockVictim(r)
  <2>1. p.pc = "take" /\ UNCHANGED db /\ Goto(r, Idle)
    BY <1>8 DEF DeadlockVictim, WaitsFor, Throw
  <2>2. q = Idle /\ session' = session /\ drawer' = drawer /\ sales' = sales
    BY <1>3, <2>1 DEF Goto, TypeInv, RequestsHold, db
  <2>3. ~Owing(p) /\ ~Owing(q)
    BY <2>1, <2>2, IdleRow DEF Owing
  <2> QED
    BY <1>4, <2>1, <2>2, <2>3
<1>9. CASE TakeUnits(r)
  <2> DEFINE y == ItemOf(p).product
             rest == p.units - ItemOf(p).qty
             took == [p EXCEPT !.wrote = @ \cup {y}, !.left[y] = rest]
             more == [took EXCEPT !.pc = "read", !.item = @ + 1]
             last == AfterItems(took)
  <2>1. p.pc = "take" /\ UNCHANGED db /\ Goto(r, IF p.item < Len(p.basket) THEN more ELSE last)
    BY <1>9 DEF TakeUnits
  <2> HIDE DEF y, rest
  <2>2. /\ took.op = p.op /\ took.method = p.method /\ took.session = p.session
        /\ DOMAIN took = DOMAIN p /\ {"op", "pc", "method", "session"} \subseteq DOMAIN p
    BY <1>0 DEF Request
  <2> HIDE DEF took
  <2>3. more.pc = "read"
    BY <2>2
  <2>4. last.session = p.session /\ last.op = p.op /\ last.method = p.method
        /\ (last.pc = "audit" /\ p.method = "CASH" => p.session = 0) /\ last.pc # "move"
        /\ last.pc # "commit"
    BY <2>2 DEF AfterItems
  <2>5. q = more \/ q = last
    BY <1>3, <2>1 DEF Goto, TypeInv, RequestsHold
  <2> HIDE DEF more, last
  <2>6. ~Owing(p) /\ (Owing(q) => q.session = 0)
    BY <2>1, <2>3, <2>4, <2>5 DEF Owing
  <2>7. session' = session /\ drawer' = drawer /\ sales' = sales
    BY <2>1 DEF db
  <2>8. Owing(q) => q.amount = p.amount
    BY <1>2, IdleRow DEF GoesTo, SameCall
  <2> QED
    BY <1>0, <1>4, <2>1, <2>6, <2>7, <2>8
<1>10. CASE \/ OpenTransaction(r) \/ CheckStock(r) \/ ReadBatch(r) \/ LoadCustomer(r)
            \/ SelectCustomer(r) \/ WriteCustomer(r) \/ InsertEntry(r)
  <2>1. /\ session' = session /\ drawer' = drawer /\ sales' = sales
        /\ p.pc \in {"begin", "check", "read", "customer", "selectCustomer", "writeCustomer",
                     "entry"}
    BY <1>10 DEF OpenTransaction, CheckStock, ReadBatch, LoadCustomer, SelectCustomer,
                 WriteCustomer, InsertEntry, Throw, db
  <2>2. p.pc = "entry" => p.op = "payment" \/ p.method = "CREDIT"
    BY <1>0 DEF Holding, HoldsOp, HoldsCustomer
  <2>3. ~Owing(p) /\ ~Owing(q)
    BY <1>2, <2>1, <2>2, IdleRow DEF GoesTo, SameCall, Flow, Owing
  <2> QED
    BY <1>4, <2>1, <2>3
<1> QED
  BY <1>5, <1>6, <1>7, <1>8, <1>9, <1>10 DEF Run

\* What each step keeps, as long as nothing overlaps and nobody dies.
LEMMA NextDrawer ==
    ASSUME TypeInv, IdsInv, SerialInv, DrawerInv, [Next]_vars
    PROVE  DrawerInv'
<1> SUFFICES ASSUME Clean'
             PROVE  Explained' /\ RefsOK' /\ \A s \in Requests : HoldsRow(req[s])'
  BY DEF DrawerInv
<1>1. Serial /\ OneAtATime /\ OneAtATime'
  BY NextSerial DEF Clean
<1>2. ASSUME used'.faults = used.faults
      PROVE  RefsOK /\ Explained /\ \A s \in Requests : HoldsRow(req[s])
  BY <1>1, <1>2 DEF Clean, DrawerInv
<1>3. CASE UNCHANGED vars
  <2>1. session' = session /\ drawer' = drawer /\ sales' = sales /\ req' = req /\ used' = used
    BY <1>3 DEF vars
  <2>2. \A s : DrawnFrom(s)' = DrawnFrom(s) /\ SoldTo(s)' = SoldTo(s)
    BY <2>1, SumsUnwritten
  <2>3. \A s : Missing(s)' = Missing(s) /\ OwingTo(s)' = OwingTo(s)
    BY <2>1, <2>2 DEF Missing, OwingTo
  <2>4. RefsOK /\ Explained /\ \A s \in Requests : HoldsRow(req[s])
    BY <1>2, <2>1
  <2>5. Explained'
    BY <2>1, <2>3, <2>4 DEF Explained, ClosedRight
  <2>6. RefsOK' /\ \A s \in Requests : HoldsRow(req[s])'
    BY <2>1, <2>4 DEF RefsOK, HoldsRow, Changed
  <2> QED
    BY <2>5, <2>6
<1>4. ASSUME NEW r \in Requests, Begin(r)
      PROVE  Explained' /\ RefsOK' /\ \A s \in Requests : HoldsRow(req[s])'
  <2>1. PICK q : Call(r, q)
    BY <1>4, Zenon
    DEF Begin, SalesController, CustomersController, CashController, BeginSale, BeginPayment,
        BeginEdit, BeginOpen, BeginClose, BeginMovement
  <2>2. used'.faults = used.faults
    BY <2>1 DEF Call, TypeInv, UsedOK
  <2> QED
    BY <1>1, <1>2, <1>4, <2>2, BeginDrawer
<1>5. ASSUME NEW r \in Requests, Run(r)
      PROVE  Explained' /\ RefsOK' /\ \A s \in Requests : HoldsRow(req[s])'
  <2>1. used'.faults = used.faults
    BY <1>5, RunFlows
  <2> QED
    BY <1>1, <1>2, <1>5, <2>1, RunDrawer
<1>6. ASSUME NEW r \in Requests, Die(r)
      PROVE  FALSE
  <2>1. used'.faults = used.faults + 1 /\ used.faults \in Nat
    BY <1>6, GapType DEF Die, TypeInv, UsedOK
  <2> QED
    BY <2>1 DEF Clean
<1> QED
  BY <1>3, <1>4, <1>5, <1>6 DEF Next

\* The first session is open and its drawer empty.
LEMMA InitDrawer ==
    ASSUME Init, TypeInv
    PROVE  DrawerInv
<1>1. /\ \A r \in Requests : req[r] = Idle
      /\ session = << NoSession(AnyCashier) >> /\ drawer = <<>> /\ sales = {}
  BY DEF Init
<1>2. RefsOK
  BY <1>1, FS_EmptySet DEF RefsOK
<1>3. ASSUME NEW s \in DOMAIN session
      PROVE  Missing(s) = 0 /\ OwingTo(s) = {} /\ ClosedRight(session[s])
  <2>1. DrawnFrom(s) = 0 /\ SoldTo(s) = 0
    <3>1. (\A k \in DOMAIN drawer : drawer[k].session # s) /\ \A x \in sales : x.session # s
      BY <1>1
    <3> QED
      BY <3>1, SumsEmpty
  <2>2. session[s].expected = 0 /\ session[s].opening = 0 /\ session[s].status = "OPEN"
    BY <1>1 DEF NoSession
  <2>3. Missing(s) = 0
    BY <2>1, <2>2 DEF Missing
  <2> QED
    BY <1>1, <2>2, <2>3, IdleRow DEF OwingTo, ClosedRight
<1> QED
  BY <1>1, <1>2, <1>3, IdleRow DEF DrawerInv, Explained

\* When requests do not overlap and none dies, a session expects its opening amount, its
\* movements and its cash sales, and a closed one keeps the difference to what was counted.
THEOREM DrawerHolds == Spec => []DrawerMatches
<1>1. Init => TypeInv /\ SerialInv /\ DrawerInv
  BY InitTypes, InitSerial, InitDrawer
<1>2. TypeInv /\ DrawerInv => DrawerMatches
  <2> SUFFICES ASSUME TypeInv, DrawerInv, Clean, Quiet, NEW s \in DOMAIN session
               PROVE  /\ session[s].expected = session[s].opening
                           + MapThenSumSet(LAMBDA k : drawer[k].amount,
                                           {k \in DOMAIN drawer : drawer[k].session = s})
                           + MapThenSumSet(LAMBDA x : x.total, CashSales(s))
                      /\ session[s].status = "CLOSED" =>
                           session[s].difference = session[s].counted - session[s].expected
    BY DEF DrawerMatches
  <2>1. OwingTo(s) = {}
    BY IdleRow DEF Quiet, Running, OwingTo
  <2>2. Missing(s) = 0 /\ ClosedRight(session[s]) /\ RefsOK
    BY <2>1 DEF DrawerInv, Explained
  <2>3. Missing(s) = session[s].expected - (session[s].opening + DrawnFrom(s) + SoldTo(s))
        /\ session[s].expected \in Int /\ session[s].opening \in Int
        /\ DrawnFrom(s) \in Int /\ SoldTo(s) \in Int
    BY <2>2, MissingType DEF Missing
  <2>4. session[s].expected = session[s].opening + DrawnFrom(s) + SoldTo(s)
    BY ONLY <2>2, <2>3
  <2>5. DrawnFrom(s) = MapThenSumSet(LAMBDA k : drawer[k].amount,
                                     {k \in DOMAIN drawer : drawer[k].session = s})
        /\ SoldTo(s) = MapThenSumSet(LAMBDA x : x.total, CashSales(s))
    BY DEF DrawnFrom, SoldTo, AmountsOf, TotalsOf
  <2> QED
    BY <2>2, <2>4, <2>5 DEF ClosedRight
<1>3. BookedInv => IdsInv
  BY DEF BookedInv
<1> QED
  BY <1>1, <1>2, <1>3, BookedAlways, NextSerial, NextDrawer, PTL DEF Spec, SerialInv

-----------------------------------------------------------------------------
(* The arithmetic of the receipts *)

\* Half is rounded up: RoundDiv(a, b) is within half of b of a.
LEMMA RoundDivNear ==
    ASSUME NEW a \in Int, NEW b \in Nat \ {0}
    PROVE  /\ RoundDiv(a, b) \in Int /\ b * RoundDiv(a, b) \in Int
           /\ 2 * (b * RoundDiv(a, b)) <= 2 * a + b
           /\ 2 * a + b < 2 * (b * RoundDiv(a, b)) + 2 * b
<1> DEFINE n == 2 * a + b
           d == 2 * b
           k == n \div d
<1>1. n \in Int /\ d \in Nat \ {0}
  OBVIOUS
<1>2. k \in Int /\ d * k <= n /\ n < d * k + d
  <2> HIDE DEF n, d
  <2> QED
    BY <1>1
<1>3. RoundDiv(a, b) = k
  BY DEF RoundDiv
<1> HIDE DEF k
<1>4. b * k \in Int /\ d * k = 2 * (b * k)
  BY <1>2
<1> QED
  BY <1>2, <1>3, <1>4

\* What is common to both sides of a comparison.
LEMMA Cancels ==
    ASSUME NEW b \in Nat \ {0}, NEW x \in Int, NEW y \in Int, b * x < b * (y + 1)
    PROVE  x <= y
<1> SUFFICES ASSUME y + 1 <= x
             PROVE  FALSE
  OBVIOUS
<1>1. PICK k \in Nat : x = (y + 1) + k
  <2>1. x - (y + 1) \in Nat /\ x = (y + 1) + (x - (y + 1))
    OBVIOUS
  <2> QED
    BY <2>1
<1>2. b * x = b * (y + 1) + b * k /\ b * k >= 0
  BY <1>1
<1>3. b * x \in Int /\ b * (y + 1) \in Int
  OBVIOUS
<1> QED
  BY <1>2, <1>3

\* Rounding does not go beyond a whole number that is above.
LEMMA RoundDivBelow ==
    ASSUME NEW a \in Int, NEW b \in Nat \ {0}, NEW k \in Int, a <= b * k
    PROVE  RoundDiv(a, b) <= k
<1> PICK q : q = RoundDiv(a, b)
  OBVIOUS
<1>1. q \in Int /\ b * q \in Int /\ 2 * (b * q) <= 2 * a + b
  BY RoundDivNear
<1>2. b * (k + 1) = b * k + b /\ b * k \in Int
  OBVIOUS
<1>3. b * q < b * (k + 1)
  BY <1>1, <1>2
<1> QED
  BY <1>1, <1>3, Cancels

\* Nor beneath one that is below.
LEMMA RoundDivAbove ==
    ASSUME NEW a \in Int, NEW b \in Nat \ {0}, NEW k \in Int, b * k <= a
    PROVE  k <= RoundDiv(a, b)
<1> PICK q : q = RoundDiv(a, b)
  OBVIOUS
<1>1. q \in Int /\ b * q \in Int /\ 2 * a + b < 2 * (b * q) + 2 * b
  BY RoundDivNear
<1>2. b * (q + 1) = b * q + b /\ b * k \in Int
  BY <1>1
<1>3. b * k < b * (q + 1)
  BY <1>1, <1>2
<1> QED
  BY <1>1, <1>3, Cancels

\* Tax on top of a price in whole pesos: the unit price is rounded to whole pesos.
LEMMA ExcludedTax ==
    ASSUME NEW pesos \in Nat, NEW rate \in Nat, NEW qty \in Nat
    PROVE  LET unit == RoundDiv((100 * pesos) * (100 + rate), 10000) * 100
               tax == unit * qty - (100 * pesos) * qty
           IN  /\ unit \in Nat /\ tax \in Nat /\ tax <= unit * qty
               /\ -(5000 * qty) <= 100 * tax - rate * (unit * qty - tax)
               /\ 100 * tax - rate * (unit * qty - tax) <= 5000 * qty
<1> DEFINE price == 100 * pesos
           a == price * (100 + rate)
           k == RoundDiv(a, 10000)
           unit == k * 100
<1>1. price \in Nat /\ a \in Int /\ 10000 * pesos <= a
  <2>1. a = 10000 * pesos + price * rate /\ price * rate >= 0 /\ price * rate \in Int
    OBVIOUS
  <2> QED
    BY <2>1
<1>2. /\ k \in Int /\ 2 * (10000 * k) <= 2 * a + 10000
      /\ 2 * a + 10000 < 2 * (10000 * k) + 20000 /\ pesos <= k
  <2> HIDE DEF a, price
  <2>1. 10000 \in Nat \ {0} /\ a \in Int /\ pesos \in Int
    BY <1>1
  <2>2. /\ k \in Int /\ 2 * (10000 * k) <= 2 * a + 10000
        /\ 2 * a + 10000 < 2 * (10000 * k) + 2 * 10000
    BY <2>1, RoundDivNear
  <2>3. pesos <= k
    BY <1>1, <2>1, RoundDivAbove
  <2> QED
    BY <2>2, <2>3
<1> HIDE DEF k
<1>3. unit \in Nat /\ price <= unit /\ -5000 <= 100 * unit - a /\ 100 * unit - a <= 5000
  BY <1>1, <1>2
<1>4. PICK e : e = 100 * unit - a
  OBVIOUS
<1>5. e \in Int /\ -5000 <= e /\ e <= 5000
  BY <1>1, <1>3, <1>4
<1>6. unit * qty \in Nat /\ price * qty \in Nat /\ a * qty \in Int /\ price * qty <= unit * qty
  <2>1. PICK more \in Nat : unit = price + more
    <3>1. unit - price \in Nat /\ unit = price + (unit - price)
      BY <1>1, <1>3
    <3> QED
      BY <3>1
  <2>2. unit * qty = price * qty + more * qty /\ more * qty \in Nat /\ price * qty \in Nat
    BY <1>1, <2>1
  <2> QED
    BY <1>1, <1>3, <2>2
<1>7. a * qty = 100 * (price * qty) + rate * (price * qty) /\ rate * (price * qty) \in Int
  BY <1>1
<1>8. e * qty = 100 * (unit * qty) - a * qty
  BY <1>1, <1>3, <1>4
<1>9. e * qty <= 5000 * qty /\ -(5000 * qty) <= e * qty /\ e * qty \in Int
  <2>1. (5000 - e) * qty >= 0 /\ (5000 + e) * qty >= 0
    <3>1. 5000 - e \in Nat /\ 5000 + e \in Nat
      BY <1>5
    <3> QED
      BY <3>1
  <2>2. (5000 - e) * qty = 5000 * qty - e * qty /\ (5000 + e) * qty = 5000 * qty + e * qty
    BY <1>5
  <2>3. e * qty \in Int
    BY <1>5
  <2> QED
    BY <2>1, <2>2, <2>3
<1> DEFINE tax == unit * qty - price * qty
<1>10. tax \in Nat /\ tax <= unit * qty /\ unit * qty - tax = price * qty
  BY <1>6
<1>11. 100 * tax - rate * (unit * qty - tax) = e * qty
  <2>1. rate * (unit * qty - tax) = rate * (price * qty)
    BY <1>10
  <2>2. 100 * tax = 100 * (unit * qty) - 100 * (price * qty)
    BY <1>6
  <2> QED
    BY <1>6, <1>7, <1>8, <1>9, <2>1, <2>2
<1> QED
  BY <1>3, <1>9, <1>10, <1>11 DEF k

\* Tax that a price includes is its share of it, to within half a cent.
LEMMA IncludedTax ==
    ASSUME NEW total \in Nat, NEW rate \in Nat
    PROVE  LET tax == RoundDiv(total * rate, 100 + rate)
           IN  /\ tax \in Nat /\ tax <= total
               /\ -((100 + rate) \div 2) <= 100 * tax - rate * (total - tax)
               /\ 100 * tax - rate * (total - tax) <= (100 + rate) \div 2
<1> DEFINE a == total * rate
           b == 100 + rate
           tax == RoundDiv(a, b)
<1>1. a \in Int /\ 0 <= a /\ b \in Nat \ {0} /\ b * total = 100 * total + a
  OBVIOUS
<1>2. tax \in Int /\ b * tax \in Int /\ 2 * (b * tax) <= 2 * a + b /\ 2 * a + b < 2 * (b * tax) + 2 * b
  <2> HIDE DEF a, b
  <2> QED
    BY <1>1, RoundDivNear
<1>3. 0 <= tax /\ tax <= total
  <2>1. b * 0 <= a /\ a <= b * total
    BY <1>1
  <2> HIDE DEF a, b
  <2>2. 0 <= RoundDiv(a, b)
    BY <1>1, <2>1, RoundDivAbove
  <2>3. RoundDiv(a, b) <= total
    BY <1>1, <2>1, RoundDivBelow
  <2> QED
    BY <2>2, <2>3
<1> HIDE DEF tax
<1>4. 100 * tax - rate * (total - tax) = b * tax - a
  <2>1. rate * (total - tax) = total * rate - rate * tax /\ rate * tax \in Int
    BY <1>2
  <2>2. b * tax = 100 * tax + rate * tax
    BY <1>2
  <2> QED
    BY <1>1, <1>2, <2>1, <2>2
<1>5. PICK off : off = b * tax - a
  OBVIOUS
<1>6. off \in Int /\ 2 * off <= b /\ -b <= 2 * off
  <2> HIDE DEF a, b
  <2> QED
    BY <1>1, <1>2, <1>5
<1>7. off <= b \div 2 /\ -(b \div 2) <= off
  <2> HIDE DEF b
  <2> QED
    BY <1>1, <1>6
<1> QED
  BY <1>2, <1>3, <1>4, <1>5, <1>7 DEF tax

\* The share of the tax that is left after a discount is between nothing and the total.
LEMMA DiscountedTax ==
    ASSUME NEW gross \in Nat \ {0}, NEW tax \in Nat, tax <= gross, NEW total \in Nat
    PROVE  RoundDiv(tax * total, gross) \in Nat /\ RoundDiv(tax * total, gross) <= total
<1> DEFINE a == tax * total
<1>1. a \in Int /\ gross * 0 <= a
  OBVIOUS
<1>2. a <= gross * total
  <2>1. PICK more \in Nat : gross = tax + more
    <3>1. gross - tax \in Nat /\ gross = tax + (gross - tax)
      OBVIOUS
    <3> QED
      BY <3>1
  <2>2. gross * total = tax * total + more * total /\ more * total \in Nat
    BY <2>1
  <2> QED
    BY <1>1, <2>2
<1> HIDE DEF a
<1>3. RoundDiv(a, gross) \in Int
  BY <1>1, RoundDivNear
<1>4. 0 <= RoundDiv(a, gross)
  BY <1>1, RoundDivAbove
<1>5. RoundDiv(a, gross) <= total
  BY <1>1, <1>2, RoundDivBelow
<1> QED
  BY <1>3, <1>4, <1>5 DEF a

\* The total and the tax of one line, after a discount.
LEMMA LineDiscounted ==
    ASSUME NEW line, line.total \in Nat, line.tax \in Nat, line.tax <= line.total,
           NEW discount \in Int
    PROVE  LET doc == SummarizeTax(<<line>>, discount)
           IN  0 <= doc.tax /\ doc.tax <= doc.total
<1> DEFINE lines == <<line>>
           S == DOMAIN lines
           f == [i \in S |-> lines[i].total]
           g == [i \in S |-> lines[i].tax]
<1>1. S = {1} /\ IsFiniteSet(S) /\ lines[1] = line
  <2>1. S = {1}
    OBVIOUS
  <2> QED
    BY <2>1, FS_Singleton
<1>2. /\ MapThenSumSet(LAMBDA i : lines[i].total, S) = SumOf(f, S)
      /\ MapThenSumSet(LAMBDA i : lines[i].tax, S) = SumOf(g, S)
  <2> HIDE DEF S, lines
  <2> QED
    BY <1>1, TotalsAreSums
<1>3. SumOf(f, S) = line.total /\ SumOf(g, S) = line.tax
  <2>1. f[1] = line.total /\ g[1] = line.tax
    BY <1>1
  <2>2. S \ {1} = {} /\ 1 \in S /\ (\A y \in S : f[y] \in Int) /\ \A y \in S : g[y] \in Int
    BY <1>1, <2>1
  <2> HIDE DEF f, g, S
  <2>3. SumOf(f, S) = f[1] + SumOf(f, {}) /\ SumOf(g, S) = g[1] + SumOf(g, {})
    BY <1>1, <2>2, SumRemove
  <2> QED
    BY <2>1, <2>3, SumEmpty
<1> DEFINE gross == line.total
           tax == line.tax
           total == Max({0, gross - discount})
<1>4. SummarizeTax(lines, discount) =
        [total |-> total, tax |-> IF gross > 0 THEN RoundDiv(tax * total, gross) ELSE 0]
  BY <1>2, <1>3 DEF SummarizeTax
<1>5. total \in Nat
  <2> PICK left \in Int : left = gross - discount
    OBVIOUS
  <2> DEFINE Both == {0} \cup {left}
  <2>1. total = Max(Both)
    <3>1. {0, left} = {0} \cup {left}
      OBVIOUS
    <3> QED
      BY <3>1
  <2>2. IsFiniteSet(Both)
    <3>1. IsFiniteSet({0})
      BY FS_Singleton
    <3> QED
      BY ONLY <3>1, FS_AddElement
  <2>3. Both # {} /\ Both \subseteq Int /\ 0 \in Both
    OBVIOUS
  <2> HIDE DEF total, Both
  <2>4. Max(Both) \in Both /\ \A y \in Both : y <= Max(Both)
    BY ONLY <2>2, <2>3, MaxIsLargest
  <2>5. Max(Both) \in Int /\ 0 <= Max(Both)
    BY ONLY <2>3, <2>4
  <2> QED
    BY ONLY <2>1, <2>5
<1> HIDE DEF total
<1>6. gross > 0 => RoundDiv(tax * total, gross) \in Nat /\ RoundDiv(tax * total, gross) <= total
  BY <1>5, DiscountedTax
<1> QED
  BY <1>4, <1>5, <1>6

\* A line whose tax is its rate's share.
Taxed(line, qty, mode, rate) ==
    LET net == line.total - line.tax
        off == 100 * line.tax - rate * net
        slack == IF mode = "EXCLUDED" THEN 100 * 50 * qty ELSE (100 + rate) \div 2 + 1
    IN  /\ line.total \in Nat /\ line.tax \in Nat /\ line.tax <= line.total
        /\ line.total = line.unit * qty
        /\ mode = "NONE" => line.tax = 0
        /\ mode # "NONE" => -slack <= off /\ off <= slack

\* The tax of a line is its rate's share, for every price in whole pesos, every quantity and
\* every rate.
LEMMA LineIsTaxed ==
    ASSUME NEW pesos \in Nat, NEW qty \in Nat, NEW rate \in Nat, NEW mode \in TaxModes
    PROVE  Taxed(LineTax(100 * pesos, qty, mode, rate), qty, mode, rate)
<1> USE DEF Taxed
<1> DEFINE price == 100 * pesos
           line == LineTax(price, qty, mode, rate)
           unit == RoundDiv(price * (100 + rate), 10000) * 100
           share == RoundDiv(price * qty * rate, 100 + rate)
           half == (100 + rate) \div 2
<1>1. half \in Nat /\ 5000 * qty \in Nat /\ price * qty \in Nat /\ 100 * 50 * qty = 5000 * qty
  OBVIOUS
<1>2. LineTax(price, qty, mode, rate) =
        IF mode = "NONE" \/ rate <= 0 THEN [unit |-> price, total |-> price * qty, tax |-> 0]
        ELSE IF mode = "EXCLUDED"
             THEN [unit |-> unit, total |-> unit * qty, tax |-> unit * qty - price * qty]
             ELSE [unit |-> price, total |-> price * qty, tax |-> share]
  BY DEF LineTax, unit, share
<1>3. CASE mode = "NONE" \/ rate <= 0
  <2>1. line.unit = price /\ line.total = price * qty /\ line.tax = 0
    BY <1>2, <1>3
  <2>2. mode # "NONE" => 100 * line.tax - rate * (line.total - line.tax) = 0
    <3>1. mode # "NONE" => rate = 0
      BY <1>3
    <3>2. line.total - line.tax \in Int
      BY <1>1, <2>1
    <3> QED
      BY <2>1, <3>1, <3>2
  <2>3. mode = "NONE" \/ (mode # "NONE" /\ 100 * line.tax - rate * (line.total - line.tax) = 0)
    BY <2>2
  <2>4. -(100 * 50 * qty) <= 0 /\ 0 <= 100 * 50 * qty /\ -(half + 1) <= 0 /\ 0 <= half + 1
    BY <1>1
  <2>5. line.total \in Nat /\ line.tax \in Nat /\ line.tax <= line.total
    BY <1>1, <2>1
  <2> HIDE DEF line, half
  <2> QED
    BY <2>1, <2>3, <2>4, <2>5, ZenonT(40) DEF line, half
<1>4. CASE ~(mode = "NONE" \/ rate <= 0) /\ mode = "EXCLUDED"
  <2>1. line.unit = unit /\ line.total = unit * qty /\ line.tax = unit * qty - price * qty
    BY <1>2, <1>4
  <2>2. /\ unit \in Nat /\ line.tax \in Nat /\ line.tax <= unit * qty
        /\ -(5000 * qty) <= 100 * line.tax - rate * (unit * qty - line.tax)
        /\ 100 * line.tax - rate * (unit * qty - line.tax) <= 5000 * qty
    BY <2>1, ExcludedTax
  <2>3. unit * qty \in Nat
    BY <2>2
  <2> HIDE DEF line, unit
  <2> QED
    BY <1>1, <1>4, <2>1, <2>2, <2>3 DEF line
<1>5. CASE ~(mode = "NONE" \/ rate <= 0) /\ mode # "EXCLUDED"
  <2>1. line.unit = price /\ line.total = price * qty /\ line.tax = share
    BY <1>2, <1>5
  <2>2. /\ share \in Nat /\ share <= price * qty
        /\ -half <= 100 * share - rate * (price * qty - share)
        /\ 100 * share - rate * (price * qty - share) <= half
    <3> PICK total \in Nat : total = price * qty
      BY <1>1
    <3>1. share = RoundDiv(total * rate, 100 + rate)
      OBVIOUS
    <3> HIDE DEF price, share, half
    <3> QED
      BY <3>1, IncludedTax DEF half
  <2>3. PICK off : off = 100 * share - rate * (price * qty - share)
    OBVIOUS
  <2>4. off \in Int
    BY <1>1, <2>2, <2>3
  <2> HIDE DEF line, share
  <2>5. -(half + 1) <= off /\ off <= half + 1
    BY <1>1, <2>2, <2>3, <2>4
  <2> HIDE DEF half
  <2> QED
    BY <1>1, <1>5, <2>1, <2>2, <2>3, <2>5 DEF line, half
<1> QED
  BY <1>3, <1>4, <1>5

\* The tax of a line is its rate's share of it to within the rounding, never negative, and a
\* discount never leaves more tax than total.
THEOREM TaxHolds == Spec => []TaxMatchesRate
<1>1. TaxMatchesRate
  <2> SUFFICES ASSUME NEW pesos \in 1..PriceBound, NEW qty \in 1..2, NEW rate \in 0..RateBound,
                      NEW mode \in TaxModes
               PROVE  LET line == LineTax(100 * pesos, qty, mode, rate)
                          net == line.total - line.tax
                          off == 100 * line.tax - rate * net
                          slack == IF mode = "EXCLUDED" THEN 100 * 50 * qty
                                   ELSE (100 + rate) \div 2 + 1
                      IN  /\ 0 <= line.tax /\ line.total = line.unit * qty
                          /\ mode = "NONE" => line.tax = 0
                          /\ mode # "NONE" => -slack <= off /\ off <= slack
                          /\ \A discount \in {0, 1, line.total \div 2, line.total, line.total + 1} :
                               LET doc == SummarizeTax(<<line>>, discount)
                               IN  0 <= doc.tax /\ doc.tax <= doc.total
    BY DEF TaxMatchesRate
  <2> DEFINE line == LineTax(100 * pesos, qty, mode, rate)
  <2>1. pesos \in Nat /\ qty \in Nat /\ rate \in Nat
    BY DEF PriceBound, RateBound
  <2>2. Taxed(line, qty, mode, rate)
    BY <2>1, LineIsTaxed
  <2> HIDE DEF line
  <2>t. line.total \in Nat /\ line.tax \in Nat /\ line.tax <= line.total
    BY <2>2 DEF Taxed
  <2>3. ASSUME NEW discount \in {0, 1, line.total \div 2, line.total, line.total + 1}
        PROVE  LET doc == SummarizeTax(<<line>>, discount)
               IN  0 <= doc.tax /\ doc.tax <= doc.total
    <3>1. discount \in Int
      BY <2>t
    <3> QED
      BY <2>t, <3>1, LineDiscounted
  <2> QED
    BY <2>2, <2>3 DEF line, Taxed
<1> QED
  BY <1>1, PTL
=============================================================================
