-------------------------------- MODULE Till --------------------------------
(***************************************************************************)
(* The point of sale: SalesService.create with what it calls in            *)
(* CustomersService, CashService and AuditService, and the desks' own      *)
(* operations on customers and cash sessions.                              *)
(*                                                                         *)
(* A sale runs in a transaction on a connection of its own, but asks for   *)
(* stock, credit, cash and audit on others: every such statement needs a   *)
(* second connection of the pool for a moment, and what it wrote stays     *)
(* when the transaction is rolled back.  save() is a SELECT and an UPDATE  *)
(* of the columns that differ, as in Reservations.                         *)
(***************************************************************************)
EXTENDS Tax, Sequences, FiniteSets

CONSTANTS
    Requests,      \* slots in which a handler may be running
    Cashiers, Products, Customers,
    Stock,         \* the units of each product, all in one batch
    Price, Mode, Rate,  \* price, taxMode and taxRate of each product
    Baskets,       \* the items a sale may have
    Limits,        \* the credit limits a customer may get, 0: none
    Amounts,       \* the amounts of payments, cash movements and openings
    Pool,          \* the connections of the pool
    MaxSessions,   \* bound: cash sessions
    MaxCalls,      \* bound: HTTP calls in a behaviour
    MaxOverlaps,   \* bound: calls that begin while another one is running
    MaxFaults      \* bound: requests that die midway

Item == [product : Products, qty : Nat \ {0}]

\* The columns of amounts are decimal(12,2) and a body has a largest size: what may be
\* asked for is finite.
ASSUME TillAssumption ==
    /\ Stock \in [Products -> Nat] /\ Price \in [Products -> Nat]
    /\ Mode \in [Products -> TaxModes] /\ Rate \in [Products -> Nat]
    /\ Cashiers # {} /\ IsFiniteSet(Baskets) /\ Baskets \subseteq Seq(Item) \ {<<>>}
    /\ IsFiniteSet(Limits) /\ Limits \subseteq Nat /\ Limits # {}
    /\ IsFiniteSet(Amounts) /\ Amounts \subseteq Nat \ {0} /\ Amounts # {}
    /\ Pool \in Nat \ {0} /\ MaxSessions \in Nat \ {0}
    /\ MaxCalls \in Nat /\ MaxOverlaps \in Nat /\ MaxFaults \in Nat
    /\ "none" \notin Customers

VARIABLES
    stock,     \* inventory_batches: the units of each product
    customer,  \* customers: the credit columns
    ledger,    \* customer_ledger_entries
    session,   \* cash_sessions, in order of insertion
    drawer,    \* cash_movements
    sales,     \* sales that are committed
    audited,   \* audit_logs: the sales they refer to
    req,       \* the local variables of the request in each slot
    used       \* how much of the bounds is used up

db == <<stock, customer, ledger, session, drawer, sales, audited>>
vars == <<stock, customer, ledger, session, drawer, sales, audited, req, used>>

-----------------------------------------------------------------------------
(* Rows and the local state of a request *)

CustomerRow == [enabled : BOOLEAN, limit : Nat, balance : Int]
SessionRow ==
    [user : Cashiers, opening : Nat, expected : Int, counted : Nat, difference : Int,
     status : {"OPEN", "CLOSED"}]
\* sale 0: a payment
LedgerRow == [customer : Customers, amount : Int, sale : Nat]
CashMovementRow == [session : Nat \ {0}, amount : Int]
SaleRow ==
    [id : Nat \ {0}, method : {"CASH", "CREDIT"}, customer : Customers \cup {"none"},
     session : Nat, basket : Seq(Item), total : Nat, tax : Int]

NoCustomer == [enabled |-> FALSE, limit |-> 0, balance |-> 0]
NoSession(u) ==
    [user |-> u, opening |-> 0, expected |-> 0, counted |-> 0, difference |-> 0,
     status |-> "OPEN"]
AnyCashier == CHOOSE u \in Cashiers : TRUE

Columns == {"enabled", "limit", "balance", "expected", "counted", "difference", "status"}

\* Where a handler is between two of its statements.
Pc ==
    {"idle", "begin", "check", "read", "take", "customer", "session", "selectCustomer",
     "writeCustomer", "entry", "selectSession", "writeSession", "insertSession", "move",
     "audit", "commit"}
Request ==
    [op : {"none", "sale", "payment", "edit", "open", "close", "movement"},
     pc : Pc,
     id : Nat,                              \* sales.id, the number of the call
     method : {"CASH", "CREDIT"}, basket : Seq(Item), item : Nat,
     customer : Customers \cup {"none"}, cust : CustomerRow,  \* customer entity in hand
     session : Nat, sess : SessionRow,      \* cash session entity in hand
     cols : SUBSET Columns,                 \* columns the next UPDATE will set
     amount : Int,
     units : Int,                           \* the batch as consumeStock read it
     wrote : SUBSET Products, left : [Products -> Int]]  \* batches the transaction updated

Idle ==
    [op |-> "none", pc |-> "idle", id |-> 0, method |-> "CASH", basket |-> <<>>, item |-> 0,
     customer |-> "none", cust |-> NoCustomer, session |-> 0, sess |-> NoSession(AnyCashier),
     cols |-> {}, amount |-> 0, units |-> 0, wrote |-> {}, left |-> [p \in Products |-> 0]]

\* The total and the tax of a basket.
LinesOf(basket) ==
    [i \in DOMAIN basket |->
       LineTax(Price[basket[i].product], basket[i].qty, Mode[basket[i].product],
               Rate[basket[i].product])]
Receipt(basket) == SummarizeTax(LinesOf(basket), 0)

\* The requests that hold a connection for as long as their transaction lasts.
InTransaction == {r \in Requests : req[r].op = "sale" /\ req[r].pc # "begin"}

\* Mutant of FreeConnection: a transaction takes two connections for good.
FreeOfPairs == 2 * Cardinality(InTransaction) < Pool
\* A connection can be had: pg's pool has no timeout, a request waits for one.
FreeConnection == Cardinality(InTransaction) < Pool

-----------------------------------------------------------------------------
(* A request begins *)

Init ==
    /\ stock = Stock
    /\ customer = [c \in Customers |->
                     [enabled |-> TRUE, limit |-> Max(Limits), balance |-> 0]]
    /\ ledger = <<>>
    /\ session = << NoSession(AnyCashier) >>
    /\ drawer = <<>> /\ sales = {} /\ audited = {}
    /\ req = [r \in Requests |-> Idle]
    /\ used = [calls |-> 0, overlaps |-> 0, faults |-> 0]

Running(r) == req[r] # Idle
Overlaps(r) == \E s \in Requests \ {r} : Running(s)

\* A slot in which another call may begin.
Free(r) ==
    /\ ~Running(r) /\ used.calls < MaxCalls
    /\ Overlaps(r) => used.overlaps < MaxOverlaps

Call(r, q) ==
    /\ used' = [used EXCEPT !.calls = @ + 1,
                            !.overlaps = IF Overlaps(r) THEN @ + 1 ELSE @]
    /\ req' = [req EXCEPT ![r] = q]
    /\ UNCHANGED db

\* create: a sale on credit needs a customer.
Acceptable(method, c) == method = "CREDIT" => c # "none"

BeginSale(r, basket, method, c, s) ==
    /\ Acceptable(method, c) /\ s \in 0..Len(session)
    /\ Call(r, [Idle EXCEPT !.op = "sale", !.pc = "begin", !.id = used.calls + 1,
                  !.method = method, !.basket = basket, !.item = 1,
                  !.customer = c, !.session = s, !.amount = Receipt(basket).total])

MayPayOff(row, amount) == amount <= row.balance

\* registerPayment of a customer.
BeginPayment(r, c, amount) ==
    /\ FreeConnection /\ MayPayOff(customer[c], amount)
    /\ Call(r, [Idle EXCEPT !.op = "payment", !.pc = "selectCustomer", !.customer = c,
                  !.cust = [customer[c] EXCEPT !.balance = @ - amount], !.amount = -amount])

\* update of a customer: the form carries the credit settings.
BeginEdit(r, c, enabled, limit) ==
    /\ FreeConnection
    /\ Call(r, [Idle EXCEPT !.op = "edit", !.pc = "selectCustomer", !.customer = c,
                  !.cust = [customer[c] EXCEPT !.enabled = enabled, !.limit = limit]])

\* Mutant of OpenOf: the look-up forgets the user's open session.
OpenOfNobody(u) == {}
OpenOf(u) == {s \in DOMAIN session : session[s].user = u /\ session[s].status = "OPEN"}

\* openSession looks for an open session of the user, then inserts one.
BeginOpen(r, u, amount) ==
    /\ FreeConnection /\ OpenOf(u) = {} /\ Len(session) < MaxSessions
    /\ Call(r, [Idle EXCEPT !.op = "open", !.pc = "insertSession",
                  !.sess = [NoSession(u) EXCEPT !.opening = amount, !.expected = amount]])

\* Mutant of IsOpen: the status is not looked at.
IsOpenAnyhow(s) == TRUE
IsOpen(s) == session[s].status = "OPEN"

BeginClose(r, s, counted) ==
    /\ FreeConnection /\ IsOpen(s)
    /\ Call(r, [Idle EXCEPT !.op = "close", !.pc = "selectSession", !.session = s,
                  !.sess = [session[s] EXCEPT !.counted = counted, !.status = "CLOSED",
                              !.difference = counted - session[s].expected]])

\* addMovement; a MANUAL_OUT is negative.
BeginMovement(r, s, amount) ==
    /\ FreeConnection /\ IsOpen(s)
    /\ Call(r, [Idle EXCEPT !.op = "movement", !.pc = "selectSession", !.session = s,
                  !.sess = [session[s] EXCEPT !.expected = @ + amount], !.amount = amount])

-----------------------------------------------------------------------------
(* Statements of a running request *)

Goto(r, q) == req' = [req EXCEPT ![r] = q]
Throw(r) == Goto(r, Idle) /\ UNCHANGED db

\* The transaction of a sale takes its connection.
OpenTransaction(r) ==
    /\ req[r].pc = "begin" /\ FreeConnection
    /\ Goto(r, [req[r] EXCEPT !.pc = "check"])
    /\ UNCHANGED <<db, used>>

ItemOf(q) == q.basket[q.item]

\* Mutant of Enough: any stock at all will do.
EnoughForOne(units, item) == units > 0
Enough(units, item) == units >= item.qty

\* getCurrentStock without the transaction's manager: committed rows, by a second
\* connection.
CheckStock(r) ==
    LET q == req[r]
    IN  /\ q.pc = "check" /\ FreeConnection
        /\ IF ~Enough(stock[ItemOf(q).product], ItemOf(q)) THEN Throw(r)
           ELSE /\ Goto(r, IF q.item < Len(q.basket) THEN [q EXCEPT !.item = @ + 1]
                           ELSE [q EXCEPT !.pc = "read", !.item = 1])
                /\ UNCHANGED db
        /\ UNCHANGED used

Sees(q, p) == IF p \in q.wrote THEN q.left[p] ELSE stock[p]

\* consumeStock with the manager reads the batch.
ReadBatch(r) ==
    LET q == req[r]
    IN  /\ q.pc = "read"
        /\ IF ~Enough(Sees(q, ItemOf(q).product), ItemOf(q)) THEN Throw(r)
           ELSE /\ Goto(r, [q EXCEPT !.pc = "take", !.units = Sees(q, ItemOf(q).product)])
                /\ UNCHANGED db
        /\ UNCHANGED used

\* Mutant of AfterItems: the credit of a customer is booked after the commit.
AfterItemsUnbooked(q) == [q EXCEPT !.pc = "audit", !.units = 0]
\* After the last item: the customer's credit, the cash session or neither.
AfterItems(q) ==
    [q EXCEPT !.units = 0,
              !.pc = IF q.method = "CREDIT" /\ q.customer # "none" THEN "customer"
                     ELSE IF q.method = "CASH" /\ q.session # 0 THEN "session"
                     ELSE "audit"]

\* The transactions holding the row lock that request r needs.
WaitsFor(r) ==
    IF req[r].pc = "take"
    THEN {s \in Requests \ {r} : ItemOf(req[r]).product \in req[s].wrote}
    ELSE {}

TakeUnits(r) ==
    LET q == req[r]
        p == ItemOf(q).product
        took == [q EXCEPT !.wrote = @ \cup {p}, !.left[p] = q.units - ItemOf(q).qty]
    IN  /\ q.pc = "take" /\ WaitsFor(r) = {}
        /\ Goto(r, IF q.item < Len(q.basket)
                   THEN [took EXCEPT !.pc = "read", !.item = @ + 1]
                   ELSE AfterItems(took))
        /\ UNCHANGED <<db, used>>

\* PostgreSQL aborts a transaction that waits in a cycle of row locks.
DeadlockVictim(r) ==
    /\ \E s \in WaitsFor(r) : r \in WaitsFor(s)
    /\ Throw(r)
    /\ UNCHANGED used

\* Mutant of WithinLimit: the limit is compared with the balance before the sale.
WithinLimitBefore(row, amount) == row.limit > 0 => row.balance <= row.limit
WithinLimit(row, amount) == row.limit > 0 => row.balance + amount <= row.limit

\* registerCreditSale reads the customer; it throws and the sale with it.
LoadCustomer(r) ==
    LET q == req[r]
        row == customer[q.customer]
    IN  /\ q.pc = "customer" /\ FreeConnection
        /\ IF row.enabled /\ WithinLimit(row, q.amount)
           THEN /\ Goto(r, [q EXCEPT !.pc = "selectCustomer",
                                     !.cust = [row EXCEPT !.balance = @ + q.amount]])
                /\ UNCHANGED db
           ELSE Throw(r)
        /\ UNCHANGED used

SelectCustomer(r) ==
    LET q == req[r]
        row == customer[q.customer]
    IN  /\ q.pc = "selectCustomer" /\ FreeConnection
        /\ Goto(r, [q EXCEPT !.pc = "writeCustomer",
                      !.cols = {c \in DOMAIN row : q.cust[c] # row[c]}])
        /\ UNCHANGED <<db, used>>

WriteCustomer(r) ==
    LET q == req[r]
        row == customer[q.customer]
    IN  /\ q.pc = "writeCustomer" /\ FreeConnection
        /\ customer' = [customer EXCEPT ![q.customer] =
                          [c \in DOMAIN row |-> IF c \in q.cols THEN q.cust[c] ELSE row[c]]]
        /\ Goto(r, IF q.op = "edit" THEN Idle
                   ELSE [q EXCEPT !.pc = "entry", !.cols = {}, !.cust = NoCustomer])
        /\ UNCHANGED <<stock, ledger, session, drawer, sales, audited, used>>

\* Mutant of Entry: a payment is entered like a sale.
EntryUnsigned(q) ==
    [customer |-> q.customer, amount |-> Max({q.amount, -q.amount}), sale |-> q.id]
Entry(q) == [customer |-> q.customer, amount |-> q.amount, sale |-> q.id]

\* Mutant of AfterEntry: the limit is checked again once the debt is booked.
AfterEntryChecked(q) ==
    IF q.op = "sale" /\ WithinLimit(customer[q.customer], q.amount)
    THEN [q EXCEPT !.pc = "audit"] ELSE Idle
AfterEntry(q) == IF q.op = "sale" THEN [q EXCEPT !.pc = "audit"] ELSE Idle

InsertEntry(r) ==
    LET q == req[r]
    IN  /\ q.pc = "entry" /\ FreeConnection
        /\ ledger' = Append(ledger, Entry(q))
        /\ Goto(r, AfterEntry(q))
        /\ UNCHANGED <<stock, customer, session, drawer, sales, audited, used>>

\* registerCashSale reads the session.
LoadSession(r) ==
    LET q == req[r]
    IN  /\ q.pc = "session" /\ FreeConnection
        /\ IF IsOpen(q.session)
           THEN /\ Goto(r, [q EXCEPT !.pc = "selectSession",
                              !.sess = [session[q.session] EXCEPT !.expected = @ + q.amount]])
                /\ UNCHANGED db
           ELSE Throw(r)
        /\ UNCHANGED used

SelectSession(r) ==
    LET q == req[r]
        row == session[q.session]
    IN  /\ q.pc = "selectSession" /\ FreeConnection
        /\ Goto(r, [q EXCEPT !.pc = "writeSession",
                      !.cols = {c \in DOMAIN row \ {"user", "opening"} : q.sess[c] # row[c]}])
        /\ UNCHANGED <<db, used>>

AfterSession(q) ==
    CASE q.op = "sale"     -> [q EXCEPT !.pc = "audit"]
      [] q.op = "movement" -> [q EXCEPT !.pc = "move"]
      [] q.op = "close"    -> Idle

WriteSession(r) ==
    LET q == req[r]
        row == session[q.session]
    IN  /\ q.pc = "writeSession" /\ FreeConnection
        /\ session' = [session EXCEPT ![q.session] =
                         [c \in DOMAIN row |-> IF c \in q.cols THEN q.sess[c] ELSE row[c]]]
        /\ Goto(r, AfterSession([q EXCEPT !.cols = {}, !.sess = NoSession(AnyCashier)]))
        /\ UNCHANGED <<stock, customer, ledger, drawer, sales, audited, used>>

InsertSession(r) ==
    /\ req[r].pc = "insertSession" /\ FreeConnection
    /\ session' = Append(session, req[r].sess)
    /\ Goto(r, Idle)
    /\ UNCHANGED <<stock, customer, ledger, drawer, sales, audited, used>>

InsertMovement(r) ==
    /\ req[r].pc = "move" /\ FreeConnection
    /\ drawer' = Append(drawer, [session |-> req[r].session, amount |-> req[r].amount])
    /\ Goto(r, Idle)
    /\ UNCHANGED <<stock, customer, ledger, session, sales, audited, used>>

\* auditService.log, by a second connection: before the commit.
LogAudit(r) ==
    /\ req[r].pc = "audit" /\ FreeConnection
    /\ audited' = audited \cup {req[r].id}
    /\ Goto(r, [req[r] EXCEPT !.pc = "commit"])
    /\ UNCHANGED <<stock, customer, ledger, session, drawer, sales, used>>

Commit(r) ==
    LET q == req[r]
    IN  /\ q.pc = "commit"
        /\ stock' = [p \in Products |-> Sees(q, p)]
        /\ sales' = sales \cup
             {[id |-> q.id, method |-> q.method, customer |-> q.customer,
               session |-> q.session, basket |-> q.basket, total |-> q.amount,
               tax |-> Receipt(q.basket).tax]}
        /\ Goto(r, Idle)
        /\ UNCHANGED <<customer, ledger, session, drawer, audited, used>>

\* The process or the connection fails; a transaction is rolled back.
Die(r) ==
    /\ Running(r) /\ used.faults < MaxFaults
    /\ used' = [used EXCEPT !.faults = @ + 1]
    /\ Throw(r)

\* The routes of the controllers that change state, whoever may call them.
SalesController(r) ==
    \E basket \in Baskets :
      \/ \E c \in Customers \cup {"none"} : BeginSale(r, basket, "CREDIT", c, 0)
      \/ \E s \in 0..Len(session) : BeginSale(r, basket, "CASH", "none", s)

CustomersController(r) ==
    \E c \in Customers :
      \/ \E amount \in Amounts : BeginPayment(r, c, amount)
      \/ \E enabled \in BOOLEAN, limit \in Limits : BeginEdit(r, c, enabled, limit)

CashController(r) ==
    \/ \E u \in Cashiers, amount \in Amounts : BeginOpen(r, u, amount)
    \/ \E s \in DOMAIN session, amount \in Amounts :
         \/ BeginClose(r, s, amount)
         \/ BeginMovement(r, s, amount) \/ BeginMovement(r, s, -amount)

Begin(r) == Free(r) /\ (SalesController(r) \/ CustomersController(r) \/ CashController(r))

Run(r) ==
    \/ OpenTransaction(r) \/ CheckStock(r) \/ ReadBatch(r) \/ TakeUnits(r) \/ DeadlockVictim(r)
    \/ LoadCustomer(r) \/ SelectCustomer(r) \/ WriteCustomer(r) \/ InsertEntry(r)
    \/ LoadSession(r) \/ SelectSession(r) \/ WriteSession(r) \/ InsertSession(r)
    \/ InsertMovement(r) \/ LogAudit(r) \/ Commit(r)

Next == \E r \in Requests : Begin(r) \/ Run(r) \/ Die(r)
Spec == Init /\ [][Next]_vars

\* A request that can go on does: pg hands a free connection to whoever waits, in turn.
FairSpec == Spec /\ \A r \in Requests : WF_vars(Run(r))

-----------------------------------------------------------------------------
(* Properties of every interleaving *)

\* The types of the tables and of the handlers' variables.
TypeOK ==
    /\ stock \in [Products -> Nat]
    /\ customer \in [Customers -> CustomerRow]
    /\ ledger \in Seq(LedgerRow)
    /\ session \in Seq(SessionRow)
    /\ drawer \in Seq(CashMovementRow)
    /\ sales \subseteq SaleRow /\ audited \subseteq 1..MaxCalls
    /\ req \in [Requests -> Request]
    /\ used \in [calls : 0..MaxCalls, overlaps : 0..MaxOverlaps, faults : 0..MaxFaults]

EntriesOf(id) == {k \in DOMAIN ledger : ledger[k].sale = id /\ ledger[k].sale # 0}

\* A sale that is committed has its audit record and, if it was on credit, exactly
\* one ledger entry of its customer with its total: whatever overlapped or died,
\* nobody takes goods on credit without owing them.
SaleIsBooked ==
    \A x \in sales :
      /\ x.id \in audited
      /\ x.method = "CREDIT" =>
           /\ Cardinality(EntriesOf(x.id)) = 1
           /\ \A k \in EntriesOf(x.id) :
                ledger[k].customer = x.customer /\ ledger[k].amount = x.total

\* Debts and audit records are written on other connections, so a sale that fails
\* afterwards leaves them behind; after the audit only a crash can make it fail, and
\* between the debt and the audit as well: there are no more orphans than crashes.
Lives(id) == (\E x \in sales : x.id = id) \/ (\E r \in Requests : req[r].id = id)
OrphansNeedCrash ==
    Cardinality({id \in 1..used.calls : ~Lives(id) /\ (id \in audited \/ EntriesOf(id) # {})})
      <= used.faults

\* No overlap of sales, payments and edits makes the balance of a customer negative
\* or carries it beyond the highest limit anyone could have set.
DebtInRange ==
    \A c \in Customers :
      /\ customer[c].balance >= 0
      /\ 0 \notin Limits => customer[c].balance <= Max(Limits)

\* While fewer sales run at a time than the pool has connections every sale ends:
\* a sale holds one connection and waits for a second.  With as many sales as
\* connections all of them may wait for good.
SaleEnds == \A r \in Requests : req[r].op = "sale" ~> req[r].op # "sale"

-----------------------------------------------------------------------------
(* Properties of requests that do not overlap *)

Quiet == \A r \in Requests : ~Running(r)
Serial == used.overlaps = 0
Clean == Serial /\ used.faults = 0

\* The balance of a customer is the sum of the ledger, but for one entry's amount
\* for each request that died between the two.
Debt(c) == MapThenSumSet(LAMBDA k : ledger[k].amount,
                         {k \in DOMAIN ledger : ledger[k].customer = c})
LargestAmount == Max(Amounts \cup {Receipt(b).total : b \in Baskets})
DebtMatchesLedger ==
    Serial /\ Quiet =>
      \A c \in Customers :
        /\ customer[c].balance - Debt(c) <= used.faults * LargestAmount
        /\ Debt(c) - customer[c].balance <= used.faults * LargestAmount

\* What a session expects in the drawer is its opening amount, its movements and its
\* cash sales; a closed one has the difference to what was counted, and keeps it.
CashSales(s) == {x \in sales : x.session = s /\ x.method = "CASH"}
DrawerMatches ==
    Clean /\ Quiet =>
      \A s \in DOMAIN session :
        /\ session[s].expected = session[s].opening
             + MapThenSumSet(LAMBDA k : drawer[k].amount,
                             {k \in DOMAIN drawer : drawer[k].session = s})
             + MapThenSumSet(LAMBDA x : x.total, CashSales(s))
        /\ session[s].status = "CLOSED" =>
             session[s].difference = session[s].counted - session[s].expected

\* A cashier has one open session at a time; the code looks before it inserts.
OneOpenSession ==
    Serial => \A s, t \in DOMAIN session :
                session[s].user = session[t].user /\ session[s].status = "OPEN"
                  /\ session[t].status = "OPEN" => s = t

-----------------------------------------------------------------------------
(* The arithmetic of the receipts *)

\* Over all prices in whole pesos and all rates up to RateBound (no state matters, so
\* it is evaluated in the first one only): the tax of a line
\* is the rate's share of it, by definition of the mode, to within the rounding (half
\* a cent for INCLUDED, half a peso per unit for EXCLUDED), is never negative, and a
\* discount never leaves more tax than total.  Of prices in cents, which the DTO admits,
\* this is not said: their unit price is rounded to pesos, and the tax may be negative.
PriceBound == 12
RateBound == 20
TaxMatchesRate ==
    used.calls = 0 =>
      \A pesos \in 1..PriceBound, qty \in 1..2, rate \in 0..RateBound, mode \in TaxModes :
        LET line == LineTax(100 * pesos, qty, mode, rate)
            net == line.total - line.tax
            off == 100 * line.tax - rate * net
            slack == IF mode = "EXCLUDED" THEN 100 * 50 * qty ELSE (100 + rate) \div 2 + 1
        IN  /\ 0 <= line.tax /\ line.total = line.unit * qty
            /\ mode = "NONE" => line.tax = 0
            /\ mode # "NONE" => -slack <= off /\ off <= slack
            /\ \A discount \in {0, 1, line.total \div 2, line.total, line.total + 1} :
                 LET doc == SummarizeTax(<<line>>, discount)
                 IN  0 <= doc.tax /\ doc.tax <= doc.total
=============================================================================
