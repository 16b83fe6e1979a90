--------------------------- MODULE AccountsProofs ---------------------------
(***************************************************************************)
(* Proofs about Accounts for every set of addresses and of overlapping     *)
(* requests, and every value of the bounds.                                *)
(***************************************************************************)
EXTENDS Accounts, FiniteSetTheorems, TLAPS

(* What a handler holds between two of its statements.  The types of the tables are *)
(* not inductive without it: the next statement writes what this one kept.  No row  *)
(* is ever taken out of a sequence, so what was found is still there.               *)
Sizes ==
    [users |-> Len(users), customers |-> Len(customers), refresh |-> Len(refresh),
     codes |-> Len(codes), invites |-> Len(invites)]
Size == [users : Nat, customers : Nat, refresh : Nat, codes : Nat, invites : Nat]

Registering == {"register", "customer", "invited"}
HoldsUser(q, n) ==
    /\ q.user \in 0..n.users
    /\ q.pc \in {"customers", "erase", "removeCustomers", "removeUser", "revokeAll",
                 "saveUser", "mail", "undo", "accept", "store"} => q.user # 0
HoldsToken(q, n) ==
    /\ q.token \in 0..n.refresh
    /\ q.op = "refresh" <=> q.token # 0
    /\ q.op = "refresh" => q.pc \in {"user", "revoke", "issue"}
    /\ q.pc = "revoke" => q.op = "refresh"
\* It will save the row of a code.
WritesCode(q) == q.pc = "saveCode" \/ (q.pc = "saveUser" /\ q.op # "update")
HoldsCode(q, n) == WritesCode(q) \/ q.pc = "mail" => q.code \in 1..n.codes
HoldsInvite(q, n) ==
    /\ q.invite \in 0..n.invites
    /\ (q.op = "invited" /\ q.pc \in {"insertUser", "commit", "accept"}) \/ q.pc = "discard"
         => q.invite # 0
HoldsList(q, n) ==
    /\ q.pc \in {"customers", "removeCustomers"} => q.list \subseteq 1..n.customers
    /\ q.pc = "customers" => q.list # {}
    /\ q.pc = "sync" => q.list \subseteq 1..n.invites
HoldsOp(q) ==
    /\ q.pc \in {"insertUser", "commit"} => q.op \in Registering
    /\ q.pc = "deactivate" => q.op \in {"register", "customer", "recover"}
    /\ q.pc = "mail" => q.op \in {"register", "customer"}
    /\ q.pc = "insertVerified" => q.op = "create"

Holding(q, n) ==
    /\ q \in Request
    /\ HoldsUser(q, n) /\ HoldsToken(q, n) /\ HoldsCode(q, n) /\ HoldsInvite(q, n)
    /\ HoldsList(q, n) /\ HoldsOp(q)

\* The requests that will insert a row of users.
Inserts(q) ==
    q.pc \in {"insertUser", "commit", "insertVerified"} \/ (q.pc = "deactivate" /\ q.op # "recover")
Inserters == {r \in Requests : Inserts(req[r])}

TablesOK ==
    /\ users \in Seq(UserRow) /\ stores \subseteq DOMAIN users
    /\ customers \in Seq(CustomerRow) /\ refresh \in Seq(RefreshRow)
    /\ codes \in Seq(CodeRow) /\ invites \in Seq(InviteRow)
TokensRefer ==
    \A k \in DOMAIN refresh : refresh[k].user \in 0..Len(users) /\ refresh[k].parent \in 0..Len(refresh)
UsedOK ==
    used \in [calls : 0..MaxCalls, overlaps : 0..MaxOverlaps, faults : 0..MaxFaults,
              lapses : 0..MaxLapses]
Room == Len(users) + Cardinality(Inserters) <= MaxUsers
RequestsHold == req \in [Requests -> Request] /\ \A r \in Requests : Holding(req[r], Sizes)
TypeInv == TablesOK /\ TokensRefer /\ UsedOK /\ Room /\ RequestsHold

-----------------------------------------------------------------------------
(* Requests and the bounds *)

\* A slot in which nothing runs holds nothing.
LEMMA IdleHolds ==
    ASSUME NEW n \in Size
    PROVE  Holding(Idle, n) /\ Idle.pc = "idle" /\ Idle.op = "none" /\ Idle.token = 0
  BY AccountsAssumption
  DEF Holding, Idle, Request, HoldsUser, HoldsToken, HoldsCode, WritesCode, HoldsInvite,
      HoldsList, HoldsOp, Size, NewUser, NewCode, UserRow, CodeRow

SizesGrow ==
    /\ Sizes.users <= Sizes'.users /\ Sizes.customers <= Sizes'.customers
    /\ Sizes.refresh <= Sizes'.refresh /\ Sizes.codes <= Sizes'.codes
    /\ Sizes.invites <= Sizes'.invites

\* What a request found stays found.
LEMMA HoldingLonger ==
    ASSUME NEW q, NEW n \in Size, NEW m \in Size, Holding(q, n),
           n.users <= m.users, n.customers <= m.customers, n.refresh <= m.refresh,
           n.codes <= m.codes, n.invites <= m.invites
    PROVE  Holding(q, m)
<1>1. HoldsUser(q, m) /\ HoldsToken(q, m) /\ HoldsInvite(q, m) /\ HoldsCode(q, m)
  BY DEF Holding, HoldsUser, HoldsToken, HoldsInvite, HoldsCode, Size, Request
<1>2. HoldsList(q, m)
  <2>1. 1..n.customers \subseteq 1..m.customers /\ 1..n.invites \subseteq 1..m.invites
    BY DEF Size
  <2> QED
    BY <2>1 DEF Holding, HoldsList
<1> QED
  BY <1>1, <1>2 DEF Holding

\* The lengths of the tables.
LEMMA SizesType ==
    ASSUME TablesOK
    PROVE  Sizes \in Size
  BY DEF TablesOK, Sizes, Size

\* A request goes on to hold q, and no table gets shorter.
LEMMA GoesOn ==
    ASSUME TypeInv, TablesOK', SizesGrow, NEW r \in Requests, NEW q, Holding(q, Sizes'),
           req' = [req EXCEPT ![r] = q]
    PROVE  RequestsHold'
<1>1. Sizes \in Size /\ Sizes' \in Size
  BY SizesType DEF TypeInv, TablesOK, Sizes, Size
<1>2. \A s \in Requests : Holding(req[s], Sizes')
  BY <1>1, HoldingLonger DEF TypeInv, RequestsHold, SizesGrow
<1>3. \A s \in Requests : Holding(req'[s], Sizes') /\ req'[s] \in Request
  BY <1>2 DEF TypeInv, RequestsHold, Holding
<1> QED
  BY <1>3 DEF TypeInv, RequestsHold

\* The sets of requests that are counted are finite.
LEMMA FiniteRequests ==
    ASSUME NEW S \in SUBSET Requests
    PROVE  IsFiniteSet(S) /\ Cardinality(S) \in Nat
  BY AccountsAssumption, FS_Subset, FS_CardinalityType

\* Inserters and the users there are, as a request goes on that is no new inserter.
LEMMA RoomStays ==
    ASSUME TypeInv, TablesOK', NEW r \in Requests, NEW q, req' = [req EXCEPT ![r] = q],
           Inserts(q) => Inserts(req[r]),
           \/ Len(users') = Len(users)
           \/ ~Inserts(q) /\ Inserts(req[r]) /\ Len(users') = Len(users) + 1
    PROVE  Room'
<1>1. /\ IsFiniteSet(Inserters) /\ Cardinality(Inserters) \in Nat
      /\ IsFiniteSet(Inserters') /\ Cardinality(Inserters') \in Nat
  <2>1. Inserters \in SUBSET Requests /\ Inserters' \in SUBSET Requests
    BY DEF Inserters
  <2> HIDE DEF Inserters
  <2> QED
    BY <2>1, FiniteRequests
<1>2. Len(users) \in Nat /\ Len(users') \in Nat /\ MaxUsers \in Nat
  BY AccountsAssumption DEF TypeInv, TablesOK
<1>3. Inserters' \subseteq Inserters
  BY DEF Inserters, TypeInv, RequestsHold
<1>4. Cardinality(Inserters') <= Cardinality(Inserters)
  BY <1>1, <1>3, FS_Subset
<1>5. CASE Len(users') = Len(users)
  BY <1>1, <1>2, <1>4, <1>5 DEF TypeInv, Room
<1>6. CASE ~Inserts(q) /\ Inserts(req[r]) /\ Len(users') = Len(users) + 1
  <2>1. Inserters' \subseteq Inserters \ {r} /\ r \in Inserters
    BY <1>6 DEF Inserters, TypeInv, RequestsHold
  <2>2. /\ IsFiniteSet(Inserters \ {r})
        /\ Cardinality(Inserters \ {r}) = Cardinality(Inserters) - 1
    BY <1>1, <2>1, FS_RemoveElement
  <2>3. Cardinality(Inserters') <= Cardinality(Inserters) - 1
    BY <2>1, <2>2, FS_Subset
  <2> QED
    BY <1>1, <1>2, <1>6, <2>3 DEF TypeInv, Room
<1> QED
  BY <1>5, <1>6

\* Handlers that change no table.
LEMMA TablesSame ==
    ASSUME TypeInv, UNCHANGED tables
    PROVE  TablesOK' /\ TokensRefer' /\ Sizes' = Sizes /\ SizesGrow
  BY DEF TypeInv, TablesOK, TokensRefer, tables, Sizes, SizesGrow

\* A call counts, and counts as an overlap when another request is running.
LEMMA CallCounts ==
    ASSUME UsedOK, NEW r \in Requests, NEW q, Free(r), Call(r, q)
    PROVE  /\ UsedOK' /\ req' = [req EXCEPT ![r] = q]
           /\ used'.overlaps = used.overlaps + (IF Overlaps(r) THEN 1 ELSE 0)
           /\ used'.faults = used.faults
<1> DEFINE n == IF Overlaps(r) THEN used.overlaps + 1 ELSE used.overlaps
<1>1. /\ used.calls \in 0..MaxCalls /\ used.overlaps \in 0..MaxOverlaps
      /\ used.faults \in 0..MaxFaults /\ used.lapses \in 0..MaxLapses
  BY DEF UsedOK
<1>2. used.calls + 1 \in 0..MaxCalls /\ n \in 0..MaxOverlaps
  BY <1>1, AccountsAssumption DEF Free
<1>3. used' = [used EXCEPT !.calls = used.calls + 1, !.overlaps = n]
  BY DEF Call
<1>4. n = used.overlaps + (IF Overlaps(r) THEN 1 ELSE 0)
  BY <1>1
<1> HIDE DEF n
<1>5. UsedOK' /\ used'.overlaps = n /\ used'.faults = used.faults
  BY <1>1, <1>2, <1>3 DEF UsedOK
<1> QED
  BY <1>4, <1>5 DEF Call

\* A call that begins, having read the tables or changed rows in their place.
LEMMA CallTypes ==
    ASSUME TypeInv, TablesOK', TokensRefer', Len(users') = Len(users), SizesGrow,
           NEW r \in Requests, NEW q, Holding(q, Sizes'), Inserts(q) => MayInsert,
           Free(r), Call(r, q)
    PROVE  TypeInv'
<1>1. UsedOK' /\ req' = [req EXCEPT ![r] = q]
  BY CallCounts DEF TypeInv
<1>2. RequestsHold'
  BY <1>1, GoesOn
<1>3. CASE ~Inserts(q)
  BY <1>1, <1>2, <1>3, RoomStays DEF TypeInv
<1>4. CASE Inserts(q)
  <2> DEFINE W == {s \in Requests : req[s].op \in {"register", "customer", "invited", "create"}}
  <2>1. Inserters \subseteq W
    BY DEF TypeInv, RequestsHold, Holding, HoldsOp, Inserters, Inserts, Registering
  <2>2. Len(users) + Cardinality(W) < MaxUsers
    BY <1>4 DEF MayInsert
  <2>3. Inserters' \subseteq W \cup {r}
    BY <1>1, <2>1 DEF Inserters, TypeInv, RequestsHold
  <2>4. W \in SUBSET Requests
    OBVIOUS
  <2> HIDE DEF W
  <2>5. IsFiniteSet(W) /\ Cardinality(W) \in Nat
    BY <2>4, FiniteRequests
  <2>6. IsFiniteSet(W \cup {r}) /\ Cardinality(W \cup {r}) <= Cardinality(W) + 1
    <3>1. /\ IsFiniteSet(W \cup {r})
          /\ \/ Cardinality(W \cup {r}) = Cardinality(W)
             \/ Cardinality(W \cup {r}) = Cardinality(W) + 1
      BY ONLY <2>5, FS_AddElement
    <3> QED
      BY <2>5, <3>1
  <2>7. /\ Cardinality(Inserters') <= Cardinality(W \cup {r})
        /\ Cardinality(Inserters') \in Nat /\ Cardinality(W \cup {r}) \in Nat
    BY <2>3, <2>6, FS_Subset, FS_CardinalityType
  <2>8. Len(users) \in Nat /\ MaxUsers \in Nat
    BY AccountsAssumption DEF TypeInv, TablesOK
  <2>9. Room'
    BY <2>2, <2>5, <2>6, <2>7, <2>8 DEF Room
  <2> QED
    BY <1>1, <1>2, <2>9 DEF TypeInv
<1> QED
  BY <1>3, <1>4

\* A call that begins, having read the tables.
LEMMA CallKeepsTypes ==
    ASSUME TypeInv, UNCHANGED tables, NEW r \in Requests, NEW q, Holding(q, Sizes),
           Inserts(q) => MayInsert, Free(r), Call(r, q)
    PROVE  TypeInv'
<1>1. TablesOK' /\ TokensRefer' /\ Sizes' = Sizes /\ SizesGrow /\ Len(users') = Len(users)
  BY TablesSame DEF tables
<1> QED
  BY <1>1, CallTypes

\* A request that goes on.
LEMMA GotoTypes ==
    ASSUME TypeInv, TablesOK', TokensRefer', SizesGrow, UNCHANGED used,
           NEW r \in Requests, NEW q, Holding(q, Sizes'), Goto(r, q),
           Inserts(q) => Inserts(req[r]),
           \/ Len(users') = Len(users)
           \/ ~Inserts(q) /\ Inserts(req[r]) /\ Len(users') = Len(users) + 1
    PROVE  TypeInv'
<1>1. UsedOK' /\ req' = [req EXCEPT ![r] = q]
  BY DEF TypeInv, UsedOK, Goto
<1>2. RequestsHold' /\ Room'
  BY <1>1, GoesOn, RoomStays
<1> QED
  BY <1>1, <1>2 DEF TypeInv

\* A request that goes on, having changed no table.
LEMMA GotoKeepsTypes ==
    ASSUME TypeInv, UNCHANGED <<tables, used>>, NEW r \in Requests, NEW q, Holding(q, Sizes),
           Goto(r, q), Inserts(q) => Inserts(req[r])
    PROVE  TypeInv'
<1>1. TablesOK' /\ TokensRefer' /\ Sizes' = Sizes /\ SizesGrow /\ Len(users') = Len(users)
  BY TablesSame DEF tables
<1> QED
  BY <1>1, GotoTypes

\* A request that returns.
LEMMA ReturnTypes ==
    ASSUME TypeInv, TablesOK', TokensRefer', SizesGrow, UNCHANGED used, Len(users') = Len(users),
           NEW r \in Requests, Goto(r, Idle)
    PROVE  TypeInv'
<1>1. Holding(Idle, Sizes') /\ ~Inserts(Idle)
  BY SizesType, IdleHolds DEF Inserts, TablesOK, Sizes, Size
<1> QED
  BY <1>1, GotoTypes

-----------------------------------------------------------------------------
(* Calls keep the types *)

\* Rows and users that a handler reads.
LEMMA RowsTyped ==
    ASSUME TypeInv
    PROVE  /\ \A u \in DOMAIN users : u \in 1..Len(users) /\ u \in Nat /\ users[u] \in UserRow
           /\ \A k \in DOMAIN refresh : k \in 1..Len(refresh) /\ k \in Nat /\ refresh[k] \in RefreshRow
           /\ \A k \in DOMAIN codes : k \in 1..Len(codes) /\ k \in Nat /\ codes[k] \in CodeRow
           /\ \A k \in DOMAIN invites : k \in 1..Len(invites) /\ k \in Nat /\ invites[k] \in InviteRow
           /\ \A c \in DOMAIN customers : c \in 1..Len(customers) /\ c \in Nat /\ customers[c] \in CustomerRow
           /\ \A r \in Requests : req[r] \in Request /\ Holding(req[r], Sizes)
           /\ Sizes \in Size
<1>1. /\ \A u \in DOMAIN users : u \in 1..Len(users) /\ u \in Nat /\ users[u] \in UserRow
      /\ \A k \in DOMAIN refresh : k \in 1..Len(refresh) /\ k \in Nat /\ refresh[k] \in RefreshRow
      /\ \A k \in DOMAIN codes : k \in 1..Len(codes) /\ k \in Nat /\ codes[k] \in CodeRow
      /\ \A k \in DOMAIN invites : k \in 1..Len(invites) /\ k \in Nat /\ invites[k] \in InviteRow
  BY DEF TypeInv, TablesOK
<1>2. \A c \in DOMAIN customers :
        c \in 1..Len(customers) /\ c \in Nat /\ customers[c] \in CustomerRow
  BY DEF TypeInv, TablesOK
<1>3. (\A r \in Requests : req[r] \in Request /\ Holding(req[r], Sizes)) /\ Sizes \in Size
  BY SizesType DEF TypeInv, RequestsHold
<1> QED
  BY <1>1, <1>2, <1>3

\* Idle is a request.
LEMMA IdleTyped ==
    /\ Idle \in Request
    /\ Idle.user = 0 /\ Idle.token = 0 /\ Idle.invite = 0 /\ Idle.list = {} /\ Idle.code = 0
  BY AccountsAssumption DEF Idle, Request, NewUser, NewCode, UserRow, CodeRow

\* login, refreshAccessToken, logout and deleteMyAccount.
LEMMA SessionTypes ==
    ASSUME TypeInv, NEW r \in Requests, Free(r),
           \/ \E u \in DOMAIN users : BeginLogin(r, u) \/ BeginDelete(r, u)
           \/ \E k \in DOMAIN refresh : BeginRefresh(r, k) \/ Logout(r, k)
    PROVE  TypeInv'
<1>1. ASSUME NEW u \in DOMAIN users, BeginLogin(r, u)
      PROVE  TypeInv'
  <2> DEFINE q == [Idle EXCEPT !.op = "login", !.pc = "user", !.user = u]
  <2>0. u \in 1..Len(users) /\ u \in Nat
    BY RowsTyped
  <2>1. q \in Request /\ q.op = "login" /\ q.pc = "user" /\ q.user = u /\ q.token = 0
        /\ q.invite = 0
    BY <2>0, IdleTyped DEF Request
  <2> HIDE DEF q
  <2>2. Holding(q, Sizes) /\ ~Inserts(q)
    BY <2>0, <2>1, RowsTyped DEF Holding, HoldsUser, HoldsToken, HoldsCode, WritesCode, HoldsInvite,
                HoldsList, HoldsOp, Inserts, Sizes, Size
  <2> QED
    BY <1>1, <2>2, CallKeepsTypes DEF BeginLogin, q
<1>2. ASSUME NEW u \in DOMAIN users, BeginDelete(r, u)
      PROVE  TypeInv'
  <2> DEFINE list == CustomersOf(users[u].email)
             pc == CASE HasOrders(u) /\ list # {}  -> "customers"
                     [] HasOrders(u) /\ list = {}  -> "erase"
                     [] ~HasOrders(u) /\ list # {} -> "removeCustomers"
                     [] ~HasOrders(u) /\ list = {} -> "removeUser"
             q == [Idle EXCEPT !.op = "delete", !.user = u, !.ent = users[u], !.list = list,
                               !.pc = pc]
  <2>0. u \in 1..Len(users) /\ u \in Nat /\ users[u] \in UserRow
    BY RowsTyped
  <2>1. list \subseteq 1..Len(customers) /\ list \subseteq Nat
    BY DEF CustomersOf, TypeInv, TablesOK
  <2>2. /\ pc \in {"customers", "erase", "removeCustomers", "removeUser"}
        /\ pc = "customers" => list # {}
    BY DEF HasOrders
  <2>3. Call(r, q) /\ UNCHANGED tables
    BY <1>2 DEF BeginDelete
  <2> HIDE DEF list, pc
  <2>4. q \in Request /\ q.op = "delete" /\ q.pc = pc /\ q.user = u /\ q.token = 0
        /\ q.invite = 0 /\ q.list = list
    BY <2>0, <2>1, <2>2, IdleTyped DEF Request
  <2> HIDE DEF q
  <2>5. Holding(q, Sizes) /\ ~Inserts(q)
    BY <2>0, <2>1, <2>2, <2>4, RowsTyped
    DEF Holding, HoldsUser, HoldsToken, HoldsCode, WritesCode, HoldsInvite, HoldsList, HoldsOp,
        Inserts, Sizes, Size
  <2> QED
    BY <2>3, <2>5, CallKeepsTypes
<1>3. ASSUME NEW k \in DOMAIN refresh, BeginRefresh(r, k)
      PROVE  TypeInv'
  <2> DEFINE q == [Idle EXCEPT !.op = "refresh", !.pc = "user", !.user = refresh[k].user,
                               !.token = k]
  <2>0. k \in 1..Len(refresh) /\ k \in Nat /\ Len(users) \in Nat
    BY RowsTyped DEF TypeInv, TablesOK
  <2>1. refresh[k].user \in 0..Len(users) /\ refresh[k].user \in Nat
    BY <2>0 DEF TypeInv, TokensRefer
  <2>2. q \in Request /\ q.op = "refresh" /\ q.pc = "user" /\ q.user = refresh[k].user
        /\ q.token = k /\ q.invite = 0
    BY <2>0, <2>1, IdleTyped DEF Request
  <2> HIDE DEF q
  <2>3. Holding(q, Sizes) /\ ~Inserts(q)
    BY <2>0, <2>1, <2>2, RowsTyped
    DEF Holding, HoldsUser, HoldsToken, HoldsCode, WritesCode, HoldsInvite, HoldsList, HoldsOp,
        Inserts, Sizes, Size
  <2> QED
    BY <1>3, <2>3, CallKeepsTypes DEF BeginRefresh, q
<1>4. ASSUME NEW k \in DOMAIN refresh, Logout(r, k)
      PROVE  TypeInv'
  <2> DEFINE row == [refresh[k] EXCEPT !.revoked = TRUE]
  <2>0. row \in RefreshRow /\ k \in 1..Len(refresh)
    BY RowsTyped DEF RefreshRow
  <2>1. refresh' \in Seq(RefreshRow) /\ Len(refresh') = Len(refresh)
    <3>1. refresh' = [refresh EXCEPT ![k] = row]
      BY <1>4 DEF Logout
    <3> HIDE DEF row
    <3> QED
      BY <2>0, <3>1 DEF TypeInv, TablesOK
  <2>2. TokensRefer'
    BY <1>4, RowsTyped DEF Logout, TypeInv, TablesOK, TokensRefer, RefreshRow
  <2>3. TablesOK' /\ SizesGrow /\ Len(users') = Len(users) /\ Sizes' \in Size
    BY <1>4, <2>1 DEF Logout, TypeInv, TablesOK, SizesGrow, Sizes, Size
  <2>4. Holding(Idle, Sizes') /\ ~Inserts(Idle)
    BY <2>3, IdleHolds DEF Inserts
  <2> QED
    BY <1>4, <2>2, <2>3, <2>4, CallTypes DEF Logout
<1> QED
  BY <1>1, <1>2, <1>3, <1>4

\* Registrations, with and without an invitation, and accounts an administrator creates.
LEMMA RegisterTypes ==
    ASSUME TypeInv, NEW r \in Requests, Free(r),
           \/ \E e \in Emails : \/ BeginRegister(r, "register", e)
                                \/ BeginRegister(r, "customer", e) \/ BeginCreate(r, e)
           \/ \E k \in DOMAIN invites : BeginInvited(r, k)
    PROVE  TypeInv'
<1>1. ASSUME NEW e \in Emails, NEW op \in {"register", "customer"}, BeginRegister(r, op, e)
      PROVE  TypeInv'
  <2> DEFINE q == [Idle EXCEPT !.op = op, !.pc = "insertUser", !.email = e]
  <2>1. q \in Request /\ q.op = op /\ q.pc = "insertUser" /\ q.user = 0 /\ q.token = 0
        /\ q.invite = 0
    BY IdleTyped DEF Request
  <2> HIDE DEF q
  <2>2. Holding(q, Sizes)
    BY <2>1, RowsTyped
    DEF Holding, HoldsUser, HoldsToken, HoldsCode, WritesCode, HoldsInvite, HoldsList, HoldsOp,
        Registering, Sizes, Size
  <2> QED
    BY <1>1, <2>2, CallKeepsTypes DEF BeginRegister, q
<1>2. ASSUME NEW e \in Emails, BeginCreate(r, e)
      PROVE  TypeInv'
  <2> DEFINE q == [Idle EXCEPT !.op = "create", !.pc = "insertVerified", !.email = e,
                               !.ent = NewUser(e, TRUE, "admin", 0)]
  <2>1. NewUser(e, TRUE, "admin", 0) \in UserRow
    BY DEF NewUser, UserRow
  <2>2. q \in Request /\ q.op = "create" /\ q.pc = "insertVerified" /\ q.user = 0 /\ q.token = 0
        /\ q.invite = 0
    BY <2>1, IdleTyped DEF Request
  <2> HIDE DEF q
  <2>3. Holding(q, Sizes)
    BY <2>2, RowsTyped
    DEF Holding, HoldsUser, HoldsToken, HoldsCode, WritesCode, HoldsInvite, HoldsList, HoldsOp,
        Registering, Sizes, Size
  <2> QED
    BY <1>2, <2>3, CallKeepsTypes DEF BeginCreate, q
<1>3. ASSUME NEW k \in DOMAIN invites, BeginInvited(r, k)
      PROVE  TypeInv'
  <2> DEFINE q == [Idle EXCEPT !.op = "invited", !.pc = "insertUser",
                               !.email = invites[k].email, !.invite = k]
  <2>0. k \in 1..Len(invites) /\ k \in Nat /\ invites[k].email \in Emails
    BY RowsTyped DEF InviteRow
  <2>1. q \in Request /\ q.op = "invited" /\ q.pc = "insertUser" /\ q.user = 0 /\ q.token = 0
        /\ q.invite = k
    BY <2>0, IdleTyped DEF Request
  <2> HIDE DEF q
  <2>2. Holding(q, Sizes)
    BY <2>0, <2>1, RowsTyped
    DEF Holding, HoldsUser, HoldsToken, HoldsCode, WritesCode, HoldsInvite, HoldsList, HoldsOp,
        Registering, Sizes, Size
  <2> QED
    BY <1>3, <2>2, CallKeepsTypes DEF BeginInvited, q
<1> QED
  BY <1>1, <1>2, <1>3

\* Verification links and recovery codes.
LEMMA CodeCallTypes ==
    ASSUME TypeInv, NEW r \in Requests, Free(r),
           \/ \E k \in DOMAIN codes : BeginVerify(r, k)
           \/ \E e \in Emails : BeginRecover(r, e) \/ \E right \in BOOLEAN : BeginAnswer(r, e, right)
    PROVE  TypeInv'
<1>1. ASSUME NEW e \in Emails, BeginRecover(r, e)
      PROVE  TypeInv'
  <2> DEFINE q == [Idle EXCEPT !.op = "recover", !.pc = "deactivate", !.email = e]
  <2>1. q \in Request /\ q.op = "recover" /\ q.pc = "deactivate" /\ q.user = 0 /\ q.token = 0
        /\ q.invite = 0
    BY IdleTyped DEF Request
  <2> HIDE DEF q
  <2>2. Holding(q, Sizes) /\ ~Inserts(q)
    BY <2>1, RowsTyped
    DEF Holding, HoldsUser, HoldsToken, HoldsCode, WritesCode, HoldsInvite, HoldsList, HoldsOp,
        Registering, Inserts, Sizes, Size
  <2> QED
    BY <1>1, <2>2, CallKeepsTypes DEF BeginRecover, q
<1>2. ASSUME NEW op \in {"verify", "wrong"}, NEW k \in DOMAIN codes, NEW row \in CodeRow,
             Call(r, [Idle EXCEPT !.op = op, !.pc = "saveCode", !.code = k, !.row = row]),
             UNCHANGED tables
      PROVE  TypeInv'
  <2> DEFINE q == [Idle EXCEPT !.op = op, !.pc = "saveCode", !.code = k, !.row = row]
  <2>0. k \in 1..Len(codes) /\ k \in Nat
    BY RowsTyped
  <2>1. q \in Request /\ q.op = op /\ q.pc = "saveCode" /\ q.user = 0 /\ q.token = 0
        /\ q.invite = 0 /\ q.code = k
    BY <2>0, IdleTyped DEF Request
  <2> HIDE DEF q
  <2>2. Holding(q, Sizes) /\ ~Inserts(q)
    BY <2>0, <2>1, RowsTyped
    DEF Holding, HoldsUser, HoldsToken, HoldsCode, WritesCode, HoldsInvite, HoldsList, HoldsOp,
        Registering, Inserts, Sizes, Size
  <2> QED
    BY <1>2, <2>2, CallKeepsTypes DEF q
<1>3. ASSUME NEW op \in {"verify", "reset"}, NEW u \in DOMAIN users, NEW ent \in UserRow,
             NEW k \in DOMAIN codes, NEW row \in CodeRow,
             Call(r, [Idle EXCEPT !.op = op, !.pc = "saveUser", !.user = u, !.ent = ent,
                                  !.code = k, !.row = row]),
             UNCHANGED tables
      PROVE  TypeInv'
  <2> DEFINE q == [Idle EXCEPT !.op = op, !.pc = "saveUser", !.user = u, !.ent = ent,
                                  !.code = k, !.row = row]
  <2>0. k \in 1..Len(codes) /\ k \in Nat /\ u \in 1..Len(users) /\ u \in Nat
    BY RowsTyped
  <2>1. q \in Request /\ q.op = op /\ q.pc = "saveUser" /\ q.user = u /\ q.token = 0
        /\ q.invite = 0 /\ q.code = k
    BY <2>0, IdleTyped DEF Request
  <2> HIDE DEF q
  <2>2. Holding(q, Sizes) /\ ~Inserts(q)
    BY <2>0, <2>1, RowsTyped
    DEF Holding, HoldsUser, HoldsToken, HoldsCode, WritesCode, HoldsInvite, HoldsList, HoldsOp,
        Registering, Inserts, Sizes, Size
  <2> QED
    BY <1>3, <2>2, CallKeepsTypes DEF q
<1>4. ASSUME NEW k \in DOMAIN codes, BeginVerify(r, k)
      PROVE  TypeInv'
  <2>1. codes[k] \in CodeRow
    BY RowsTyped
  <2>2. [codes[k] EXCEPT !.active = FALSE] \in CodeRow
        /\ [codes[k] EXCEPT !.active = FALSE, !.used = TRUE] \in CodeRow
    BY <2>1 DEF CodeRow
  <2>3. \A u \in UsersOf(codes[k].email) :
          u \in DOMAIN users /\ [users[u] EXCEPT !.verified = TRUE] \in UserRow
    BY RowsTyped DEF UsersOf, UserRow
  <2> QED
    BY <1>2, <1>3, <1>4, <2>2, <2>3 DEF BeginVerify
<1>5. ASSUME NEW e \in Emails, NEW right \in BOOLEAN, BeginAnswer(r, e, right)
      PROVE  TypeInv'
  <2>1. PICK k \in CurrentCodes(e) :
         LET row == codes[k]
             closed == [row EXCEPT !.active = FALSE]
             judged == [Idle EXCEPT !.op = "wrong", !.pc = "saveCode", !.code = k]
             missed == [row EXCEPT !.attempts = @ + 1, !.active = ~Exhausted(row.attempts + 1)]
         IN  \/ /\ row.expired \/ Exhausted(row.attempts)
                /\ Call(r, [judged EXCEPT !.op = "verify", !.row = closed])
             \/ /\ ~row.expired /\ ~Exhausted(row.attempts) /\ ~right
                /\ Call(r, [judged EXCEPT !.row = missed])
             \/ /\ ~row.expired /\ ~Exhausted(row.attempts) /\ right
                /\ \E u \in UsersOf(e) :
                     Call(r, [judged EXCEPT !.op = "reset", !.pc = "saveUser", !.user = u,
                                !.ent = users[u], !.row = [closed EXCEPT !.used = TRUE]])
    BY <1>5 DEF BeginAnswer
  <2> DEFINE row == codes[k]
             closed == [row EXCEPT !.active = FALSE]
             judged == [Idle EXCEPT !.op = "wrong", !.pc = "saveCode", !.code = k]
             missed == [row EXCEPT !.attempts = @ + 1, !.active = ~Exhausted(row.attempts + 1)]
  <2>2. k \in DOMAIN codes
    BY DEF CurrentCodes, Newest
  <2>3. row \in CodeRow
    BY <2>2, RowsTyped
  <2>4. closed \in CodeRow /\ [closed EXCEPT !.used = TRUE] \in CodeRow
    BY <2>3 DEF CodeRow
  <2>5. ~Exhausted(row.attempts) => missed \in CodeRow
    <3> DEFINE n == row.attempts + 1
               b == ~Exhausted(n)
    <3>1. ~Exhausted(row.attempts) => n \in 0..MaxAttempts
      BY <2>3, AccountsAssumption DEF CodeRow, Exhausted
    <3>2. b \in BOOLEAN /\ missed = [row EXCEPT !.attempts = n, !.active = b]
      BY DEF Exhausted
    <3> HIDE DEF n, b, missed, row
    <3> QED
      BY <2>3, <3>1, <3>2 DEF CodeRow
  <2>6. UNCHANGED tables
    BY <1>5 DEF BeginAnswer
  <2>7. CASE Call(r, [judged EXCEPT !.op = "verify", !.row = closed])
    <3>1. [judged EXCEPT !.op = "verify", !.row = closed]
            = [Idle EXCEPT !.op = "verify", !.pc = "saveCode", !.code = k, !.row = closed]
      BY DEF Idle
    <3> HIDE DEF closed, judged, row
    <3> QED
      BY <1>2, <2>2, <2>4, <2>6, <2>7, <3>1
  <2>8. CASE ~Exhausted(row.attempts) /\ Call(r, [judged EXCEPT !.row = missed])
    <3>1. [judged EXCEPT !.row = missed]
            = [Idle EXCEPT !.op = "wrong", !.pc = "saveCode", !.code = k, !.row = missed]
      BY DEF Idle
    <3> HIDE DEF missed, judged, row
    <3> QED
      BY <1>2, <2>2, <2>5, <2>6, <2>8, <3>1
  <2>9. ASSUME NEW u \in UsersOf(e),
               Call(r, [judged EXCEPT !.op = "reset", !.pc = "saveUser", !.user = u,
                                      !.ent = users[u], !.row = [closed EXCEPT !.used = TRUE]])
        PROVE  TypeInv'
    <3>1. u \in DOMAIN users /\ users[u] \in UserRow
      BY RowsTyped DEF UsersOf
    <3> DEFINE final == [closed EXCEPT !.used = TRUE]
    <3>2. final \in CodeRow
      BY <2>4
    <3> HIDE DEF final
    <3>3. [judged EXCEPT !.op = "reset", !.pc = "saveUser", !.user = u, !.ent = users[u],
                         !.row = final]
            = [Idle EXCEPT !.op = "reset", !.pc = "saveUser", !.user = u, !.ent = users[u],
                           !.code = k, !.row = final]
      BY DEF Idle
    <3>4. Call(r, [judged EXCEPT !.op = "reset", !.pc = "saveUser", !.user = u, !.ent = users[u],
                         !.row = final])
      BY <2>9 DEF final
    <3>5. Call(r, [Idle EXCEPT !.op = "reset", !.pc = "saveUser", !.user = u, !.ent = users[u],
                           !.code = k, !.row = final])
      BY <3>3, <3>4
    <3> QED
      BY <1>3, <2>2, <2>6, <3>1, <3>2, <3>5
  <2> QED
    BY <2>1, <2>7, <2>8, <2>9
<1> QED
  BY <1>1, <1>4, <1>5

\* What an administrator does to an account.
LEMMA AdminTypes ==
    ASSUME TypeInv, NEW r \in Requests, Free(r), NEW u \in DOMAIN users,
           BeginRemove(r, u) \/ \E verified \in BOOLEAN : BeginUpdate(r, u, verified)
    PROVE  TypeInv'
<1>0. u \in 1..Len(users) /\ u \in Nat /\ users[u] \in UserRow
  BY RowsTyped
<1>1. CASE BeginRemove(r, u)
  <2> DEFINE q == [Idle EXCEPT !.op = "remove", !.pc = "removeUser", !.user = u]
  <2>1. q \in Request /\ q.op = "remove" /\ q.pc = "removeUser" /\ q.user = u /\ q.token = 0
        /\ q.invite = 0
    BY <1>0, IdleTyped DEF Request
  <2> HIDE DEF q
  <2>2. Holding(q, Sizes) /\ ~Inserts(q)
    BY <1>0, <2>1, RowsTyped
    DEF Holding, HoldsUser, HoldsToken, HoldsCode, WritesCode, HoldsInvite, HoldsList, HoldsOp,
        Inserts, Sizes, Size
  <2> QED
    BY <1>1, <2>2, CallKeepsTypes DEF BeginRemove, q
<1>2. ASSUME NEW verified \in BOOLEAN, BeginUpdate(r, u, verified)
      PROVE  TypeInv'
  <2> DEFINE ent == [users[u] EXCEPT !.verified = verified, !.by = "admin"]
  <2>0. ent \in UserRow
    BY <1>0 DEF UserRow
  <2> HIDE DEF ent
  <2> DEFINE q == [Idle EXCEPT !.op = "update", !.pc = "saveUser", !.user = u, !.ent = ent]
  <2>1. q \in Request /\ q.op = "update" /\ q.pc = "saveUser" /\ q.user = u /\ q.token = 0
        /\ q.invite = 0
    BY <1>0, <2>0, IdleTyped DEF Request
  <2> HIDE DEF q
  <2>2. Holding(q, Sizes) /\ ~Inserts(q)
    BY <1>0, <2>1, RowsTyped
    DEF Holding, HoldsUser, HoldsToken, HoldsCode, WritesCode, HoldsInvite, HoldsList, HoldsOp,
        Inserts, Sizes, Size
  <2> QED
    BY <1>2, <2>2, CallKeepsTypes DEF BeginUpdate, q, ent
<1> QED
  BY <1>1, <1>2

\* A row of the invitations is changed in its place.
LEMMA InviteStays ==
    ASSUME TypeInv, invites' \in Seq(InviteRow), Len(invites) <= Len(invites'),
           UNCHANGED <<users, stores, customers, refresh, codes>>
    PROVE  TablesOK' /\ TokensRefer' /\ SizesGrow /\ Len(users') = Len(users) /\ Sizes' \in Size
  BY DEF TypeInv, TablesOK, TokensRefer, SizesGrow, Sizes, Size

\* Invitations that are sent, found expired, synchronised or thrown away.
LEMMA InvitationTypes ==
    ASSUME TypeInv, NEW r \in Requests, Free(r), InvitationsController(r)
    PROVE  TypeInv'
<1>1. ASSUME NEW e \in Emails, BeginInvite(r, e)
      PROVE  TypeInv'
  <2> DEFINE q == [Idle EXCEPT !.op = "invite", !.pc = "expireOld", !.email = e]
  <2>1. q \in Request /\ q.op = "invite" /\ q.pc = "expireOld" /\ q.user = 0 /\ q.token = 0
        /\ q.invite = 0
    BY IdleTyped DEF Request
  <2> HIDE DEF q
  <2>2. Holding(q, Sizes) /\ ~Inserts(q)
    BY <2>1, RowsTyped
    DEF Holding, HoldsUser, HoldsToken, HoldsCode, WritesCode, HoldsInvite, HoldsList, HoldsOp,
        Inserts, Sizes, Size
  <2> QED
    BY <1>1, <2>2, CallKeepsTypes DEF BeginInvite, q
<1>2. ASSUME NEW k \in DOMAIN invites, ExpireInvite(r, k)
      PROVE  TypeInv'
  <2> DEFINE row == [invites[k] EXCEPT !.status = "EXPIRED"]
  <2>1. row \in InviteRow /\ k \in 1..Len(invites)
    BY RowsTyped DEF InviteRow
  <2>2. invites' = [invites EXCEPT ![k] = row]
    BY <1>2 DEF ExpireInvite
  <2> HIDE DEF row
  <2>3. invites' \in Seq(InviteRow) /\ Len(invites') = Len(invites) /\ Len(invites) \in Nat
    BY <2>1, <2>2 DEF TypeInv, TablesOK
  <2>4. TablesOK' /\ TokensRefer' /\ SizesGrow /\ Len(users') = Len(users) /\ Sizes' \in Size
    BY <1>2, <2>3, InviteStays DEF ExpireInvite
  <2>5. Holding(Idle, Sizes') /\ ~Inserts(Idle)
    BY <2>4, IdleHolds DEF Inserts
  <2> QED
    BY <1>2, <2>4, <2>5, CallTypes DEF ExpireInvite
<1>3. ASSUME NEW k \in DOMAIN invites, Resend(r, k)
      PROVE  TypeInv'
  <2>1. invites[k].email \in Emails
    BY RowsTyped DEF InviteRow
  <2> QED
    BY <1>1, <1>3, <2>1 DEF Resend
<1>4. ASSUME NEW k \in DOMAIN invites, BeginDiscard(r, k)
      PROVE  TypeInv'
  <2> DEFINE q == [Idle EXCEPT !.op = "discard", !.pc = "discard", !.invite = k]
  <2>0. k \in 1..Len(invites) /\ k \in Nat
    BY RowsTyped
  <2>1. q \in Request /\ q.op = "discard" /\ q.pc = "discard" /\ q.user = 0 /\ q.token = 0
        /\ q.invite = k
    BY <2>0, IdleTyped DEF Request
  <2> HIDE DEF q
  <2>2. Holding(q, Sizes) /\ ~Inserts(q)
    BY <2>0, <2>1, RowsTyped
    DEF Holding, HoldsUser, HoldsToken, HoldsCode, WritesCode, HoldsInvite, HoldsList, HoldsOp,
        Inserts, Sizes, Size
  <2> QED
    BY <1>4, <2>2, CallKeepsTypes DEF BeginDiscard, q
<1>5. CASE BeginSync(r)
  <2> DEFINE q == [Idle EXCEPT !.op = "sync", !.pc = "sync", !.list = ToSync]
  <2>0. ToSync \subseteq 1..Len(invites) /\ ToSync \in SUBSET Nat
    BY RowsTyped DEF ToSync
  <2>1. q \in Request /\ q.op = "sync" /\ q.pc = "sync" /\ q.user = 0 /\ q.token = 0
        /\ q.invite = 0 /\ q.list = ToSync
    BY <2>0, IdleTyped DEF Request
  <2> HIDE DEF q
  <2>2. Holding(q, Sizes) /\ ~Inserts(q)
    BY <2>0, <2>1, RowsTyped
    DEF Holding, HoldsUser, HoldsToken, HoldsCode, WritesCode, HoldsInvite, HoldsList, HoldsOp,
        Inserts, Sizes, Size
  <2> QED
    BY <1>5, <2>2, CallKeepsTypes DEF BeginSync, q
<1> QED
  BY <1>1, <1>2, <1>3, <1>4, <1>5 DEF InvitationsController

\* Every call that begins.
LEMMA BeginTypes ==
    ASSUME TypeInv, NEW r \in Requests, Begin(r)
    PROVE  TypeInv'
<1>1. Free(r)
  BY DEF Begin
<1>2. CASE AuthController(r)
  BY <1>1, <1>2, SessionTypes, RegisterTypes, CodeCallTypes DEF AuthController
<1>3. CASE InvitationsController(r)
  BY <1>1, <1>3, InvitationTypes
<1>4. CASE AdminUsersController(r)
  BY <1>1, <1>4, RegisterTypes, AdminTypes DEF AdminUsersController
<1> QED
  BY <1>2, <1>3, <1>4 DEF Begin

-----------------------------------------------------------------------------
(* Statements of a running request keep the types *)

\* login and refreshAccessToken: the user, the presented token, the new one.
LEMMA IssueTypes ==
    ASSUME TypeInv, NEW r \in Requests, FindUser(r) \/ RevokePresented(r) \/ Issue(r) \/ OpenStore(r)
    PROVE  TypeInv'
<1>0. req[r] \in Request /\ Holding(req[r], Sizes) /\ Sizes \in Size
  BY RowsTyped
<1> USE DEF Goto
<1>1. CASE FindUser(r)
  <2> DEFINE found == req[r].user # 0 /\ users[req[r].user].here
             q == IF req[r].op = "refresh" THEN [req[r] EXCEPT !.pc = "revoke"]
                  ELSE [req[r] EXCEPT !.pc = "issue", !.user = IF found THEN req[r].user ELSE 0]
  <2>1. CASE Throw(r)
    BY <1>1, <2>1, TablesSame, ReturnTypes DEF FindUser, Throw, tables
  <2>2. CASE req' = [req EXCEPT ![r] = q] /\ UNCHANGED tables
    <3>1. q \in Request /\ q.op = req[r].op /\ q.token = req[r].token /\ q.invite = req[r].invite
          /\ q.user \in {0, req[r].user} /\ q.pc = (IF req[r].op = "refresh" THEN "revoke" ELSE "issue")
      BY <1>0, ZenonT(40) DEF Request
    <3> HIDE DEF q
    <3>2. Holding(q, Sizes) /\ ~Inserts(q)
      BY <1>0, <3>1
      DEF Holding, HoldsUser, HoldsToken, HoldsCode, WritesCode, HoldsInvite, HoldsList, HoldsOp,
          Inserts, Size
    <3> QED
      BY <1>1, <2>2, <3>2, GotoKeepsTypes DEF FindUser
  <2> QED
    BY <1>1, <2>1, <2>2 DEF FindUser
<1>2. CASE RevokePresented(r)
  <2> DEFINE k == req[r].token
             row == [refresh[k] EXCEPT !.revoked = TRUE]
             q == [req[r] EXCEPT !.pc = "issue"]
  <2>1. k \in 1..Len(refresh) /\ req[r].op = "refresh"
    BY <1>0, <1>2 DEF RevokePresented, Holding, HoldsToken, Sizes, Size
  <2>2. row \in RefreshRow /\ row.user = refresh[k].user /\ row.parent = refresh[k].parent
    <3>1. refresh[k] \in RefreshRow
      BY <2>1, RowsTyped DEF TypeInv, TablesOK
    <3> QED
      BY <3>1 DEF RefreshRow
  <2>3. refresh' = [refresh EXCEPT ![k] = row]
    BY <1>2 DEF RevokePresented
  <2>4. q \in Request /\ q.op = req[r].op /\ q.token = req[r].token /\ q.invite = req[r].invite
        /\ q.user = req[r].user /\ q.pc = "issue"
    BY <1>0 DEF Request
  <2>5. req' = [req EXCEPT ![r] = q]
    BY <1>2 DEF RevokePresented
  <2> HIDE DEF k, row, q
  <2>6. refresh' \in Seq(RefreshRow) /\ Len(refresh') = Len(refresh) /\ Len(refresh) \in Nat
    BY <2>1, <2>2, <2>3 DEF TypeInv, TablesOK
  <2>7. TablesOK' /\ SizesGrow /\ Len(users') = Len(users) /\ Sizes' = Sizes
    BY <1>2, <2>6 DEF RevokePresented, TypeInv, TablesOK, SizesGrow, Sizes
  <2>8. TokensRefer'
    BY <1>2, <2>1, <2>2, <2>3, <2>6 DEF RevokePresented, TypeInv, TablesOK, TokensRefer
  <2>9. Holding(q, Sizes') /\ ~Inserts(q)
    BY <1>0, <1>2, <2>4, <2>7
    DEF RevokePresented, Holding, HoldsUser, HoldsToken, HoldsCode, WritesCode, HoldsInvite, HoldsList, HoldsOp,
        Inserts, Size
  <2> QED
    BY <1>2, <2>5, <2>7, <2>8, <2>9, GotoTypes DEF RevokePresented
<1>3. CASE Issue(r)
  <2> DEFINE row == [user |-> req[r].user, parent |-> req[r].token, revoked |-> FALSE,
                     expired |-> FALSE]
  <2>1. row \in RefreshRow /\ row.user = req[r].user /\ row.parent = req[r].token
    BY <1>0 DEF Request, RefreshRow
  <2>2. refresh' = Append(refresh, row)
    BY <1>3 DEF Issue
  <2>3. req[r].user \in 0..Len(users) /\ req[r].token \in 0..Len(refresh)
    BY <1>0 DEF Holding, HoldsUser, HoldsToken, Sizes
  <2> HIDE DEF row
  <2>4. refresh' \in Seq(RefreshRow) /\ Len(refresh') = Len(refresh) + 1 /\ Len(refresh) \in Nat
    BY <2>1, <2>2 DEF TypeInv, TablesOK
  <2>5. TablesOK' /\ SizesGrow /\ Len(users') = Len(users)
    BY <1>3, <2>4 DEF Issue, TypeInv, TablesOK, SizesGrow, Sizes
  <2>6. TokensRefer'
    <3>1. \A k \in DOMAIN refresh' : refresh'[k] = IF k <= Len(refresh) THEN refresh[k] ELSE row
      BY <2>1, <2>2 DEF TypeInv, TablesOK
    <3>2. DOMAIN refresh' = 1..Len(refresh) + 1 /\ DOMAIN refresh = 1..Len(refresh)
      BY <2>4 DEF TypeInv, TablesOK
    <3>3. \A k \in DOMAIN refresh' : /\ refresh'[k].user \in 0..Len(users)
                                     /\ refresh'[k].parent \in 0..Len(refresh) + 1
      BY <2>1, <2>3, <2>4, <3>1, <3>2 DEF TypeInv, TokensRefer
    <3> QED
      BY <1>3, <2>4, <3>3 DEF Issue, TokensRefer
  <2> QED
    BY <1>3, <2>5, <2>6, ReturnTypes DEF Issue
<1>4. CASE OpenStore(r)
  <2> DEFINE q == [req[r] EXCEPT !.pc = "issue"]
  <2>1. req[r].user \in 1..Len(users) /\ req[r].op # "refresh"
    BY <1>0, <1>4 DEF OpenStore, Holding, HoldsUser, HoldsToken, Sizes, Size
  <2>2. q \in Request /\ q.op = req[r].op /\ q.token = req[r].token /\ q.invite = req[r].invite
        /\ q.user = req[r].user /\ q.pc = "issue"
    BY <1>0 DEF Request
  <2> HIDE DEF q
  <2>3. TablesOK' /\ TokensRefer' /\ SizesGrow /\ Len(users') = Len(users) /\ Sizes' = Sizes
    BY <1>4, <2>1 DEF OpenStore, TypeInv, TablesOK, TokensRefer, SizesGrow, Sizes
  <2>4. Holding(q, Sizes') /\ ~Inserts(q)
    BY <1>0, <2>2, <2>3
    DEF Holding, HoldsUser, HoldsToken, HoldsCode, WritesCode, HoldsInvite, HoldsList, HoldsOp,
        Inserts, Size
  <2> QED
    BY <1>4, <2>3, <2>4, GotoTypes DEF OpenStore, q
<1> QED
  BY <1>1, <1>2, <1>3, <1>4

\* Rows that change in their place leave a table of the same length.
LEMMA InPlace ==
    ASSUME NEW Row, NEW s \in Seq(Row), NEW t \in [DOMAIN s -> Row]
    PROVE  t \in Seq(Row) /\ Len(t) = Len(s) /\ DOMAIN t = DOMAIN s /\ Len(s) \in Nat
<1>1. DOMAIN s = 1..Len(s) /\ Len(s) \in Nat
  OBVIOUS
<1> QED
  BY <1>1

\* So does one row that is replaced, if it is there.
LEMMA RowReplaced ==
    ASSUME NEW Row, NEW s \in Seq(Row), NEW k, NEW row, k \in DOMAIN s => row \in Row
    PROVE  /\ [s EXCEPT ![k] = row] \in Seq(Row)
           /\ Len([s EXCEPT ![k] = row]) = Len(s) /\ Len(s) \in Nat
<1> DEFINE t == [s EXCEPT ![k] = row]
<1>0. DOMAIN s = 1..Len(s) /\ s \in [1..Len(s) -> Row]
  OBVIOUS
<1>1. t \in [DOMAIN s -> Row]
  BY ONLY <1>0, k \in DOMAIN s => row \in Row
<1> HIDE DEF t
<1>2. t \in Seq(Row) /\ Len(t) = Len(s) /\ Len(s) \in Nat
  BY <1>1, InPlace
<1> QED
  BY <1>2 DEF t

\* Tables other than refresh_tokens that change in their place, or get longer.
LEMMA TablesGrow ==
    ASSUME TypeInv, UNCHANGED <<stores, refresh>>,
           users' \in Seq(UserRow), Len(users) <= Len(users'),
           customers' \in Seq(CustomerRow), Len(customers) <= Len(customers'),
           codes' \in Seq(CodeRow), Len(codes) <= Len(codes'),
           invites' \in Seq(InviteRow), Len(invites) <= Len(invites')
    PROVE  TablesOK' /\ TokensRefer' /\ SizesGrow
<1>1. 1..Len(users) \subseteq 1..Len(users') /\ 0..Len(users) \subseteq 0..Len(users')
      /\ DOMAIN users = 1..Len(users) /\ DOMAIN users' = 1..Len(users')
  BY DEF TypeInv, TablesOK
<1>2. TablesOK' /\ SizesGrow
  BY <1>1 DEF TypeInv, TablesOK, SizesGrow, Sizes
<1>3. TokensRefer'
  BY <1>1 DEF TypeInv, TokensRefer
<1> QED
  BY <1>2, <1>3

\* Tables that stay are long enough.
LEMMA TablesLong ==
    ASSUME TypeInv
    PROVE  /\ users \in Seq(UserRow) /\ Len(users) <= Len(users) /\ Len(users) \in Nat
           /\ customers \in Seq(CustomerRow) /\ Len(customers) <= Len(customers)
           /\ codes \in Seq(CodeRow) /\ Len(codes) <= Len(codes) /\ Len(codes) \in Nat
           /\ invites \in Seq(InviteRow) /\ Len(invites) <= Len(invites)
  BY DEF TypeInv, TablesOK

\* deleteMyAccount, and the removal of an account by an administrator.
LEMMA EraseTypes ==
    ASSUME TypeInv, NEW r \in Requests,
           EraseCustomer(r) \/ EraseUser(r) \/ RemoveCustomers(r) \/ RemoveUser(r) \/ RevokeAll(r)
    PROVE  TypeInv'
<1>0. req[r] \in Request /\ Holding(req[r], Sizes) /\ Sizes \in Size
  BY RowsTyped
<1> USE DEF Goto
<1>1. CASE EraseCustomer(r)
  <2>1. PICK c \in req[r].list :
          /\ customers' = [customers EXCEPT ![c].email = "gone", ![c].here = TRUE]
          /\ req' = [req EXCEPT ![r] = [req[r] EXCEPT !.list = @ \ {c},
                                  !.pc = IF req[r].list = {c} THEN "erase" ELSE @]]
    BY <1>1 DEF EraseCustomer
  <2>0. req[r].pc = "customers"
    BY <1>1 DEF EraseCustomer
  <2>2. c \in DOMAIN customers
    BY <1>0, <2>0 DEF Holding, HoldsList, Sizes, TypeInv, TablesOK
  <2> DEFINE row == [customers[c] EXCEPT !.email = "gone", !.here = TRUE]
             list == req[r].list \ {c}
             pc == IF list = {} THEN "erase" ELSE "customers"
             q == [req[r] EXCEPT !.list = list, !.pc = pc]
  <2>3. row \in CustomerRow
    BY <2>2, RowsTyped DEF CustomerRow
  <2>4. customers' = [customers EXCEPT ![c] = row]
    BY <2>1
  <2>5. customers' \in Seq(CustomerRow) /\ Len(customers') = Len(customers)
    <3> HIDE DEF row
    <3> QED
      BY <2>2, <2>3, <2>4 DEF TypeInv, TablesOK
  <2>6. req' = [req EXCEPT ![r] = q]
    <3>1. (IF req[r].list = {c} THEN "erase" ELSE req[r].pc) = pc
      BY <2>0
    <3> HIDE DEF pc
    <3> QED
      BY <2>1, <3>1
  <2>7. list \subseteq 1..Len(customers) /\ list \in SUBSET Nat /\ pc \in {"erase", "customers"}
        /\ (pc = "customers" => list # {})
    BY <1>0, <1>1 DEF EraseCustomer, Holding, HoldsList, Sizes, Request
  <2> HIDE DEF row, list, pc
  <2>8. q \in Request /\ q.op = req[r].op /\ q.token = req[r].token /\ q.invite = req[r].invite
        /\ q.user = req[r].user /\ q.pc = pc /\ q.list = list
    BY <1>0, <2>7 DEF Request
  <2> HIDE DEF q
  <2>9. TablesOK' /\ TokensRefer' /\ SizesGrow /\ Len(users') = Len(users) /\ Sizes' = Sizes
    BY <1>1, <2>5, TablesLong, TablesGrow DEF EraseCustomer, Sizes
  <2>10. Holding(q, Sizes') /\ ~Inserts(q)
    BY <1>0, <1>1, <2>7, <2>8, <2>9
    DEF EraseCustomer, Holding, HoldsUser, HoldsToken, HoldsCode, WritesCode, HoldsInvite,
        HoldsList, HoldsOp, Inserts, Size, Sizes
  <2> QED
    BY <1>1, <2>6, <2>9, <2>10, GotoTypes DEF EraseCustomer
<1>2. CASE EraseUser(r)
  <2> DEFINE u == req[r].user
             row == [req[r].ent EXCEPT !.email = "gone", !.verified = FALSE]
             q == [req[r] EXCEPT !.pc = "revokeAll"]
  <2>1. u \in DOMAIN users
    BY <1>0, <1>2 DEF EraseUser, Holding, HoldsUser, Sizes, TypeInv, TablesOK
  <2>2. row \in UserRow
    BY <1>0 DEF Request, UserRow
  <2>3. q \in Request /\ q.op = req[r].op /\ q.token = req[r].token /\ q.invite = req[r].invite
        /\ q.user = u /\ q.pc = "revokeAll"
    BY <1>0 DEF Request
  <2>4. users' = [users EXCEPT ![u] = row] /\ req' = [req EXCEPT ![r] = q]
    BY <1>2 DEF EraseUser
  <2> HIDE DEF row, q, u
  <2>5. users' \in Seq(UserRow) /\ Len(users') = Len(users)
    BY <2>1, <2>2, <2>4 DEF TypeInv, TablesOK
  <2>6. TablesOK' /\ TokensRefer' /\ SizesGrow /\ Len(users') = Len(users) /\ Sizes' = Sizes
    BY <1>2, <2>5, TablesLong, TablesGrow DEF EraseUser, Sizes
  <2>7. Holding(q, Sizes') /\ ~Inserts(q)
    BY <1>0, <1>2, <2>3, <2>6
    DEF EraseUser, Holding, HoldsUser, HoldsToken, HoldsCode, WritesCode, HoldsInvite,
        HoldsList, HoldsOp, Inserts, Size, u
  <2> QED
    BY <1>2, <2>4, <2>6, <2>7, GotoTypes DEF EraseUser
<1>3. CASE RemoveCustomers(r) /\ ~Throw(r)
  <2> DEFINE new == [c \in DOMAIN customers |->
                       IF c \in req[r].list THEN [customers[c] EXCEPT !.here = FALSE]
                       ELSE customers[c]]
             q == [req[r] EXCEPT !.pc = "removeUser"]
  <2>1. customers' = new /\ req' = [req EXCEPT ![r] = q]
    BY <1>3 DEF RemoveCustomers
  <2>2. new \in [DOMAIN customers -> CustomerRow]
    BY RowsTyped DEF CustomerRow
  <2>3. q \in Request /\ q.op = req[r].op /\ q.token = req[r].token /\ q.invite = req[r].invite
        /\ q.user = req[r].user /\ q.pc = "removeUser"
    BY <1>0 DEF Request
  <2> HIDE DEF new, q
  <2>4. customers' \in Seq(CustomerRow) /\ Len(customers') = Len(customers)
    BY <2>1, <2>2, InPlace DEF TypeInv, TablesOK
  <2>5. TablesOK' /\ TokensRefer' /\ SizesGrow /\ Len(users') = Len(users) /\ Sizes' = Sizes
    BY <1>3, <2>4, TablesLong, TablesGrow DEF RemoveCustomers, Sizes
  <2>6. Holding(q, Sizes') /\ ~Inserts(q)
    BY <1>0, <1>3, <2>3, <2>5
    DEF RemoveCustomers, Holding, HoldsUser, HoldsToken, HoldsCode, WritesCode, HoldsInvite,
        HoldsList, HoldsOp, Inserts, Size
  <2> QED
    BY <1>3, <2>1, <2>5, <2>6, GotoTypes DEF RemoveCustomers
<1>4. CASE RemoveUser(r) /\ ~Throw(r)
  <2> DEFINE u == req[r].user
             row == [users[u] EXCEPT !.here = FALSE]
             q == IF req[r].op = "delete" THEN [req[r] EXCEPT !.pc = "revokeAll"] ELSE Idle
  <2>1. u \in DOMAIN users
    BY <1>0, <1>4 DEF RemoveUser, Holding, HoldsUser, Sizes, TypeInv, TablesOK
  <2>2. row \in UserRow
    <3>1. users[u] \in UserRow
      BY <2>1, RowsTyped
    <3> QED
      BY <3>1 DEF UserRow
  <2>3. users' = [users EXCEPT ![u] = row] /\ req' = [req EXCEPT ![r] = q]
    BY <1>4 DEF RemoveUser
  <2>4. users' \in Seq(UserRow) /\ Len(users') = Len(users)
    <3> HIDE DEF row, q, u
    <3> QED
      BY <2>1, <2>2, <2>3 DEF TypeInv, TablesOK
  <2>5. TablesOK' /\ TokensRefer' /\ SizesGrow /\ Len(users') = Len(users) /\ Sizes' = Sizes
    BY <1>4, <2>4, TablesLong, TablesGrow DEF RemoveUser, Sizes
  <2>6. CASE req[r].op = "delete"
    <3>1. q \in Request /\ q.op = req[r].op /\ q.token = req[r].token /\ q.pc = "revokeAll"
          /\ q.invite = req[r].invite /\ q.user = u
      BY <1>0, <2>6 DEF Request
    <3> HIDE DEF q, u, row
    <3>2. Holding(q, Sizes') /\ ~Inserts(q)
      BY <1>0, <1>4, <2>5, <3>1
      DEF RemoveUser, Holding, HoldsUser, HoldsToken, HoldsCode, WritesCode, HoldsInvite,
          HoldsList, HoldsOp, Inserts, Size, u
    <3> QED
      BY <1>4, <2>3, <2>5, <3>2, GotoTypes DEF RemoveUser
  <2>7. CASE req[r].op # "delete"
    BY <1>4, <2>3, <2>5, <2>7, ReturnTypes DEF RemoveUser
  <2> QED
    BY <2>6, <2>7
<1>5. CASE (RemoveCustomers(r) \/ RemoveUser(r)) /\ Throw(r)
  <2>1. UNCHANGED used
    BY <1>5 DEF RemoveCustomers, RemoveUser
  <2> QED
    BY <1>5, <2>1, TablesSame, ReturnTypes DEF Throw, tables
<1>6. CASE RevokeAll(r)
  <2> DEFINE new == [k \in DOMAIN refresh |->
                     IF k \in SessionsOf(req[r].user) THEN [refresh[k] EXCEPT !.revoked = TRUE]
                     ELSE refresh[k]]
  <2>1. refresh' = new
    BY <1>6 DEF RevokeAll
  <2>2. new \in [DOMAIN refresh -> RefreshRow]
        /\ \A k \in DOMAIN refresh :
             new[k].user = refresh[k].user /\ new[k].parent = refresh[k].parent
    BY RowsTyped DEF RefreshRow
  <2> HIDE DEF new
  <2>3. refresh' \in Seq(RefreshRow) /\ Len(refresh') = Len(refresh)
        /\ DOMAIN refresh' = DOMAIN refresh /\ Len(refresh) \in Nat
    BY <2>1, <2>2, InPlace DEF TypeInv, TablesOK
  <2>4. TablesOK' /\ SizesGrow /\ Len(users') = Len(users)
    BY <1>6, <2>3 DEF RevokeAll, TypeInv, TablesOK, SizesGrow, Sizes
  <2>5. TokensRefer'
    BY <1>6, <2>1, <2>2, <2>3 DEF RevokeAll, TypeInv, TokensRefer
  <2> QED
    BY <1>6, <2>4, <2>5, ReturnTypes DEF RevokeAll
<1> QED
  BY <1>1, <1>2, <1>3, <1>4, <1>5, <1>6

\* Registrations, until user, link and customer are committed or taken back.
LEMMA RegistrationTypes ==
    ASSUME TypeInv, NEW r \in Requests,
           InsertUser(r) \/ Deactivate(r) \/ CommitUser(r) \/ SendLink(r) \/ Undo(r)
    PROVE  TypeInv'
<1>0. req[r] \in Request /\ Holding(req[r], Sizes) /\ Sizes \in Size
  BY RowsTyped
<1> USE DEF Goto
<1>1. CASE InsertUser(r) /\ Throw(r)
  <2>1. UNCHANGED used
    BY <1>1 DEF InsertUser
  <2> QED
    BY <1>1, <2>1, TablesSame, ReturnTypes DEF Throw, tables
<1>2. CASE InsertUser(r) /\ ~Throw(r)
  <2> DEFINE q == [req[r] EXCEPT !.pc = IF req[r].op = "invited" THEN "commit" ELSE "deactivate"]
  <2>1. q \in Request /\ q.op = req[r].op /\ q.token = req[r].token /\ q.invite = req[r].invite
        /\ q.user = req[r].user
        /\ q.pc = (IF req[r].op = "invited" THEN "commit" ELSE "deactivate")
    BY <1>0 DEF Request
  <2>2. req' = [req EXCEPT ![r] = q] /\ UNCHANGED <<tables, used>>
    BY <1>2 DEF InsertUser
  <2> HIDE DEF q
  <2>3. Holding(q, Sizes) /\ Inserts(req[r])
    BY <1>0, <1>2, <2>1
    DEF InsertUser, Holding, HoldsUser, HoldsToken, HoldsCode, WritesCode, HoldsInvite,
        HoldsList, HoldsOp, Inserts, Size, Registering
  <2> QED
    BY <2>2, <2>3, GotoKeepsTypes
<1>3. CASE Deactivate(r)
  <2> DEFINE new == [k \in DOMAIN codes |->
              IF Live(k) /\ codes[k].email = req[r].email /\ codes[k].purpose = PurposeOf(req[r])
              THEN [codes[k] EXCEPT !.active = FALSE] ELSE codes[k]]
             q == [req[r] EXCEPT !.pc = IF req[r].op = "recover" THEN "insertCode" ELSE "commit"]
  <2>1. codes' = new /\ req' = [req EXCEPT ![r] = q]
    BY <1>3 DEF Deactivate
  <2>2. new \in [DOMAIN codes -> CodeRow]
    <3>1. ASSUME NEW k \in DOMAIN codes
          PROVE  codes[k] \in CodeRow /\ [codes[k] EXCEPT !.active = FALSE] \in CodeRow
      <4>1. codes[k] \in CodeRow
        BY RowsTyped
      <4> QED
        BY <4>1 DEF CodeRow
    <3> QED
      BY <3>1
  <2>3. q \in Request /\ q.op = req[r].op /\ q.token = req[r].token /\ q.invite = req[r].invite
        /\ q.user = req[r].user
        /\ q.pc = (IF req[r].op = "recover" THEN "insertCode" ELSE "commit")
    BY <1>0 DEF Request
  <2> HIDE DEF new, q
  <2>4. codes' \in Seq(CodeRow) /\ Len(codes') = Len(codes)
    BY <2>1, <2>2, InPlace DEF TypeInv, TablesOK
  <2>5. TablesOK' /\ TokensRefer' /\ SizesGrow /\ Len(users') = Len(users) /\ Sizes' = Sizes
    BY <1>3, <2>4, TablesLong, TablesGrow DEF Deactivate, Sizes
  <2>6. Holding(q, Sizes') /\ (Inserts(q) => Inserts(req[r]))
    BY <1>0, <1>3, <2>3, <2>5
    DEF Deactivate, Holding, HoldsUser, HoldsToken, HoldsCode, WritesCode, HoldsInvite,
        HoldsList, HoldsOp, Inserts, Size, Registering
  <2> QED
    BY <1>3, <2>1, <2>5, <2>6, GotoTypes DEF Deactivate
<1>4. CASE CommitUser(r)
  <2> DEFINE invited == req[r].op = "invited"
             u == Len(users) + 1
             pc == IF invited THEN "accept" ELSE "mail"
             code == IF invited THEN 0 ELSE Len(codes) + 1
             user == NewUser(req[r].email, invited, IF invited THEN "invite" ELSE req[r].op,
                             req[r].invite)
             link == NewCode(req[r].email, "verification")
             customer == [here |-> TRUE, email |-> req[r].email, user |-> u, orders |-> FALSE]
             q == [req[r] EXCEPT !.user = u, !.pc = pc, !.code = code]
  <2>0. req[r].op \in Registering /\ Inserts(req[r])
        /\ (invited => req[r].invite # 0)
    BY <1>0, <1>4 DEF CommitUser, Holding, HoldsOp, HoldsInvite, Inserts
  <2>1. user \in UserRow /\ link \in CodeRow /\ customer \in CustomerRow
    BY <1>0, <2>0, AccountsAssumption, TablesLong, SMTT(40)
    DEF Request, Registering, NewUser, UserRow, NewCode, CodeRow, CustomerRow
  <2>2. /\ users' = Append(users, user)
        /\ codes' = IF invited THEN codes ELSE Append(codes, link)
        /\ customers' = IF req[r].op = "register" THEN customers ELSE Append(customers, customer)
        /\ req' = [req EXCEPT ![r] = q] /\ UNCHANGED <<stores, refresh, invites, used>>
    BY <1>4 DEF CommitUser
  <2>3. u \in Nat /\ code \in Nat /\ u = Len(users) + 1
        /\ (~invited => code = Len(codes) + 1) /\ pc \in {"accept", "mail"}
        /\ (pc = "accept" <=> invited)
    BY TablesLong
  <2> HIDE DEF user, link, customer, u, code, pc
  <2>4. q \in Request /\ q.op = req[r].op /\ q.token = req[r].token /\ q.invite = req[r].invite
        /\ q.user = u /\ q.pc = pc /\ q.code = code
    BY <1>0, <2>3 DEF Request
  <2> HIDE DEF q
  <2>5. users' \in Seq(UserRow) /\ Len(users') = Len(users) + 1
    BY <2>1, <2>2 DEF TypeInv, TablesOK
  <2>6. codes' \in Seq(CodeRow) /\ (invited => Len(codes') = Len(codes))
        /\ (~invited => Len(codes') = Len(codes) + 1)
    BY <2>1, <2>2 DEF TypeInv, TablesOK
  <2>7. customers' \in Seq(CustomerRow) /\ Len(customers) <= Len(customers')
    BY <2>1, <2>2 DEF TypeInv, TablesOK
  <2>8. TablesOK' /\ TokensRefer' /\ SizesGrow
    BY <2>2, <2>5, <2>6, <2>7, TablesLong, TablesGrow
  <2>9. /\ Sizes'.users = Sizes.users + 1 /\ Sizes.users = Len(users)
        /\ Sizes.codes = Len(codes) /\ Sizes'.codes = Len(codes')
        /\ Sizes'.refresh = Sizes.refresh /\ Sizes'.invites = Sizes.invites
    BY <2>2, <2>5 DEF Sizes
  <2>10. Holding(q, Sizes') /\ ~Inserts(q)
    <3>1. q.pc \in {"accept", "mail"} /\ (q.pc = "accept" => req[r].invite # 0)
          /\ (q.pc = "mail" => req[r].op \in {"register", "customer"})
          /\ req[r].pc = "commit" /\ req[r].op \in Registering
      BY <1>4, <2>0, <2>3, <2>4 DEF CommitUser, Registering
    <3>2. HoldsUser(q, Sizes')
      BY <2>3, <2>4, <2>9, TablesLong DEF HoldsUser
    <3>3. HoldsCode(q, Sizes')
      BY <2>3, <2>4, <2>6, <2>9, <3>1, TablesLong DEF HoldsCode, WritesCode
    <3>4. HoldsToken(q, Sizes') /\ HoldsInvite(q, Sizes')
      BY <1>0, <2>4, <2>9, <3>1 DEF Holding, HoldsToken, HoldsInvite, Registering
    <3>5. HoldsList(q, Sizes') /\ HoldsOp(q) /\ ~Inserts(q)
      BY <2>4, <3>1 DEF HoldsList, HoldsOp, Inserts
    <3> QED
      BY <2>4, <3>2, <3>3, <3>4, <3>5 DEF Holding
  <2> QED
    BY <2>0, <2>2, <2>5, <2>8, <2>10, GotoTypes
<1>5. CASE SendLink(r)
  <2> DEFINE k == req[r].code
             row == [codes[k] EXCEPT !.mailed = TRUE]
  <2>0. k \in DOMAIN codes /\ req[r].op \in {"register", "customer"} /\ req[r].user # 0
    BY <1>0, <1>5 DEF SendLink, Holding, HoldsUser, HoldsCode, HoldsOp, Sizes, TypeInv, TablesOK
  <2>1. CASE codes' = [codes EXCEPT ![k].mailed = TRUE] /\ Goto(r, Idle)
    <3>1. row \in CodeRow
      <4>1. codes[k] \in CodeRow
        BY <2>0, RowsTyped
      <4> QED
        BY <4>1 DEF CodeRow
    <3>2. codes' = [codes EXCEPT ![k] = row]
      BY <2>1
    <3> HIDE DEF row, k
    <3>3. codes' \in Seq(CodeRow) /\ Len(codes') = Len(codes)
      BY <2>0, <3>1, <3>2 DEF TypeInv, TablesOK
    <3>4. TablesOK' /\ TokensRefer' /\ SizesGrow /\ Len(users') = Len(users)
      BY <1>5, <3>3, TablesLong, TablesGrow DEF SendLink
    <3> QED
      BY <1>5, <2>1, <3>4, ReturnTypes DEF SendLink
  <2>2. CASE Goto(r, AfterFailedMail(req[r])) /\ UNCHANGED codes
    <3> DEFINE q == [req[r] EXCEPT !.pc = "undo"]
    <3>1. q \in Request /\ q.op = req[r].op /\ q.token = req[r].token /\ q.invite = req[r].invite
          /\ q.user = req[r].user /\ q.pc = "undo"
      BY <1>0 DEF Request
    <3> HIDE DEF q
    <3>2. Holding(q, Sizes) /\ ~Inserts(q)
      BY <1>0, <2>0, <3>1
      DEF Holding, HoldsUser, HoldsToken, HoldsCode, WritesCode, HoldsInvite,
          HoldsList, HoldsOp, Inserts, Size
    <3>3. UNCHANGED <<tables, used>>
      BY <1>5, <2>2 DEF SendLink, tables
    <3>4. CASE AfterFailedMail(req[r]) = q
      BY <2>2, <3>2, <3>3, <3>4, GotoKeepsTypes
    <3>5. CASE AfterFailedMail(req[r]) = Idle
      BY <2>2, <3>3, <3>5, TablesSame, ReturnTypes DEF tables
    <3> QED
      BY <3>4, <3>5 DEF AfterFailedMail, q
  <2> QED
    BY <1>5, <2>1, <2>2 DEF SendLink
<1>6. CASE Undo(r)
  <2> DEFINE buyers == [c \in DOMAIN customers |->
                IF customers[c].user = req[r].user THEN [customers[c] EXCEPT !.here = FALSE]
                ELSE customers[c]]
             links == [k \in DOMAIN codes |->
                IF codes[k].email = req[r].email /\ codes[k].purpose = "verification"
                THEN [codes[k] EXCEPT !.here = FALSE] ELSE codes[k]]
             u == req[r].user
             row == [users[u] EXCEPT !.here = FALSE]
  <2>1. /\ users' = [users EXCEPT ![u] = row] /\ customers' = buyers /\ codes' = links
        /\ req' = [req EXCEPT ![r] = Idle]
    BY <1>6 DEF Undo
  <2>2. u \in DOMAIN users
    BY <1>0, <1>6 DEF Undo, Holding, HoldsUser, Sizes, TypeInv, TablesOK
  <2>3. row \in UserRow
    <3>1. users[u] \in UserRow
      BY <2>2, RowsTyped
    <3> QED
      BY <3>1 DEF UserRow
  <2>4. buyers \in [DOMAIN customers -> CustomerRow]
    BY RowsTyped DEF CustomerRow
  <2>5. links \in [DOMAIN codes -> CodeRow]
    <3>1. ASSUME NEW k \in DOMAIN codes
          PROVE  codes[k] \in CodeRow /\ [codes[k] EXCEPT !.here = FALSE] \in CodeRow
      <4>1. codes[k] \in CodeRow
        BY RowsTyped
      <4> QED
        BY <4>1 DEF CodeRow
    <3> QED
      BY <3>1
  <2> HIDE DEF buyers, links, row, u
  <2>6. users' \in Seq(UserRow) /\ Len(users') = Len(users)
    BY <2>1, <2>2, <2>3 DEF TypeInv, TablesOK
  <2>7. /\ customers' \in Seq(CustomerRow) /\ Len(customers') = Len(customers)
        /\ codes' \in Seq(CodeRow) /\ Len(codes') = Len(codes)
    BY <2>1, <2>4, <2>5, InPlace DEF TypeInv, TablesOK
  <2>8. TablesOK' /\ TokensRefer' /\ SizesGrow
    BY <1>6, <2>6, <2>7, TablesLong, TablesGrow DEF Undo
  <2> QED
    BY <1>6, <2>1, <2>6, <2>8, ReturnTypes DEF Undo
<1> QED
  BY <1>1, <1>2, <1>3, <1>4, <1>5, <1>6

\* Users and codes that are saved or inserted.
LEMMA SaveTypes ==
    ASSUME TypeInv, NEW r \in Requests,
           SaveUser(r) \/ SaveCode(r) \/ InsertCode(r) \/ InsertVerified(r)
    PROVE  TypeInv'
<1>0. req[r] \in Request /\ Holding(req[r], Sizes) /\ Sizes \in Size
  BY RowsTyped
<1> USE DEF Goto
<1>1. CASE SaveUser(r) /\ Throw(r)
  <2>1. UNCHANGED used
    BY <1>1 DEF SaveUser
  <2> QED
    BY <1>1, <2>1, TablesSame, ReturnTypes DEF Throw, tables
<1>2. CASE SaveUser(r) /\ ~Throw(r)
  <2> DEFINE u == req[r].user
             k == req[r].code
             row == [codes[k] EXCEPT !.resets = codes[k].resets + 1]
             q == IF req[r].op = "update" THEN Idle ELSE [req[r] EXCEPT !.pc = "saveCode"]
  <2>0. req[r].pc = "saveUser"
    BY <1>2 DEF SaveUser
  <2>1. u \in DOMAIN users /\ (req[r].op # "update" => k \in DOMAIN codes)
    BY <1>0, <2>0 DEF Holding, HoldsUser, HoldsCode, WritesCode, Sizes, TypeInv, TablesOK
  <2>2. /\ users' = [users EXCEPT ![u] = req[r].ent]
        /\ codes' = IF req[r].op = "reset" THEN [codes EXCEPT ![k].resets = @ + 1] ELSE codes
        /\ req' = [req EXCEPT ![r] = q] /\ UNCHANGED <<stores, customers, refresh, invites, used>>
    BY <1>2 DEF SaveUser
  <2>3. users' \in Seq(UserRow) /\ Len(users') = Len(users)
    BY <1>0, <2>1, <2>2 DEF TypeInv, TablesOK, Request
  <2>4. codes' \in Seq(CodeRow) /\ Len(codes') = Len(codes)
    <3>1. CASE req[r].op = "reset"
      <4>1. codes[k] \in CodeRow
        BY <2>1, <3>1, RowsTyped
      <4>2. row \in CodeRow
        BY <4>1 DEF CodeRow
      <4>3. codes' = [codes EXCEPT ![k] = row]
        BY <2>2, <3>1
      <4> HIDE DEF row, k
      <4> QED
        BY <2>1, <3>1, <4>2, <4>3 DEF TypeInv, TablesOK
    <3> QED
      BY <2>2, <3>1, TablesLong
  <2>5. TablesOK' /\ TokensRefer' /\ SizesGrow /\ Sizes' = Sizes
    BY <2>2, <2>3, <2>4, TablesLong, TablesGrow DEF Sizes
  <2>6. CASE req[r].op = "update"
    BY <2>2, <2>3, <2>5, <2>6, ReturnTypes
  <2>7. CASE req[r].op # "update"
    <3>1. q \in Request /\ q.op = req[r].op /\ q.token = req[r].token /\ q.pc = "saveCode"
          /\ q.invite = req[r].invite /\ q.user = u /\ q.code = k
      BY <1>0, <2>7 DEF Request
    <3> HIDE DEF q, row, u, k
    <3>2. Holding(q, Sizes') /\ ~Inserts(q)
      BY <1>0, <2>0, <2>5, <2>7, <3>1
      DEF Holding, HoldsUser, HoldsToken, HoldsCode, WritesCode, HoldsInvite,
          HoldsList, HoldsOp, Inserts, Size, u, k
    <3> QED
      BY <2>2, <2>3, <2>5, <3>2, GotoTypes
  <2> QED
    BY <2>6, <2>7
<1>3. CASE SaveCode(r)
  <2> DEFINE k == req[r].code
             more == IF req[r].op = "wrong" THEN 1 ELSE 0
             row == [req[r].row EXCEPT !.mailed = codes[k].mailed, !.resets = codes[k].resets,
                       !.tried = codes[k].tried + more]
  <2>1. k \in DOMAIN codes
    BY <1>0, <1>3 DEF SaveCode, Holding, HoldsCode, WritesCode, Sizes, TypeInv, TablesOK
  <2>2. row \in CodeRow
    <3>1. codes[k] \in CodeRow
      BY <2>1, RowsTyped
    <3>2. codes[k].tried + more \in Nat /\ codes[k].mailed \in BOOLEAN /\ codes[k].resets \in Nat
      BY <3>1 DEF CodeRow
    <3> HIDE DEF more
    <3> QED
      BY <1>0, <3>2 DEF Request, CodeRow
  <2>3. codes' = [codes EXCEPT ![k] = row] /\ req' = [req EXCEPT ![r] = Idle]
    BY <1>3 DEF SaveCode
  <2> HIDE DEF row, k
  <2>4. codes' \in Seq(CodeRow) /\ Len(codes') = Len(codes)
    BY <2>1, <2>2, <2>3 DEF TypeInv, TablesOK
  <2>5. TablesOK' /\ TokensRefer' /\ SizesGrow /\ Len(users') = Len(users)
    BY <1>3, <2>4, TablesLong, TablesGrow DEF SaveCode
  <2> QED
    BY <1>3, <2>3, <2>5, ReturnTypes DEF SaveCode
<1>4. CASE InsertCode(r)
  <2> DEFINE row == NewCode(req[r].email, "recovery")
  <2>1. row \in CodeRow
    BY <1>0, AccountsAssumption DEF Request, NewCode, CodeRow
  <2>2. codes' = Append(codes, row)
    BY <1>4 DEF InsertCode
  <2> HIDE DEF row
  <2>3. codes' \in Seq(CodeRow) /\ Len(codes) <= Len(codes')
    BY <2>1, <2>2 DEF TypeInv, TablesOK
  <2>4. TablesOK' /\ TokensRefer' /\ SizesGrow /\ Len(users') = Len(users)
    BY <1>4, <2>3, TablesLong, TablesGrow DEF InsertCode
  <2> QED
    BY <1>4, <2>4, ReturnTypes DEF InsertCode
<1>5. CASE InsertVerified(r)
  <2>1. CASE Taken(req[r].email)
    BY <1>5, <2>1, TablesSame, ReturnTypes DEF InsertVerified, tables
  <2>2. CASE ~Taken(req[r].email)
    <3>1. users' = Append(users, req[r].ent) /\ req[r].ent \in UserRow /\ Inserts(req[r])
      BY <1>0, <1>5, <2>2 DEF InsertVerified, Request, Inserts
    <3>2. users' \in Seq(UserRow) /\ Len(users') = Len(users) + 1 /\ Len(users) \in Nat
      BY <3>1 DEF TypeInv, TablesOK
    <3>3. TablesOK' /\ TokensRefer' /\ SizesGrow
      BY <1>5, <3>2, TablesLong, TablesGrow DEF InsertVerified
    <3>4. Sizes' \in Size
      BY <3>3 DEF TablesOK, Sizes, Size
    <3>5. Holding(Idle, Sizes') /\ ~Inserts(Idle)
      BY <3>4, IdleHolds DEF Inserts
    <3> QED
      BY <1>5, <3>1, <3>2, <3>3, <3>5, GotoTypes DEF InsertVerified
  <2> QED
    BY <2>1, <2>2
<1> QED
  BY <1>1, <1>2, <1>3, <1>4, <1>5

\* Statements that write invitations.
LEMMA InviteRunTypes ==
    ASSUME TypeInv, NEW r \in Requests,
           MarkAccepted(r) \/ ExpireOld(r) \/ InsertInvite(r) \/ Sync(r) \/ Discard(r)
    PROVE  TypeInv'
<1>0. req[r] \in Request /\ Holding(req[r], Sizes) /\ Sizes \in Size
  BY RowsTyped
<1> USE DEF Goto
<1>a. ASSUME NEW k \in DOMAIN invites
      PROVE  /\ invites[k] \in InviteRow /\ [invites[k] EXCEPT !.here = FALSE] \in InviteRow
             /\ \A status \in {"PENDING", "ACCEPTED", "EXPIRED"} :
                  [invites[k] EXCEPT !.status = status] \in InviteRow
  <2>1. invites[k] \in InviteRow
    BY RowsTyped
  <2> QED
    BY <2>1 DEF InviteRow
<1>1. CASE MarkAccepted(r)
  <2> DEFINE k == req[r].invite
             status == IF IsPending(k) THEN "ACCEPTED" ELSE invites[k].status
             row == [invites[k] EXCEPT !.status = status]
             q == [req[r] EXCEPT !.pc = "store"]
  <2>0. req[r].pc = "accept"
    BY <1>1 DEF MarkAccepted
  <2>1. k \in DOMAIN invites \/ k = 0
    BY <1>0 DEF Holding, HoldsInvite, Sizes, TypeInv, TablesOK
  <2>2. invites' = [invites EXCEPT ![k] = row] /\ req' = [req EXCEPT ![r] = q]
    BY <1>1 DEF MarkAccepted
  <2>3. k \in DOMAIN invites => row \in InviteRow
    <3>1. k \in DOMAIN invites => status \in {"PENDING", "ACCEPTED", "EXPIRED"}
      BY <1>a DEF InviteRow
    <3> HIDE DEF status, k
    <3> QED
      BY <1>a, <3>1
  <2>4. q \in Request /\ q.op = req[r].op /\ q.token = req[r].token /\ q.pc = "store"
        /\ q.invite = req[r].invite /\ q.user = req[r].user
    BY <1>0 DEF Request
  <2> HIDE DEF k, row, q
  <2>5. invites' \in Seq(InviteRow) /\ Len(invites') = Len(invites)
    <3>1. invites \in Seq(InviteRow)
      BY TablesLong
    <3>2. [invites EXCEPT ![k] = row] \in Seq(InviteRow)
          /\ Len([invites EXCEPT ![k] = row]) = Len(invites)
      BY ONLY <2>3, <3>1, RowReplaced
    <3> QED
      BY ONLY <2>2, <3>2
  <2>6. TablesOK' /\ TokensRefer' /\ SizesGrow /\ Len(users') = Len(users) /\ Sizes' = Sizes
    BY <1>1, <2>5, TablesLong, TablesGrow DEF MarkAccepted, Sizes
  <2>7. Holding(q, Sizes') /\ ~Inserts(q)
    BY <1>0, <2>0, <2>4, <2>6
    DEF Holding, HoldsUser, HoldsToken, HoldsCode, WritesCode, HoldsInvite,
        HoldsList, HoldsOp, Inserts, Size
  <2> QED
    BY <1>1, <2>2, <2>6, <2>7, GotoTypes DEF MarkAccepted
<1>2. CASE ExpireOld(r)
  <2> DEFINE new == [k \in DOMAIN invites |->
              IF k \in OldPending(req[r].email) THEN [invites[k] EXCEPT !.status = "EXPIRED"]
              ELSE invites[k]]
             q == [req[r] EXCEPT !.pc = "insertInvite"]
  <2>0. req[r].pc = "expireOld" /\ invites' = new /\ req' = [req EXCEPT ![r] = q]
    BY <1>2 DEF ExpireOld
  <2>1. new \in [DOMAIN invites -> InviteRow]
    BY <1>a
  <2>2. q \in Request /\ q.op = req[r].op /\ q.token = req[r].token /\ q.pc = "insertInvite"
        /\ q.invite = req[r].invite /\ q.user = req[r].user
    BY <1>0 DEF Request
  <2> HIDE DEF new, q
  <2>3. invites' \in Seq(InviteRow) /\ Len(invites') = Len(invites)
    BY <2>0, <2>1, InPlace DEF TypeInv, TablesOK
  <2>4. TablesOK' /\ TokensRefer' /\ SizesGrow /\ Len(users') = Len(users) /\ Sizes' = Sizes
    BY <1>2, <2>3, TablesLong, TablesGrow DEF ExpireOld, Sizes
  <2>5. Holding(q, Sizes') /\ ~Inserts(q)
    BY <1>0, <2>0, <2>2, <2>4
    DEF Holding, HoldsUser, HoldsToken, HoldsCode, WritesCode, HoldsInvite,
        HoldsList, HoldsOp, Inserts, Size
  <2> QED
    BY <1>2, <2>0, <2>4, <2>5, GotoTypes DEF ExpireOld
<1>3. CASE InsertInvite(r)
  <2> DEFINE row == NewInvite(req[r].email)
  <2>1. row \in InviteRow /\ invites' = Append(invites, row)
    BY <1>0, <1>3 DEF InsertInvite, Request, NewInvite, InviteRow
  <2> HIDE DEF row
  <2>2. invites' \in Seq(InviteRow) /\ Len(invites) <= Len(invites')
    BY <2>1 DEF TypeInv, TablesOK
  <2>3. TablesOK' /\ TokensRefer' /\ SizesGrow /\ Len(users') = Len(users)
    BY <1>3, <2>2, TablesLong, TablesGrow DEF InsertInvite
  <2> QED
    BY <1>3, <2>3, ReturnTypes DEF InsertInvite
<1>4. CASE Sync(r)
  <2> DEFINE new == [k \in DOMAIN invites |->
          IF k \in req[r].list THEN [invites[k] EXCEPT !.status = "ACCEPTED"] ELSE invites[k]]
  <2>1. new \in [DOMAIN invites -> InviteRow] /\ invites' = new
    BY <1>a, <1>4 DEF Sync
  <2> HIDE DEF new
  <2>2. invites' \in Seq(InviteRow) /\ Len(invites) <= Len(invites')
    BY <2>1, InPlace DEF TypeInv, TablesOK
  <2>3. TablesOK' /\ TokensRefer' /\ SizesGrow /\ Len(users') = Len(users)
    BY <1>4, <2>2, TablesLong, TablesGrow DEF Sync
  <2> QED
    BY <1>4, <2>3, ReturnTypes DEF Sync
<1>5. CASE Discard(r)
  <2> DEFINE k == req[r].invite
             row == [invites[k] EXCEPT !.here = FALSE]
  <2>0. req[r].pc = "discard" /\ invites' = [invites EXCEPT ![k] = row]
    BY <1>5 DEF Discard
  <2>1. k \in DOMAIN invites
    BY <1>0, <2>0 DEF Holding, HoldsInvite, Sizes, TypeInv, TablesOK
  <2>2. row \in InviteRow
    BY <1>a, <2>1
  <2> HIDE DEF k, row
  <2>3. invites' \in Seq(InviteRow) /\ Len(invites) <= Len(invites')
    BY <2>0, <2>1, <2>2 DEF TypeInv, TablesOK
  <2>4. TablesOK' /\ TokensRefer' /\ SizesGrow /\ Len(users') = Len(users)
    BY <1>5, <2>3, TablesLong, TablesGrow DEF Discard
  <2> QED
    BY <1>5, <2>4, ReturnTypes DEF Discard
<1> QED
  BY <1>1, <1>2, <1>3, <1>4, <1>5

\* Every statement of a running request.
LEMMA RunTypes ==
    ASSUME TypeInv, NEW r \in Requests, Run(r)
    PROVE  TypeInv'
  BY IssueTypes, EraseTypes, RegistrationTypes, SaveTypes, InviteRunTypes DEF Run

\* A request that dies.
LEMMA DieTypes ==
    ASSUME TypeInv, NEW r \in Requests, Die(r)
    PROVE  TypeInv'
<1>1. TablesOK' /\ TokensRefer' /\ Sizes' = Sizes /\ SizesGrow /\ Len(users') = Len(users)
  BY TablesSame DEF Die, Throw, tables
<1>2. Holding(Idle, Sizes') /\ ~Inserts(Idle)
  BY <1>1, RowsTyped, IdleHolds DEF Inserts
<1>3. req' = [req EXCEPT ![r] = Idle]
  BY DEF Die, Throw, Goto
<1>4. RequestsHold' /\ Room'
  BY <1>1, <1>2, <1>3, GoesOn, RoomStays
<1>5. UsedOK'
  <2>1. /\ used.calls \in 0..MaxCalls /\ used.overlaps \in 0..MaxOverlaps
        /\ used.faults \in 0..MaxFaults /\ used.lapses \in 0..MaxLapses
    BY DEF TypeInv, UsedOK
  <2>2. used.faults + 1 \in 0..MaxFaults
    BY <2>1, AccountsAssumption DEF Die
  <2>3. used' = [used EXCEPT !.faults = used.faults + 1]
    BY DEF Die
  <2> QED
    BY <2>1, <2>2, <2>3 DEF TypeInv, UsedOK
<1> QED
  BY <1>1, <1>4, <1>5 DEF TypeInv

\* A token or an invitation expires.
LEMMA LapseTypes ==
    ASSUME TypeInv, Lapse
    PROVE  TypeInv'
<1>1. UsedOK'
  <2>1. /\ used.calls \in 0..MaxCalls /\ used.overlaps \in 0..MaxOverlaps
        /\ used.faults \in 0..MaxFaults /\ used.lapses \in 0..MaxLapses
    BY DEF TypeInv, UsedOK
  <2>2. used.lapses + 1 \in 0..MaxLapses
    BY <2>1, AccountsAssumption DEF Lapse
  <2>3. used' = [used EXCEPT !.lapses = used.lapses + 1]
    BY DEF Lapse
  <2> QED
    BY <2>1, <2>2, <2>3 DEF TypeInv, UsedOK
<1>2. TablesOK' /\ TokensRefer' /\ Sizes' = Sizes
  <2>1. ASSUME NEW k \in DOMAIN refresh, refresh' = [refresh EXCEPT ![k].expired = TRUE],
               UNCHANGED <<codes, invites>>
        PROVE  TablesOK' /\ TokensRefer' /\ Sizes' = Sizes
    <3> DEFINE row == [refresh[k] EXCEPT !.expired = TRUE]
    <3>1. refresh[k] \in RefreshRow /\ refresh' = [refresh EXCEPT ![k] = row]
      BY <2>1, RowsTyped
    <3>2. row \in RefreshRow /\ row.user = refresh[k].user /\ row.parent = refresh[k].parent
      BY <3>1 DEF RefreshRow
    <3> HIDE DEF row
    <3>3. refresh' \in Seq(RefreshRow) /\ Len(refresh') = Len(refresh)
      BY <3>1, <3>2, RowReplaced DEF TypeInv, TablesOK
    <3>4. TablesOK' /\ Sizes' = Sizes
      BY <2>1, <3>3 DEF Lapse, TypeInv, TablesOK, Sizes
    <3>5. TokensRefer'
      BY <2>1, <3>1, <3>2, <3>3 DEF Lapse, TypeInv, TablesOK, TokensRefer
    <3> QED
      BY <3>4, <3>5
  <2>2. ASSUME NEW k \in DOMAIN codes, codes' = [codes EXCEPT ![k].expired = TRUE],
               UNCHANGED <<refresh, invites>>
        PROVE  TablesOK' /\ TokensRefer' /\ Sizes' = Sizes
    <3> DEFINE row == [codes[k] EXCEPT !.expired = TRUE]
    <3>1. codes[k] \in CodeRow /\ codes' = [codes EXCEPT ![k] = row]
      BY <2>2, RowsTyped
    <3>2. row \in CodeRow
      BY <3>1 DEF CodeRow
    <3> HIDE DEF row
    <3>3. codes' \in Seq(CodeRow) /\ Len(codes') = Len(codes)
      BY <3>1, <3>2, RowReplaced DEF TypeInv, TablesOK
    <3> QED
      BY <2>2, <3>3, TablesLong, TablesGrow DEF Lapse, Sizes
  <2>3. ASSUME NEW k \in DOMAIN invites, invites' = [invites EXCEPT ![k].expired = TRUE],
               UNCHANGED <<refresh, codes>>
        PROVE  TablesOK' /\ TokensRefer' /\ Sizes' = Sizes
    <3> DEFINE row == [invites[k] EXCEPT !.expired = TRUE]
    <3>1. invites[k] \in InviteRow /\ invites' = [invites EXCEPT ![k] = row]
      BY <2>3, RowsTyped
    <3>2. row \in InviteRow
      BY <3>1 DEF InviteRow
    <3> HIDE DEF row
    <3>3. invites' \in Seq(InviteRow) /\ Len(invites') = Len(invites)
      BY <3>1, <3>2, RowReplaced DEF TypeInv, TablesOK
    <3> QED
      BY <2>3, <3>3, TablesLong, TablesGrow DEF Lapse, Sizes
  <2> QED
    BY <2>1, <2>2, <2>3 DEF Lapse
<1>3. RequestsHold' /\ Room'
  BY <1>2 DEF Lapse, TypeInv, RequestsHold, Room, Inserters
<1> QED
  BY <1>1, <1>2, <1>3 DEF TypeInv

\* The first state.
LEMMA InitTypes ==
    ASSUME Init
    PROVE  TypeInv
<1> DEFINE user == NewUser(Known, TRUE, "customer", 0)
           code == [NewCode(Known, "recovery") EXCEPT !.mailed = TRUE]
           invite == NewInvite(Invited)
           token == [user |-> 1, parent |-> 0, revoked |-> FALSE, expired |-> FALSE]
<1>0. Known \in Emails /\ Invited \in Emails /\ MaxAttempts \in Nat /\ 0 \in 0..MaxAttempts
  BY AccountsAssumption
<1>1. user \in UserRow
  BY <1>0 DEF NewUser, UserRow
<1>2. code \in CodeRow
  BY <1>0 DEF NewCode, CodeRow
<1>3. invite \in InviteRow
  BY <1>0 DEF NewInvite, InviteRow
<1>4. token \in RefreshRow /\ token.user = 1 /\ token.parent = 0
  BY DEF RefreshRow
<1>5. /\ users = <<user>> /\ stores = {} /\ codes = <<code>> /\ invites = <<invite>>
      /\ refresh = <<token>>
  BY DEF Init
<1>6. customers \in Seq(CustomerRow)
  BY <1>0 DEF Init, CustomerRow
<1> HIDE DEF user, code, invite, token
<1>7. users \in Seq(UserRow) /\ Len(users) = 1 /\ stores \subseteq DOMAIN users
  BY <1>1, <1>5
<1>8. codes \in Seq(CodeRow) /\ invites \in Seq(InviteRow) /\ refresh \in Seq(RefreshRow)
  BY <1>2, <1>3, <1>4, <1>5
<1>9. TablesOK /\ TokensRefer
  BY <1>4, <1>5, <1>6, <1>7, <1>8 DEF TablesOK, TokensRefer
<1>10. UsedOK
  BY AccountsAssumption DEF Init, UsedOK
<1>11. req \in [Requests -> Request] /\ \A r \in Requests : req[r] = Idle
  BY IdleTyped DEF Init
<1>12. RequestsHold
  BY <1>9, <1>11, SizesType, IdleHolds DEF RequestsHold
<1>13. Room
  <2>1. ~Inserts(Idle)
    BY DEF Inserts, Idle
  <2>2. Inserters = {}
    BY <1>11, <2>1 DEF Inserters
  <2> QED
    BY <1>7, <2>2, FS_EmptySet, AccountsAssumption DEF Room
<1> QED
  BY <1>9, <1>10, <1>12, <1>13 DEF TypeInv

\* Every step.
LEMMA NextTypes ==
    ASSUME TypeInv, [Next]_vars
    PROVE  TypeInv'
<1>1. CASE UNCHANGED vars
  BY <1>1 DEF vars, TypeInv, TablesOK, TokensRefer, UsedOK, Room, Inserters, RequestsHold, Sizes
<1> QED
  BY <1>1, BeginTypes, RunTypes, DieTypes, LapseTypes DEF Next

\* The inductive type invariant holds in every state.
LEMMA TypesAlways == Spec => []TypeInv
  BY InitTypes, NextTypes, PTL DEF Spec

\* The types of the tables and of the handlers' variables hold in every state.
THEOREM TypesHold == Spec => []TypeOK
<1>1. ASSUME TypeInv
      PROVE  TypeOK
  <2>1. Inserters \in SUBSET Requests
    BY DEF Inserters
  <2>2. Cardinality(Inserters) \in Nat
    BY ONLY <2>1, FiniteRequests
  <2>3. Len(users) <= MaxUsers
    BY <1>1, <2>2, TablesLong, AccountsAssumption DEF TypeInv, Room
  <2> QED
    BY <1>1, <2>3 DEF TypeInv, TablesOK, UsedOK, RequestsHold, TypeOK
<1> QED
  BY <1>1, TypesAlways, PTL

-----------------------------------------------------------------------------
(* How a request goes on *)

\* The statements of the handlers, by the one before.
Flow ==
    {<<"user", "revoke">>, <<"user", "issue">>, <<"revoke", "issue">>,
     <<"customers", "customers">>, <<"customers", "erase">>, <<"erase", "revokeAll">>,
     <<"removeCustomers", "removeUser">>, <<"removeUser", "revokeAll">>,
     <<"insertUser", "commit">>, <<"insertUser", "deactivate">>, <<"deactivate", "commit">>,
     <<"deactivate", "insertCode">>, <<"commit", "accept">>, <<"commit", "mail">>,
     <<"mail", "undo">>, <<"accept", "store">>, <<"store", "issue">>,
     <<"saveUser", "saveCode">>, <<"expireOld", "insertInvite">>}

\* What a handler keeps from one statement to the next.
Continues(p, q) ==
    /\ <<p.pc, q.pc>> \in Flow
    /\ q.op = p.op /\ q.email = p.email /\ q.token = p.token /\ q.invite = p.invite
    /\ q.row = p.row /\ q.ent = p.ent
    /\ p.pc \notin {"user", "commit"} => q.user = p.user
    /\ p.pc # "commit" => q.code = p.code
    /\ p.pc # "customers" => q.list = p.list

\* Which statement is at which place of a handler.
LEMMA Places ==
    ASSUME NEW r
    PROVE  /\ FindUser(r) => req[r].pc = "user"
           /\ RevokePresented(r) => req[r].pc = "revoke"
           /\ Issue(r) => req[r].pc = "issue"
           /\ EraseCustomer(r) => req[r].pc = "customers"
           /\ EraseUser(r) => req[r].pc = "erase"
           /\ RemoveCustomers(r) => req[r].pc = "removeCustomers"
           /\ RemoveUser(r) => req[r].pc = "removeUser"
           /\ RevokeAll(r) => req[r].pc = "revokeAll"
           /\ InsertUser(r) => req[r].pc = "insertUser"
           /\ Deactivate(r) => req[r].pc = "deactivate"
           /\ CommitUser(r) => req[r].pc = "commit"
           /\ SendLink(r) => req[r].pc = "mail"
           /\ Undo(r) => req[r].pc = "undo"
           /\ MarkAccepted(r) => req[r].pc = "accept"
           /\ OpenStore(r) => req[r].pc = "store"
           /\ SaveUser(r) => req[r].pc = "saveUser"
           /\ SaveCode(r) => req[r].pc = "saveCode"
           /\ InsertCode(r) => req[r].pc = "insertCode"
           /\ InsertVerified(r) => req[r].pc = "insertVerified"
           /\ ExpireOld(r) => req[r].pc = "expireOld"
           /\ InsertInvite(r) => req[r].pc = "insertInvite"
           /\ Sync(r) => req[r].pc = "sync"
           /\ Discard(r) => req[r].pc = "discard"
<1>1. /\ FindUser(r) => req[r].pc = "user"
      /\ RevokePresented(r) => req[r].pc = "revoke"
      /\ Issue(r) => req[r].pc = "issue"
      /\ EraseCustomer(r) => req[r].pc = "customers"
      /\ EraseUser(r) => req[r].pc = "erase"
      /\ RemoveCustomers(r) => req[r].pc = "removeCustomers"
      /\ RemoveUser(r) => req[r].pc = "removeUser"
      /\ RevokeAll(r) => req[r].pc = "revokeAll"
  BY DEF FindUser, RevokePresented, Issue, EraseCustomer, EraseUser, RemoveCustomers, RemoveUser,
         RevokeAll
<1>2. /\ InsertUser(r) => req[r].pc = "insertUser"
      /\ Deactivate(r) => req[r].pc = "deactivate"
      /\ CommitUser(r) => req[r].pc = "commit"
      /\ SendLink(r) => req[r].pc = "mail"
      /\ Undo(r) => req[r].pc = "undo"
      /\ MarkAccepted(r) => req[r].pc = "accept"
      /\ OpenStore(r) => req[r].pc = "store"
  BY DEF InsertUser, Deactivate, CommitUser, SendLink, Undo, MarkAccepted, OpenStore
<1>3. /\ SaveUser(r) => req[r].pc = "saveUser"
      /\ SaveCode(r) => req[r].pc = "saveCode"
      /\ InsertCode(r) => req[r].pc = "insertCode"
      /\ InsertVerified(r) => req[r].pc = "insertVerified"
      /\ ExpireOld(r) => req[r].pc = "expireOld"
      /\ InsertInvite(r) => req[r].pc = "insertInvite"
      /\ Sync(r) => req[r].pc = "sync"
      /\ Discard(r) => req[r].pc = "discard"
  BY DEF SaveUser, SaveCode, InsertCode, InsertVerified, ExpireOld, InsertInvite, Sync, Discard
<1> QED
  BY <1>1, <1>2, <1>3

\* A statement writes some tables and leaves the others alone.
LEMMA Writes ==
    ASSUME NEW r, Run(r)
    PROVE  /\ req[r].pc \notin {"revoke", "issue", "revokeAll"} => UNCHANGED refresh
           /\ req[r].pc \notin {"deactivate", "commit", "mail", "undo", "saveUser", "saveCode",
                                "insertCode"} => UNCHANGED codes
           /\ req[r].pc \notin {"accept", "expireOld", "insertInvite", "sync", "discard"}
                => UNCHANGED invites
           /\ req[r].pc \notin {"erase", "removeUser", "commit", "undo", "saveUser",
                                "insertVerified"} => UNCHANGED users
           /\ req[r].pc \notin {"customers", "removeCustomers", "commit", "undo"}
                => UNCHANGED customers
           /\ UNCHANGED used
<1> USE Places DEF Throw, tables
<1>1. CASE FindUser(r) \/ RevokePresented(r) \/ Issue(r) \/ EraseCustomer(r)
  BY <1>1 DEF FindUser, RevokePresented, Issue, EraseCustomer
<1>2. CASE EraseUser(r) \/ RemoveCustomers(r) \/ RemoveUser(r) \/ RevokeAll(r)
  BY <1>2 DEF EraseUser, RemoveCustomers, RemoveUser, RevokeAll
<1>3. CASE InsertUser(r) \/ Deactivate(r) \/ CommitUser(r) \/ SendLink(r)
  BY <1>3 DEF InsertUser, Deactivate, CommitUser, SendLink
<1>4. CASE Undo(r) \/ MarkAccepted(r) \/ OpenStore(r) \/ SaveCode(r)
  BY <1>4 DEF Undo, MarkAccepted, OpenStore, SaveCode
<1>5. CASE SaveUser(r) \/ InsertCode(r) \/ InsertVerified(r) \/ ExpireOld(r)
  BY <1>5 DEF SaveUser, InsertCode, InsertVerified, ExpireOld
<1>6. CASE InsertInvite(r) \/ Sync(r) \/ Discard(r)
  BY <1>6 DEF InsertInvite, Sync, Discard
<1> QED
  BY <1>1, <1>2, <1>3, <1>4, <1>5, <1>6 DEF Run

\* A request goes from one statement of its handler to the next, or returns.
GoesTo(r, q) == req' = [req EXCEPT ![r] = q] /\ (q = Idle \/ Continues(req[r], q))

\* A step of a handler frees its slot or leaves it one statement further.
LEMMA RunFlows ==
    ASSUME TypeInv, NEW r \in Requests, Run(r)
    PROVE  \E q : GoesTo(r, q)
<1>0. req[r] \in Request
  BY RowsTyped
<1>a. ASSUME NEW pc, req' = [req EXCEPT ![r] = [req[r] EXCEPT !.pc = pc]],
             <<req[r].pc, pc>> \in Flow
      PROVE  \E q : GoesTo(r, q)
  <2> DEFINE q == [req[r] EXCEPT !.pc = pc]
  <2>1. Continues(req[r], q)
    BY <1>0, <1>a DEF Continues, Request
  <2> QED
    BY <1>a, <2>1 DEF GoesTo
<1>b. ASSUME req' = [req EXCEPT ![r] = Idle]
      PROVE  \E q : GoesTo(r, q)
  BY <1>b DEF GoesTo
<1> USE Places DEF Throw, Goto
<1>1. CASE FindUser(r)
  <2> DEFINE user == IF req[r].user # 0 /\ users[req[r].user].here THEN req[r].user ELSE 0
             q == [req[r] EXCEPT !.pc = "issue", !.user = user]
  <2>1. CASE req' = [req EXCEPT ![r] = q]
    <3>1. Continues(req[r], q)
      BY <1>0, <1>1 DEF Continues, Request, Flow
    <3> QED
      BY <2>1, <3>1 DEF GoesTo
  <2>2. CASE req' = [req EXCEPT ![r] = [req[r] EXCEPT !.pc = "revoke"]]
    BY <1>1, <1>a, <2>2 DEF Flow
  <2> QED
    BY <1>1, <1>b, <2>1, <2>2 DEF FindUser
<1>2. CASE EraseCustomer(r)
  <2>0. req[r].pc = "customers"
    BY <1>2
  <2>1. PICK c : req' = [req EXCEPT ![r] = [req[r] EXCEPT !.list = @ \ {c},
                                  !.pc = IF req[r].list = {c} THEN "erase" ELSE @]]
    BY <1>2 DEF EraseCustomer
  <2> DEFINE list == req[r].list \ {c}
             pc == IF req[r].list = {c} THEN "erase" ELSE req[r].pc
             q == [req[r] EXCEPT !.list = list, !.pc = pc]
  <2>2. Continues(req[r], q)
    BY <1>0, <2>0 DEF Continues, Request, Flow
  <2> QED
    BY <2>1, <2>2 DEF GoesTo
<1>3. CASE CommitUser(r)
  <2> DEFINE invited == req[r].op = "invited"
             user == Len(users) + 1
             pc == IF invited THEN "accept" ELSE "mail"
             code == IF invited THEN 0 ELSE Len(codes) + 1
             q == [req[r] EXCEPT !.user = user, !.pc = pc, !.code = code]
  <2>1. req' = [req EXCEPT ![r] = q]
    BY <1>3 DEF CommitUser
  <2>2. Continues(req[r], q)
    BY <1>0, <1>3 DEF Continues, Request, Flow
  <2> QED
    BY <2>1, <2>2 DEF GoesTo
<1>4. CASE RevokePresented(r)
  BY <1>4, <1>a DEF RevokePresented, Flow
<1>5. CASE EraseUser(r)
  BY <1>5, <1>a DEF EraseUser, Flow
<1>6. CASE RemoveCustomers(r)
  BY <1>6, <1>a, <1>b DEF RemoveCustomers, Flow
<1>7. CASE RemoveUser(r)
  BY <1>7, <1>a, <1>b DEF RemoveUser, Flow
<1>8. CASE InsertUser(r)
  BY <1>8, <1>a, <1>b DEF InsertUser, Flow
<1>9. CASE Deactivate(r)
  BY <1>9, <1>a DEF Deactivate, Flow
<1>10. CASE SendLink(r)
  BY <1>10, <1>a, <1>b DEF SendLink, AfterFailedMail, Flow
<1>11. CASE MarkAccepted(r) \/ OpenStore(r)
  BY <1>11, <1>a DEF MarkAccepted, OpenStore, Flow
<1>12. CASE SaveUser(r)
  BY <1>12, <1>a, <1>b DEF SaveUser, Flow
<1>13. CASE ExpireOld(r)
  BY <1>13, <1>a DEF ExpireOld, Flow
<1>14. CASE Issue(r) \/ RevokeAll(r) \/ Undo(r)
  BY <1>14, <1>b DEF Issue, RevokeAll, Undo
<1>15. CASE SaveCode(r) \/ InsertCode(r) \/ InsertVerified(r)
  BY <1>15, <1>b DEF SaveCode, InsertCode, InsertVerified
<1>16. CASE InsertInvite(r) \/ Sync(r) \/ Discard(r)
  BY <1>16, <1>b DEF InsertInvite, Sync, Discard
<1> QED
  BY <1>1, <1>2, <1>3, <1>4, <1>5, <1>6, <1>7, <1>8, <1>9, <1>10, <1>11, <1>12, <1>13, <1>14,
     <1>15, <1>16 DEF Run

\* What a call has read when it begins.
StartPlaces ==
    {"user", "customers", "erase", "removeCustomers", "removeUser", "insertUser",
     "insertVerified", "saveUser", "saveCode", "deactivate", "expireOld", "sync", "discard"}
StartsSession(q) ==
    /\ q.token # 0 => /\ q.token \in DOMAIN refresh /\ Presentable(q.token)
                      /\ q.user = refresh[q.token].user /\ q.pc = "user"
    /\ q.pc = "user" /\ q.token = 0 => users[q.user].here /\ users[q.user].email # "gone"
StartsDelete(q) ==
    q.pc \in {"customers", "erase", "removeCustomers"} \/ (q.pc = "removeUser" /\ q.op = "delete")
      => /\ q.user \in DOMAIN users /\ users[q.user].here /\ q.ent = users[q.user]
         /\ q.list = CustomersOf(q.ent.email)
         /\ q.pc \in {"erase", "removeUser"} => q.list = {}
         /\ q.pc \in {"customers", "erase"} => HasOrders(q.user)
StartsAnswer(q) ==
    WritesCode(q) =>
      /\ q.code \in DOMAIN codes /\ Live(q.code)
      /\ q.row.attempts = codes[q.code].attempts + (IF q.op = "wrong" THEN 1 ELSE 0)
      /\ q.op = "wrong" => q.pc = "saveCode"
      /\ q.row.used <=> q.pc = "saveUser"
      /\ q.op = "reset" => q.pc = "saveUser"
\* Of a verification link only the row is written when it is expired, and otherwise its
\* user is verified.
SameLink(row, k) ==
    row.here /\ row.purpose = codes[k].purpose /\ row.email = codes[k].email
StartsLink(q) ==
    WritesCode(q) =>
      /\ SameLink(q.row, q.code)
      /\ q.row.purpose = "verification" =>
           IF q.pc = "saveCode" THEN q.row.expired
           ELSE q.ent.verified /\ q.ent.email = q.row.email
StartsSave(q) ==
    q.pc = "saveUser" =>
      LET row == users[q.user]
      IN  /\ q.user \in DOMAIN users /\ row.here /\ q.ent.here
          /\ q.ent.email = row.email /\ q.ent.invite = row.invite
          /\ IF q.op = "update" THEN q.ent.by = "admin"
             ELSE q.ent.by = row.by /\ row.email # "gone" /\ (row.verified => q.ent.verified)
StartsUser(q) ==
    /\ q.pc = "insertUser" =>
         IF q.op = "invited" THEN q.email = invites[q.invite].email ELSE q.invite = 0
    /\ q.pc = "insertVerified" => q.ent.invite = 0 /\ q.ent.email = q.email /\ q.ent.verified
    /\ q.pc = "deactivate" => q.invite = 0 /\ q.op = "recover"
Starts(q) ==
    /\ q.pc \in StartPlaces /\ StartsSession(q) /\ StartsDelete(q) /\ StartsAnswer(q)
    /\ StartsSave(q) /\ StartsUser(q) /\ StartsLink(q)

\* A call begins a handler, or it is done at once.
BeginsWith(r, q) == Call(r, q) /\ UNCHANGED tables /\ Starts(q)

\* A call starts a handler, or is over at once: a log-out, or an expired invitation.
LEMMA BeginsOrDone ==
    ASSUME TypeInv, NEW r \in Requests, Begin(r)
    PROVE  \/ \E q : BeginsWith(r, q)
           \/ \E k \in DOMAIN refresh : Logout(r, k)
           \/ \E k \in DOMAIN invites : ExpireInvite(r, k)
<1> USE DEF BeginsWith
<1> DEFINE Goal == \/ \E q : BeginsWith(r, q)
                   \/ \E k \in DOMAIN refresh : Logout(r, k)
                   \/ \E k \in DOMAIN invites : ExpireInvite(r, k)
<1>1. ASSUME NEW u \in DOMAIN users, BeginLogin(r, u)
      PROVE  Goal
  <2> DEFINE q == [Idle EXCEPT !.op = "login", !.pc = "user", !.user = u]
  <2>1. q.op = "login" /\ q.pc = "user" /\ q.user = u /\ q.token = 0
    BY DEF Idle
  <2> HIDE DEF q
  <2>2. Starts(q)
    BY <1>1, <2>1
    DEF BeginLogin, Starts, StartPlaces, StartsSession, StartsDelete, StartsAnswer, StartsSave,
        StartsUser, StartsLink, SameLink, WritesCode
  <2> QED
    BY <1>1, <2>2 DEF BeginLogin, q
<1>2. ASSUME NEW u \in DOMAIN users, BeginDelete(r, u)
      PROVE  Goal
  <2> DEFINE list == CustomersOf(users[u].email)
             pc == CASE HasOrders(u) /\ list # {}  -> "customers"
                     [] HasOrders(u) /\ list = {}  -> "erase"
                     [] ~HasOrders(u) /\ list # {} -> "removeCustomers"
                     [] ~HasOrders(u) /\ list = {} -> "removeUser"
             q == [Idle EXCEPT !.op = "delete", !.user = u, !.ent = users[u], !.list = list,
                               !.pc = pc]
  <2>1. /\ pc \in {"customers", "erase", "removeCustomers", "removeUser"}
        /\ pc \in {"erase", "removeUser"} => list = {}
        /\ pc \in {"customers", "erase"} => HasOrders(u)
    BY DEF HasOrders
  <2>2. Call(r, q) /\ UNCHANGED tables /\ users[u].here
    BY <1>2 DEF BeginDelete
  <2> HIDE DEF pc
  <2>3. q.op = "delete" /\ q.pc = pc /\ q.user = u /\ q.token = 0 /\ q.ent = users[u]
        /\ q.list = CustomersOf(users[u].email)
    BY DEF Idle
  <2> HIDE DEF q
  <2>4. Starts(q)
    BY <2>1, <2>2, <2>3
    DEF Starts, StartPlaces, StartsSession, StartsDelete, StartsAnswer, StartsSave,
        StartsUser, StartsLink, SameLink, WritesCode
  <2> QED
    BY <2>2, <2>4
<1>3. ASSUME NEW k \in DOMAIN refresh, BeginRefresh(r, k)
      PROVE  Goal
  <2> DEFINE q == [Idle EXCEPT !.op = "refresh", !.pc = "user", !.user = refresh[k].user,
                               !.token = k]
  <2>1. q.op = "refresh" /\ q.pc = "user" /\ q.user = refresh[k].user /\ q.token = k /\ k # 0
    BY RowsTyped DEF Idle
  <2> HIDE DEF q
  <2>2. Starts(q)
    BY <1>3, <2>1
    DEF BeginRefresh, Starts, StartPlaces, StartsSession, StartsDelete, StartsAnswer, StartsSave,
        StartsUser, StartsLink, SameLink, WritesCode
  <2> QED
    BY <1>3, <2>2 DEF BeginRefresh, q
<1>4. ASSUME NEW e \in Emails, NEW op \in {"register", "customer"}, BeginRegister(r, op, e)
      PROVE  Goal
  <2> DEFINE q == [Idle EXCEPT !.op = op, !.pc = "insertUser", !.email = e]
  <2>1. q.op = op /\ q.pc = "insertUser" /\ q.token = 0 /\ q.invite = 0
    BY DEF Idle
  <2> HIDE DEF q
  <2>2. Starts(q)
    BY <2>1
    DEF Starts, StartPlaces, StartsSession, StartsDelete, StartsAnswer, StartsSave,
        StartsUser, StartsLink, SameLink, WritesCode
  <2> QED
    BY <1>4, <2>2 DEF BeginRegister, q
<1>5. ASSUME NEW e \in Emails, BeginCreate(r, e)
      PROVE  Goal
  <2> DEFINE q == [Idle EXCEPT !.op = "create", !.pc = "insertVerified", !.email = e,
                               !.ent = NewUser(e, TRUE, "admin", 0)]
  <2>1. q.op = "create" /\ q.pc = "insertVerified" /\ q.token = 0 /\ q.email = e
        /\ q.ent.invite = 0 /\ q.ent.email = e /\ q.ent.verified
    BY DEF Idle, NewUser
  <2> HIDE DEF q
  <2>2. Starts(q)
    BY <2>1
    DEF Starts, StartPlaces, StartsSession, StartsDelete, StartsAnswer, StartsSave,
        StartsUser, StartsLink, SameLink, WritesCode
  <2> QED
    BY <1>5, <2>2 DEF BeginCreate, q
<1>6. ASSUME NEW k \in DOMAIN invites, BeginInvited(r, k)
      PROVE  Goal
  <2> DEFINE q == [Idle EXCEPT !.op = "invited", !.pc = "insertUser",
                               !.email = invites[k].email, !.invite = k]
  <2>1. q.op = "invited" /\ q.pc = "insertUser" /\ q.token = 0 /\ q.invite = k
        /\ q.email = invites[k].email
    BY DEF Idle
  <2> HIDE DEF q
  <2>2. Starts(q)
    BY <2>1
    DEF Starts, StartPlaces, StartsSession, StartsDelete, StartsAnswer, StartsSave,
        StartsUser, StartsLink, SameLink, WritesCode
  <2> QED
    BY <1>6, <2>2 DEF BeginInvited, q
<1>7. ASSUME NEW e \in Emails, BeginRecover(r, e)
      PROVE  Goal
  <2> DEFINE q == [Idle EXCEPT !.op = "recover", !.pc = "deactivate", !.email = e]
  <2>1. q.op = "recover" /\ q.pc = "deactivate" /\ q.token = 0 /\ q.invite = 0
    BY DEF Idle
  <2> HIDE DEF q
  <2>2. Starts(q)
    BY <2>1
    DEF Starts, StartPlaces, StartsSession, StartsDelete, StartsAnswer, StartsSave,
        StartsUser, StartsLink, SameLink, WritesCode
  <2> QED
    BY <1>7, <2>2 DEF BeginRecover, q
<1>8. ASSUME NEW u \in DOMAIN users, BeginRemove(r, u)
      PROVE  Goal
  <2> DEFINE q == [Idle EXCEPT !.op = "remove", !.pc = "removeUser", !.user = u]
  <2>1. q.op = "remove" /\ q.pc = "removeUser" /\ q.token = 0
    BY DEF Idle
  <2> HIDE DEF q
  <2>2. Starts(q)
    BY <2>1
    DEF Starts, StartPlaces, StartsSession, StartsDelete, StartsAnswer, StartsSave,
        StartsUser, StartsLink, SameLink, WritesCode
  <2> QED
    BY <1>8, <2>2 DEF BeginRemove, q
<1>9. ASSUME NEW e, BeginInvite(r, e)
      PROVE  Goal
  <2> DEFINE q == [Idle EXCEPT !.op = "invite", !.pc = "expireOld", !.email = e]
  <2>1. q.op = "invite" /\ q.pc = "expireOld" /\ q.token = 0
    BY DEF Idle
  <2> HIDE DEF q
  <2>2. Starts(q)
    BY <2>1
    DEF Starts, StartPlaces, StartsSession, StartsDelete, StartsAnswer, StartsSave,
        StartsUser, StartsLink, SameLink, WritesCode
  <2> QED
    BY <1>9, <2>2 DEF BeginInvite, q
<1>10. ASSUME NEW k \in DOMAIN invites, BeginDiscard(r, k)
      PROVE  Goal
  <2> DEFINE q == [Idle EXCEPT !.op = "discard", !.pc = "discard", !.invite = k]
  <2>1. q.op = "discard" /\ q.pc = "discard" /\ q.token = 0
    BY DEF Idle
  <2> HIDE DEF q
  <2>2. Starts(q)
    BY <2>1
    DEF Starts, StartPlaces, StartsSession, StartsDelete, StartsAnswer, StartsSave,
        StartsUser, StartsLink, SameLink, WritesCode
  <2> QED
    BY <1>10, <2>2 DEF BeginDiscard, q
<1>11. CASE BeginSync(r)
  <2> DEFINE q == [Idle EXCEPT !.op = "sync", !.pc = "sync", !.list = ToSync]
  <2>1. q.op = "sync" /\ q.pc = "sync" /\ q.token = 0
    BY DEF Idle
  <2> HIDE DEF q
  <2>2. Starts(q)
    BY <2>1
    DEF Starts, StartPlaces, StartsSession, StartsDelete, StartsAnswer, StartsSave,
        StartsUser, StartsLink, SameLink, WritesCode
  <2> QED
    BY <1>11, <2>2 DEF BeginSync, q
<1>12. ASSUME NEW u \in DOMAIN users, NEW verified \in BOOLEAN, BeginUpdate(r, u, verified)
      PROVE  Goal
  <2> DEFINE ent == [users[u] EXCEPT !.verified = verified, !.by = "admin"]
             q == [Idle EXCEPT !.op = "update", !.pc = "saveUser", !.user = u, !.ent = ent]
  <2>1. users[u] \in UserRow /\ users[u].here
    BY <1>12, RowsTyped DEF BeginUpdate
  <2>2. ent.here /\ ent.email = users[u].email /\ ent.invite = users[u].invite
        /\ ent.by = "admin"
    BY <2>1 DEF UserRow
  <2> HIDE DEF ent
  <2>3. q.op = "update" /\ q.pc = "saveUser" /\ q.token = 0 /\ q.user = u /\ q.ent = ent
    BY DEF Idle
  <2> HIDE DEF q
  <2>4. Starts(q)
    BY <2>1, <2>2, <2>3
    DEF Starts, StartPlaces, StartsSession, StartsDelete, StartsAnswer, StartsSave,
        StartsUser, StartsLink, SameLink, WritesCode
  <2> QED
    BY <1>12, <2>4 DEF BeginUpdate, q, ent
<1>13. ASSUME NEW op \in {"verify", "wrong"}, NEW k \in DOMAIN codes, NEW row, Live(k),
              ~row.used, SameLink(row, k), row.purpose = "verification" => row.expired,
              row.attempts = codes[k].attempts + (IF op = "wrong" THEN 1 ELSE 0),
              Call(r, [Idle EXCEPT !.op = op, !.pc = "saveCode", !.code = k, !.row = row]),
              UNCHANGED tables
      PROVE  Goal
  <2> DEFINE q == [Idle EXCEPT !.op = op, !.pc = "saveCode", !.code = k, !.row = row]
  <2>1. q.op = op /\ q.pc = "saveCode" /\ q.token = 0 /\ q.code = k /\ q.row = row
    BY DEF Idle
  <2> HIDE DEF q
  <2>2. Starts(q)
    BY <1>13, <2>1
    DEF Starts, StartPlaces, StartsSession, StartsDelete, StartsAnswer, StartsSave,
        StartsUser, StartsLink, SameLink, WritesCode
  <2> QED
    BY <1>13, <2>2 DEF q
<1>14. ASSUME NEW op \in {"verify", "reset"}, NEW u \in DOMAIN users, NEW ent,
              NEW k \in DOMAIN codes, NEW row, Live(k), row.used,
              row.attempts = codes[k].attempts, users[u].here, ent.here,
              ent.email = users[u].email, ent.invite = users[u].invite, ent.by = users[u].by,
              users[u].email # "gone", users[u].verified => ent.verified, SameLink(row, k),
              row.purpose = "verification" => ent.verified /\ ent.email = row.email,
              Call(r, [Idle EXCEPT !.op = op, !.pc = "saveUser", !.user = u, !.ent = ent,
                                   !.code = k, !.row = row]),
              UNCHANGED tables
      PROVE  Goal
  <2> DEFINE q == [Idle EXCEPT !.op = op, !.pc = "saveUser", !.user = u, !.ent = ent,
                                   !.code = k, !.row = row]
  <2>1. q.op = op /\ q.pc = "saveUser" /\ q.token = 0 /\ q.code = k /\ q.row = row
        /\ q.user = u /\ q.ent = ent
    BY DEF Idle
  <2>2. codes[k].attempts \in Nat
    BY RowsTyped DEF CodeRow
  <2> HIDE DEF q
  <2>3. Starts(q)
    BY <1>14, <2>1, <2>2
    DEF Starts, StartPlaces, StartsSession, StartsDelete, StartsAnswer, StartsSave,
        StartsUser, StartsLink, SameLink, WritesCode
  <2> QED
    BY <1>14, <2>3 DEF q
<1>15. ASSUME NEW k \in DOMAIN codes, BeginVerify(r, k)
       PROVE  Goal
  <2>1. codes[k] \in CodeRow /\ Live(k) /\ UNCHANGED tables
    BY <1>15, RowsTyped DEF BeginVerify
  <2> DEFINE closed == [codes[k] EXCEPT !.active = FALSE]
             final == [codes[k] EXCEPT !.active = FALSE, !.used = TRUE]
  <2>2. /\ closed.attempts = codes[k].attempts /\ ~closed.used
        /\ final.attempts = codes[k].attempts /\ final.used
        /\ codes[k].attempts \in Nat /\ codes[k].email # "gone"
        /\ SameLink(closed, k) /\ SameLink(final, k) /\ closed.expired = codes[k].expired
    BY <2>1, AccountsAssumption DEF CodeRow, Live, SameLink
  <2>3. ASSUME NEW u \in UsersOf(codes[k].email)
        PROVE  /\ u \in DOMAIN users /\ users[u].here /\ users[u].email # "gone"
               /\ [users[u] EXCEPT !.verified = TRUE].here
               /\ [users[u] EXCEPT !.verified = TRUE].email = users[u].email
               /\ [users[u] EXCEPT !.verified = TRUE].invite = users[u].invite
               /\ [users[u] EXCEPT !.verified = TRUE].by = users[u].by
               /\ [users[u] EXCEPT !.verified = TRUE].verified
               /\ [users[u] EXCEPT !.verified = TRUE].email = codes[k].email
    <3>1. u \in DOMAIN users /\ users[u].here /\ users[u].email = codes[k].email
          /\ users[u] \in UserRow
      BY RowsTyped DEF UsersOf
    <3> QED
      BY <2>2, <3>1 DEF UserRow
  <2>4. CASE /\ codes[k].expired
             /\ Call(r, [Idle EXCEPT !.op = "verify", !.pc = "saveCode", !.code = k,
                                     !.row = closed])
    <3>1. closed.attempts = codes[k].attempts + 0
      BY <2>2
    <3> HIDE DEF closed, final, Goal
    <3> QED
      BY <1>13, <2>1, <2>2, <2>4, <3>1
  <2>5. ASSUME NEW u \in UsersOf(codes[k].email),
               Call(r, [Idle EXCEPT !.op = "verify", !.pc = "saveUser", !.user = u,
                          !.ent = [users[u] EXCEPT !.verified = TRUE], !.code = k, !.row = final])
        PROVE  Goal
    <3>1. [users[u] EXCEPT !.verified = TRUE].email = final.email
      BY <2>2, <2>3 DEF SameLink
    <3> DEFINE ent == [users[u] EXCEPT !.verified = TRUE]
    <3> HIDE DEF closed, final, Goal, ent
    <3>2. /\ u \in DOMAIN users /\ users[u].here /\ users[u].email # "gone"
          /\ ent.here /\ ent.email = users[u].email /\ ent.invite = users[u].invite
          /\ ent.by = users[u].by /\ ent.verified /\ ent.email = final.email
      BY <2>3, <3>1 DEF ent
    <3>3. Call(r, [Idle EXCEPT !.op = "verify", !.pc = "saveUser", !.user = u, !.ent = ent,
                               !.code = k, !.row = final])
      BY <2>5 DEF ent
    <3> QED
      BY <1>14, <2>1, <2>2, <3>2, <3>3
  <2> QED
    BY <1>15, <2>4, <2>5 DEF BeginVerify
<1>16. ASSUME NEW e \in Emails, NEW right \in BOOLEAN, BeginAnswer(r, e, right)
       PROVE  Goal
  <2>1. PICK k \in CurrentCodes(e) :
         LET row == codes[k]
             closed == [row EXCEPT !.active = FALSE]
             judged == [Idle EXCEPT !.op = "wrong", !.pc = "saveCode", !.code = k]
             missed == [row EXCEPT !.attempts = @ + 1, !.active = ~Exhausted(row.attempts + 1)]
         IN  \/ /\ row.expired \/ Exhausted(row.attempts)
                /\ Call(r, [judged EXCEPT !.op = "verify", !.row = closed])
             \/ /\ ~row.expired /\ ~Exhausted(row.attempts) /\ ~right
                /\ Call(r, [judged EXCEPT !.row = missed])
             \/ /\ ~row.expired /\ ~Exhausted(row.attempts) /\ right
                /\ \E u \in UsersOf(e) :
                     Call(r, [judged EXCEPT !.op = "reset", !.pc = "saveUser", !.user = u,
                                !.ent = users[u], !.row = [closed EXCEPT !.used = TRUE]])
    BY <1>16 DEF BeginAnswer
  <2> DEFINE row == codes[k]
             closed == [row EXCEPT !.active = FALSE]
             judged == [Idle EXCEPT !.op = "wrong", !.pc = "saveCode", !.code = k]
             missed == [row EXCEPT !.attempts = @ + 1, !.active = ~Exhausted(row.attempts + 1)]
             final == [closed EXCEPT !.used = TRUE]
  <2>2. /\ k \in DOMAIN codes /\ Live(k) /\ codes[k] \in CodeRow /\ UNCHANGED tables
        /\ codes[k].purpose = "recovery"
    BY <1>16, RowsTyped DEF BeginAnswer, CurrentCodes, Newest
  <2>3. /\ closed.attempts = row.attempts /\ ~closed.used
        /\ missed.attempts = row.attempts + 1 /\ ~missed.used
        /\ final.attempts = row.attempts /\ final.used /\ row.attempts \in Nat
        /\ SameLink(closed, k) /\ SameLink(missed, k) /\ SameLink(final, k)
        /\ closed.purpose = "recovery" /\ missed.purpose = "recovery" /\ final.purpose = "recovery"
    BY <2>2 DEF CodeRow, Live, SameLink
  <2>4. CASE Call(r, [judged EXCEPT !.op = "verify", !.row = closed])
    <3>1. [judged EXCEPT !.op = "verify", !.row = closed]
            = [Idle EXCEPT !.op = "verify", !.pc = "saveCode", !.code = k, !.row = closed]
      BY DEF Idle
    <3>2. closed.attempts = codes[k].attempts + 0
      BY <2>3
    <3> HIDE DEF closed, judged, row, missed, final, Goal
    <3> QED
      BY <1>13, <2>2, <2>3, <2>4, <3>1, <3>2
  <2>5. CASE Call(r, [judged EXCEPT !.row = missed])
    <3>1. [judged EXCEPT !.row = missed]
            = [Idle EXCEPT !.op = "wrong", !.pc = "saveCode", !.code = k, !.row = missed]
      BY DEF Idle
    <3>2. missed.attempts = codes[k].attempts + 1
      BY <2>3
    <3> HIDE DEF closed, judged, row, missed, final, Goal
    <3> QED
      BY <1>13, <2>2, <2>3, <2>5, <3>1, <3>2
  <2>6. ASSUME NEW u \in UsersOf(e),
               Call(r, [judged EXCEPT !.op = "reset", !.pc = "saveUser", !.user = u,
                                      !.ent = users[u], !.row = final])
        PROVE  Goal
    <3>1. u \in DOMAIN users /\ users[u].here /\ users[u].email # "gone"
      BY AccountsAssumption DEF UsersOf
    <3>2. [judged EXCEPT !.op = "reset", !.pc = "saveUser", !.user = u, !.ent = users[u],
                         !.row = final]
            = [Idle EXCEPT !.op = "reset", !.pc = "saveUser", !.user = u, !.ent = users[u],
                           !.code = k, !.row = final]
      BY DEF Idle
    <3>3. final.attempts = codes[k].attempts
      BY <2>3
    <3> HIDE DEF closed, judged, row, missed, final, Goal
    <3>4. Call(r, [Idle EXCEPT !.op = "reset", !.pc = "saveUser", !.user = u, !.ent = users[u],
                           !.code = k, !.row = final])
      BY <2>6, <3>2
    <3> QED
      BY <1>14, <2>2, <2>3, <3>1, <3>3, <3>4
  <2> QED
    BY <2>1, <2>4, <2>5, <2>6
<1>17. CASE AuthController(r)
  BY <1>17, <1>1, <1>2, <1>3, <1>4, <1>6, <1>7, <1>15, <1>16 DEF AuthController
<1>18. CASE InvitationsController(r)
  BY <1>18, <1>9, <1>10, <1>11 DEF InvitationsController, Resend
<1>19. CASE AdminUsersController(r)
  BY <1>19, <1>5, <1>8, <1>12 DEF AdminUsersController
<1> QED
  BY <1>17, <1>18, <1>19 DEF Begin

-----------------------------------------------------------------------------
(* Rotation: successors that a token has and those that it will get.  Only a token that *)
(* is not revoked is accepted, and it has neither.                                      *)

Successors(k) == {j \in DOMAIN refresh : refresh[j].parent = k}
Holders(k) == {r \in Requests : req[r].token = k}
CountsAgree(k) == Cardinality(Successors(k)) + Cardinality(Holders(k)) <= 1 + used.overlaps
UnusedYet(k) ==
    ~refresh[k].revoked =>
      Successors(k) = {} /\ \A r \in Holders(k) : req[r].pc \in {"user", "revoke"}
RotationInv == \A k \in DOMAIN refresh : CountsAgree(k) /\ UnusedYet(k)

\* The sets that are counted are finite.
LEMMA RotationFinite ==
    ASSUME TypeInv, NEW k
    PROVE  /\ IsFiniteSet(Successors(k)) /\ Cardinality(Successors(k)) \in Nat
           /\ IsFiniteSet(Holders(k)) /\ Cardinality(Holders(k)) \in Nat
           /\ used.overlaps \in Nat
<1>1. Successors(k) \subseteq 1..Len(refresh) /\ Len(refresh) \in Nat
  BY DEF Successors, TypeInv, TablesOK
<1>2. IsFiniteSet(1..Len(refresh))
  BY <1>1, FS_Interval
<1>3. IsFiniteSet(Successors(k))
  BY <1>1, <1>2, FS_Subset
<1>4. Holders(k) \in SUBSET Requests
  BY DEF Holders
<1>5. used.overlaps \in Nat
  BY AccountsAssumption DEF TypeInv, UsedOK
<1> QED
  BY <1>3, <1>4, <1>5, FiniteRequests, FS_CardinalityType

\* No token gets a successor, and a request keeps the token it holds or lets go of it.
LEMMA RotationStays ==
    ASSUME TypeInv, TypeInv', RotationInv, used.overlaps <= used'.overlaps,
           DOMAIN refresh' = DOMAIN refresh,
           \A k \in DOMAIN refresh : /\ refresh'[k].parent = refresh[k].parent
                                     /\ refresh[k].revoked => refresh'[k].revoked,
           \A s \in Requests :
             \/ req'[s].token = 0 \/ req'[s] = req[s]
             \/ /\ req'[s].token = req[s].token
                /\ \/ req'[s].pc \in {"user", "revoke"}
                   \/ \A k \in DOMAIN refresh : k = req[s].token => refresh'[k].revoked
    PROVE  RotationInv'
<1> SUFFICES ASSUME NEW k \in DOMAIN refresh'
             PROVE  CountsAgree(k)' /\ UnusedYet(k)'
  BY DEF RotationInv
<1>1. Successors(k)' = Successors(k)
  BY DEF Successors
<1>2. k # 0 /\ k \in DOMAIN refresh
  BY RowsTyped
<1>3. Holders(k)' \subseteq Holders(k)
  BY <1>2 DEF Holders
<1>4. CountsAgree(k) /\ UnusedYet(k)
  BY <1>2 DEF RotationInv
<1>5. /\ IsFiniteSet(Holders(k)) /\ Cardinality(Holders(k)) \in Nat
      /\ Cardinality(Successors(k)) \in Nat /\ used.overlaps \in Nat
  BY RotationFinite
<1>6. IsFiniteSet(Holders(k)') /\ Cardinality(Holders(k)') \in Nat
      /\ Cardinality(Holders(k)') <= Cardinality(Holders(k))
  BY <1>3, <1>5, FS_Subset, FS_CardinalityType
<1>7. used'.overlaps \in Nat
  BY AccountsAssumption DEF TypeInv, UsedOK
<1>8. CountsAgree(k)'
  BY <1>1, <1>4, <1>5, <1>6, <1>7 DEF CountsAgree
<1>9. UnusedYet(k)'
  <2> SUFFICES ASSUME ~refresh'[k].revoked
               PROVE  Successors(k)' = {} /\ \A r \in Holders(k)' : req'[r].pc \in {"user", "revoke"}
    BY DEF UnusedYet
  <2>1. ~refresh[k].revoked
    BY <1>2
  <2>2. Successors(k) = {} /\ \A r \in Holders(k) : req[r].pc \in {"user", "revoke"}
    BY <1>4, <2>1 DEF UnusedYet
  <2>3. ASSUME NEW r \in Holders(k)'
        PROVE  req'[r].pc \in {"user", "revoke"}
    <3>1. r \in Requests /\ req'[r].token = k /\ r \in Holders(k)
      BY <1>3 DEF Holders
    <3>2. req[r].token = k
      BY <3>1 DEF Holders
    <3> QED
      BY <1>2, <2>2, <3>1, <3>2
  <2> QED
    BY <1>1, <2>2, <2>3
<1> QED
  BY <1>8, <1>9

\* A call: a token that is presented has no successor and is held by running requests only.
LEMMA BeginRotation ==
    ASSUME TypeInv, TypeInv', RotationInv, NEW r \in Requests, Begin(r)
    PROVE  RotationInv'
<1>0. Free(r) /\ req[r] = Idle
  BY DEF Begin, Free, Running
<1>a. ASSUME NEW q, Call(r, q)
      PROVE  /\ req' = [req EXCEPT ![r] = q] /\ used'.overlaps \in Nat /\ used.overlaps \in Nat
             /\ used'.overlaps = used.overlaps + (IF Overlaps(r) THEN 1 ELSE 0)
             /\ used.overlaps <= used'.overlaps
  BY <1>0, <1>a, CallCounts, AccountsAssumption DEF TypeInv, UsedOK
<1>b. req \in [Requests -> Request]
  BY DEF TypeInv, RequestsHold
<1>1. ASSUME NEW q, BeginsWith(r, q), q.token = 0
      PROVE  RotationInv'
  <2>1. req' = [req EXCEPT ![r] = q] /\ used.overlaps <= used'.overlaps /\ refresh' = refresh
    BY <1>1, <1>a DEF BeginsWith, tables
  <2> QED
    BY <1>1, <1>b, <2>1, RotationStays
<1>2. ASSUME NEW k \in DOMAIN invites, ExpireInvite(r, k)
      PROVE  RotationInv'
  <2>1. req' = [req EXCEPT ![r] = Idle] /\ used.overlaps <= used'.overlaps /\ refresh' = refresh
    BY <1>2, <1>a DEF ExpireInvite
  <2> QED
    BY <1>b, <2>1, IdleTyped, RotationStays
<1>3. ASSUME NEW k \in DOMAIN refresh, Logout(r, k)
      PROVE  RotationInv'
  <2>1. req' = [req EXCEPT ![r] = Idle] /\ used.overlaps <= used'.overlaps
        /\ refresh' = [refresh EXCEPT ![k].revoked = TRUE]
    BY <1>3, <1>a DEF Logout
  <2>2. \A j \in DOMAIN refresh : refresh[j] \in RefreshRow
    BY RowsTyped
  <2>3. /\ DOMAIN refresh' = DOMAIN refresh
        /\ \A j \in DOMAIN refresh : /\ refresh'[j].parent = refresh[j].parent
                                     /\ refresh[j].revoked => refresh'[j].revoked
    BY <2>1, <2>2 DEF RefreshRow
  <2> QED
    BY <1>b, <2>1, <2>3, IdleTyped, RotationStays
<1>4. ASSUME NEW q, BeginsWith(r, q), q.token # 0
      PROVE  RotationInv'
  <2> DEFINE t == q.token
  <2>1. t \in DOMAIN refresh /\ ~refresh[t].revoked /\ q.pc = "user"
    BY <1>4 DEF BeginsWith, Starts, StartsSession, Presentable
  <2>2. req' = [req EXCEPT ![r] = q] /\ refresh' = refresh /\ used'.overlaps \in Nat
    BY <1>4, <1>a DEF BeginsWith, tables
  <2> SUFFICES ASSUME NEW k \in DOMAIN refresh
               PROVE  CountsAgree(k)' /\ UnusedYet(k)'
    BY <2>2 DEF RotationInv
  <2>3. CountsAgree(k) /\ UnusedYet(k) /\ Successors(k)' = Successors(k)
    BY <2>2 DEF RotationInv, Successors
  <2>4. /\ IsFiniteSet(Holders(k)) /\ Cardinality(Holders(k)) \in Nat
        /\ Cardinality(Successors(k)) \in Nat /\ used.overlaps \in Nat
    BY RotationFinite
  <2>5. r \notin Holders(k)
    BY <1>0, IdleTyped, RowsTyped DEF Holders
  <2>6. CASE k # t
    <3>1. Holders(k)' = Holders(k)
      BY <1>b, <2>2, <2>5, <2>6 DEF Holders
    <3>2. CountsAgree(k)'
      BY <1>4, <1>a, <2>2, <2>3, <2>4, <3>1 DEF CountsAgree, BeginsWith
    <3>3. UnusedYet(k)'
      BY <1>b, <2>2, <2>3, <2>5, <3>1 DEF UnusedYet, Holders
    <3> QED
      BY <3>2, <3>3
  <2>7. CASE k = t
    <3>1. Holders(k)' = Holders(k) \cup {r}
      BY <1>b, <2>2, <2>7 DEF Holders
    <3>2. Cardinality(Holders(k) \cup {r}) = Cardinality(Holders(k)) + 1
      BY <2>4, <2>5, FS_AddElement
    <3>3. Successors(k) = {} /\ \A s \in Holders(k) : req[s].pc \in {"user", "revoke"}
      BY <2>1, <2>3, <2>7 DEF UnusedYet
    <3>4. Cardinality(Successors(k)) = 0
      BY <3>3, FS_EmptySet
    <3>5. Cardinality(Holders(k)) + 1 <= 1 + used'.overlaps
      <4>1. CASE Holders(k) = {}
        <5>1. Cardinality(Holders(k)) = 0
          BY <4>1, FS_EmptySet
        <5> QED
          BY <2>2, <5>1
      <4>2. CASE Holders(k) # {}
        <5>1. PICK s \in Holders(k) : TRUE
          BY <4>2
        <5>2. s \in Requests /\ req[s].token = k /\ k # 0
          BY RowsTyped DEF Holders
        <5>3. Running(s) /\ s # r
          BY <1>0, <5>2, IdleTyped DEF Running
        <5>4. Overlaps(r)
          BY <5>2, <5>3 DEF Overlaps
        <5>5. used'.overlaps = used.overlaps + 1
          BY <1>4, <1>a, <5>4 DEF BeginsWith
        <5> QED
          BY <2>3, <2>4, <3>4, <5>5 DEF CountsAgree
      <4> QED
        BY <4>1, <4>2
    <3>6. CountsAgree(k)'
      BY <2>3, <3>1, <3>2, <3>4, <3>5, <2>4 DEF CountsAgree
    <3>7. UnusedYet(k)'
      <4>1. \A s \in Holders(k)' : req'[s].pc \in {"user", "revoke"}
        BY <1>b, <2>1, <2>2, <3>1, <3>3 DEF Holders
      <4> QED
        BY <2>3, <3>3, <4>1 DEF UnusedYet
    <3> QED
      BY <3>6, <3>7
  <2> QED
    BY <2>6, <2>7
<1> QED
  BY <1>1, <1>2, <1>3, <1>4, BeginsOrDone

\* A token is issued: its parent, if any, was revoked and loses the request that held it.
LEMMA IssueRotation ==
    ASSUME TypeInv, TypeInv', RotationInv, NEW r \in Requests, Issue(r)
    PROVE  RotationInv'
<1> DEFINE t == req[r].token
           row == [user |-> req[r].user, parent |-> t, revoked |-> FALSE, expired |-> FALSE]
<1>0. req \in [Requests -> Request] /\ Len(refresh) \in Nat /\ refresh \in Seq(RefreshRow)
  BY DEF TypeInv, RequestsHold, TablesOK
<1>n. PICK n \in Nat : n = Len(refresh) + 1
  BY <1>0
<1>1. /\ req' = [req EXCEPT ![r] = Idle] /\ used' = used /\ refresh' = Append(refresh, row)
      /\ req[r].pc = "issue"
  BY DEF Issue, Goto
<1>2. t \in 0..Len(refresh)
  BY RowsTyped DEF Holding, HoldsToken, Sizes
<1>3. /\ DOMAIN refresh = 1..Len(refresh) /\ DOMAIN refresh' = 1..n
      /\ \A k \in 1..Len(refresh) : refresh'[k] = refresh[k]
      /\ refresh'[n] = row
  <2>1. row \in RefreshRow
    BY <1>2, RowsTyped DEF RefreshRow, Request
  <2> HIDE DEF row
  <2> QED
    BY <1>0, <1>n, <1>1, <2>1
<1>4. row.parent = t
  OBVIOUS
<1> HIDE DEF row
<1>5. ASSUME NEW k \in DOMAIN refresh
      PROVE  CountsAgree(k)' /\ UnusedYet(k)'
  <2>1. CountsAgree(k) /\ UnusedYet(k) /\ k # 0
    BY RowsTyped DEF RotationInv
  <2>2. /\ IsFiniteSet(Holders(k)) /\ Cardinality(Holders(k)) \in Nat
        /\ IsFiniteSet(Successors(k)) /\ Cardinality(Successors(k)) \in Nat
        /\ used.overlaps \in Nat
    BY RotationFinite
  <2>3. CASE k # t
    <3>1. Holders(k)' = Holders(k)
      BY <1>0, <1>n, <1>1, <2>1, <2>3, IdleTyped DEF Holders
    <3>2. Successors(k)' = Successors(k)
      BY <1>0, <1>n, <1>3, <1>4, <2>3 DEF Successors
    <3>3. r \notin Holders(k)
      BY <2>3 DEF Holders
    <3> QED
      BY <1>0, <1>n, <1>1, <1>3, <2>1, <3>1, <3>2, <3>3 DEF CountsAgree, UnusedYet, Holders
  <2>4. CASE k = t
    <3>1. Holders(k)' = Holders(k) \ {r} /\ r \in Holders(k)
      BY <1>0, <1>n, <1>1, <2>1, <2>4, IdleTyped DEF Holders
    <3>2. Successors(k)' = Successors(k) \cup {n} /\ n \notin Successors(k)
      BY <1>0, <1>n, <1>3, <1>4, <2>4 DEF Successors
    <3>3. Cardinality(Holders(k)') = Cardinality(Holders(k)) - 1
      BY <2>2, <3>1, FS_RemoveElement
    <3>4. Cardinality(Successors(k)') = Cardinality(Successors(k)) + 1
      BY <2>2, <3>2, FS_AddElement
    <3>5. refresh[k].revoked
      BY <1>1, <2>1, <3>1 DEF UnusedYet
    <3> QED
      BY <1>1, <1>3, <2>1, <2>2, <3>3, <3>4, <3>5 DEF CountsAgree, UnusedYet
  <2> QED
    BY <2>3, <2>4
<1>6. CountsAgree(n)' /\ UnusedYet(n)'
  <2>1. Successors(n)' = {}
    <3>1. \A k \in 1..Len(refresh) : refresh[k].parent \in 0..Len(refresh)
      BY <1>3 DEF TypeInv, TokensRefer
    <3>2. \A k \in 1..n : refresh'[k].parent # n
      BY <1>0, <1>n, <1>2, <1>3, <1>4, <3>1
    <3> QED
      BY <1>3, <3>2 DEF Successors
  <2>2. Holders(n)' = {}
    <3>1. \A s \in Requests : req[s].token \in 0..Len(refresh)
      BY RowsTyped DEF Holding, HoldsToken, Sizes
    <3>2. \A s \in Requests : req'[s].token # n
      BY <1>0, <1>n, <1>1, <3>1, IdleTyped
    <3> QED
      BY <3>2 DEF Holders
  <2>3. used'.overlaps \in Nat
    BY <1>1, RotationFinite
  <2>4. Cardinality({}) = 0
    BY FS_EmptySet
  <2> QED
    BY <2>1, <2>2, <2>3, <2>4 DEF CountsAgree, UnusedYet
<1>7. \A k \in DOMAIN refresh' : k = n \/ k \in DOMAIN refresh
  BY <1>0, <1>n, <1>3
<1> QED
  BY <1>5, <1>6, <1>7 DEF RotationInv

\* Every other statement.
LEMMA RunRotation ==
    ASSUME TypeInv, TypeInv', RotationInv, NEW r \in Requests, Run(r)
    PROVE  RotationInv'
<1>0. req \in [Requests -> Request] /\ used' = used /\ used.overlaps \in Nat
  BY Writes, RotationFinite DEF TypeInv, RequestsHold
<1>1. PICK q : req' = [req EXCEPT ![r] = q] /\ (q = Idle \/ Continues(req[r], q))
  BY RunFlows DEF GoesTo
<1>2. Holding(req[r], Sizes) /\ \A k \in DOMAIN refresh : refresh[k] \in RefreshRow
  BY RowsTyped
<1>3. /\ req'[r] = q /\ \A s \in Requests \ {r} : req'[s] = req[s]
  BY <1>0, <1>1
<1>a. ASSUME DOMAIN refresh' = DOMAIN refresh,
             \A k \in DOMAIN refresh : /\ refresh'[k].parent = refresh[k].parent
                                       /\ refresh[k].revoked => refresh'[k].revoked,
             q.token # 0 => \/ q.pc \in {"user", "revoke"}
                            \/ \A k \in DOMAIN refresh : k = req[r].token => refresh'[k].revoked
      PROVE  RotationInv'
  <2>1. q.token = 0 \/ q.token = req[r].token
    BY <1>1, IdleTyped DEF Continues
  <2>2. ASSUME NEW s \in Requests
        PROVE  \/ req'[s].token = 0 \/ req'[s] = req[s]
               \/ /\ req'[s].token = req[s].token
                  /\ \/ req'[s].pc \in {"user", "revoke"}
                     \/ \A k \in DOMAIN refresh : k = req[s].token => refresh'[k].revoked
    BY <1>3, <1>a, <2>1
  <2>3. used.overlaps <= used'.overlaps
    BY <1>0
  <2> HIDE DEF Holding
  <2> QED
    BY <1>a, <2>2, <2>3, RotationStays
<1>4. CASE Issue(r)
  BY <1>4, IssueRotation
<1>5. CASE RevokePresented(r)
  <2>1. refresh' = [refresh EXCEPT ![req[r].token].revoked = TRUE]
    BY <1>5 DEF RevokePresented
  <2>2. /\ DOMAIN refresh' = DOMAIN refresh
        /\ \A k \in DOMAIN refresh : /\ refresh'[k].parent = refresh[k].parent
                                     /\ refresh[k].revoked => refresh'[k].revoked
                                     /\ k = req[r].token => refresh'[k].revoked
    BY <1>2, <2>1 DEF RefreshRow
  <2> QED
    BY <1>a, <2>2
<1>6. CASE RevokeAll(r)
  <2>1. refresh' = [k \in DOMAIN refresh |->
                     IF k \in SessionsOf(req[r].user) THEN [refresh[k] EXCEPT !.revoked = TRUE]
                     ELSE refresh[k]]
    BY <1>6 DEF RevokeAll
  <2>2. /\ DOMAIN refresh' = DOMAIN refresh
        /\ \A k \in DOMAIN refresh : /\ refresh'[k].parent = refresh[k].parent
                                     /\ refresh[k].revoked => refresh'[k].revoked
    BY <1>2, <2>1 DEF RefreshRow
  <2>3. q = Idle
    BY <1>1, <1>6, Places DEF Continues, Flow
  <2> QED
    BY <1>a, <2>2, <2>3, IdleTyped
<1>7. CASE req[r].pc \notin {"revoke", "issue", "revokeAll"}
  <2>1. refresh' = refresh
    BY <1>7, Writes
  <2>2. q.token # 0 => q.pc = "revoke"
    <3>1. q.token # 0 => req[r].op = "refresh" /\ req[r].pc = "user" /\ Continues(req[r], q)
      BY <1>1, <1>2, <1>7, IdleTyped DEF Continues, Holding, HoldsToken
    <3>2. q.token # 0 => <<"user", q.pc>> \in Flow /\ q.op = "refresh" /\ req' = [req EXCEPT ![r] = q]
      BY <1>1, <3>1 DEF Continues
    <3>3. ASSUME q.token # 0
          PROVE  q.pc = "revoke"
      <4>1. FindUser(r)
        BY <3>1, <3>3, Places DEF Run
      <4>2. q = [req[r] EXCEPT !.pc = "revoke"] \/ q = Idle
        BY <1>0, <1>3, <3>1, <3>3, <4>1 DEF FindUser, Throw, Goto
      <4>3. req[r] \in Request
        BY <1>0
      <4> QED
        BY <3>3, <4>2, <4>3, IdleTyped DEF Request
    <3> QED
      BY <3>3
  <2> QED
    BY <1>a, <2>1, <2>2
<1>8. Issue(r) \/ RevokePresented(r) \/ RevokeAll(r)
        \/ req[r].pc \notin {"revoke", "issue", "revokeAll"}
  BY Places DEF Run
<1> QED
  BY <1>4, <1>5, <1>6, <1>7, <1>8

\* Every step.
LEMMA NextRotation ==
    ASSUME TypeInv, TypeInv', RotationInv, [Next]_vars
    PROVE  RotationInv'
<1>0. req \in [Requests -> Request] /\ used.overlaps \in Nat
      /\ \A k \in DOMAIN refresh : refresh[k] \in RefreshRow
  BY RotationFinite, RowsTyped DEF TypeInv, RequestsHold
<1>1. ASSUME NEW r \in Requests, Die(r)
      PROVE  RotationInv'
  <2>1. /\ req' = [req EXCEPT ![r] = Idle] /\ refresh' = refresh
        /\ used' = [used EXCEPT !.faults = @ + 1]
    BY <1>1 DEF Die, Throw, Goto, tables
  <2>2. used'.overlaps = used.overlaps
    BY <2>1 DEF TypeInv, UsedOK
  <2>3. used.overlaps <= used'.overlaps
    BY <1>0, <2>2
  <2> QED
    BY <1>0, <2>1, <2>3, IdleTyped, RotationStays
<1>2. CASE Lapse
  <2>1. req' = req /\ used' = [used EXCEPT !.lapses = @ + 1]
    BY <1>2 DEF Lapse
  <2>2. used'.overlaps = used.overlaps
    BY <2>1 DEF TypeInv, UsedOK
  <2>3. used.overlaps <= used'.overlaps
    BY <1>0, <2>2
  <2>4. refresh' = refresh \/ \E k \in DOMAIN refresh : refresh' = [refresh EXCEPT ![k].expired = TRUE]
    BY <1>2 DEF Lapse
  <2>5. /\ DOMAIN refresh' = DOMAIN refresh
        /\ \A k \in DOMAIN refresh : /\ refresh'[k].parent = refresh[k].parent
                                     /\ refresh[k].revoked => refresh'[k].revoked
    BY <1>0, <2>4 DEF RefreshRow
  <2> QED
    BY <2>1, <2>3, <2>5, RotationStays
<1>3. CASE UNCHANGED vars
  BY <1>0, <1>3, RotationStays DEF vars
<1> QED
  BY <1>1, <1>2, <1>3, BeginRotation, RunRotation DEF Next

\* A refresh token has one successor, and one more for each request that overlapped another.
THEOREM RotationHolds == Spec => []RotatedOnce
<1>1. Init => RotationInv
  <2> SUFFICES ASSUME Init, NEW k \in DOMAIN refresh
               PROVE  CountsAgree(k) /\ UnusedYet(k)
    BY DEF RotationInv
  <2>1. k = 1 /\ refresh[1].parent = 0 /\ DOMAIN refresh = {1} /\ used.overlaps = 0
    BY DEF Init
  <2>2. Successors(k) = {}
    BY <2>1 DEF Successors
  <2>3. Holders(k) = {}
    BY <2>1, IdleTyped DEF Holders, Init
  <2>4. Cardinality({}) = 0
    BY FS_EmptySet
  <2> QED
    BY <2>1, <2>2, <2>3, <2>4 DEF CountsAgree, UnusedYet
<1>2. TypeInv /\ TypeInv' /\ RotationInv /\ [Next]_vars => RotationInv'
  BY NextRotation
<1>3. TypeInv /\ RotationInv => RotatedOnce
  <2> SUFFICES ASSUME TypeInv, RotationInv, NEW k \in DOMAIN refresh
               PROVE  Cardinality({j \in DOMAIN refresh : refresh[j].parent = k}) <= 1 + used.overlaps
    BY DEF RotatedOnce
  <2>1. CountsAgree(k) /\ Cardinality(Successors(k)) \in Nat /\ Cardinality(Holders(k)) \in Nat
        /\ used.overlaps \in Nat
    BY RotationFinite DEF RotationInv
  <2>2. Cardinality(Successors(k)) <= 1 + used.overlaps
    BY <2>1 DEF CountsAgree
  <2> QED
    BY <2>2 DEF Successors
<1> QED
  BY <1>1, <1>2, <1>3, TypesAlways, PTL DEF Spec

-----------------------------------------------------------------------------
(* The answers judged by a code and the passwords it set, with those under way.  Every *)
(* request that will save the row brings back what it read.                            *)

Writers(k) == {r \in Requests : WritesCode(req[r]) /\ req[r].code = k}
Wrongs(k) == {r \in Writers(k) : req[r].op = "wrong"}
Resets(k) == {r \in Writers(k) : req[r].op = "reset" /\ req[r].pc = "saveUser"}
Judged(k) == codes[k].tried + Cardinality(Wrongs(k))
Renewed(k) == codes[k].resets + Cardinality(Resets(k))
Slack == used.overlaps + used.faults
AnswersCounted(k) ==
    /\ Judged(k) <= used.overlaps + codes[k].attempts + (IF Wrongs(k) = {} THEN 0 ELSE 1)
    /\ \A r \in Writers(k) : Judged(k) <= used.overlaps + req[r].row.attempts
ResetsCounted(k) ==
    /\ Renewed(k) <= 1 + Slack
    /\ \A r \in Writers(k) : ~req[r].row.used => Renewed(k) <= Slack
    /\ ~codes[k].used /\ (\A r \in Writers(k) : req[r].op # "reset") => Renewed(k) <= Slack
CodesInv == \A k \in DOMAIN codes : AnswersCounted(k) /\ ResetsCounted(k)

\* The sets that are counted are finite, and what is counted with them are numbers.
LEMMA WritersFinite ==
    ASSUME TypeInv, NEW k
    PROVE  /\ IsFiniteSet(Wrongs(k)) /\ Cardinality(Wrongs(k)) \in Nat
           /\ IsFiniteSet(Resets(k)) /\ Cardinality(Resets(k)) \in Nat
           /\ used.overlaps \in Nat /\ used.faults \in Nat /\ Slack \in Nat
<1>1. Wrongs(k) \in SUBSET Requests /\ Resets(k) \in SUBSET Requests
  BY DEF Wrongs, Resets, Writers
<1>2. used.overlaps \in Nat /\ used.faults \in Nat
  BY AccountsAssumption DEF TypeInv, UsedOK
<1> HIDE DEF Wrongs, Resets
<1>3. /\ IsFiniteSet(Wrongs(k)) /\ Cardinality(Wrongs(k)) \in Nat
      /\ IsFiniteSet(Resets(k)) /\ Cardinality(Resets(k)) \in Nat
  BY <1>1, FiniteRequests
<1> QED
  BY <1>2, <1>3 DEF Slack

\* The numbers of a code.
LEMMA CodeNumbers ==
    ASSUME TypeInv, NEW k \in DOMAIN codes
    PROVE  /\ codes[k].tried \in Nat /\ codes[k].resets \in Nat
           /\ codes[k].attempts \in 0..MaxAttempts /\ codes[k].attempts \in Nat
           /\ codes[k].used \in BOOLEAN
           /\ \A r \in Requests : /\ req[r].row.attempts \in 0..MaxAttempts
                                  /\ req[r].row.attempts \in Nat /\ req[r].row.used \in BOOLEAN
           /\ Judged(k) \in Nat /\ Renewed(k) \in Nat
<1>1. codes[k] \in CodeRow
  BY RowsTyped
<1>2. /\ codes[k].tried \in Nat /\ codes[k].resets \in Nat
      /\ codes[k].attempts \in 0..MaxAttempts /\ codes[k].attempts \in Nat
      /\ codes[k].used \in BOOLEAN
  BY <1>1, AccountsAssumption DEF CodeRow
<1>3. \A r \in Requests : req[r].row \in CodeRow
  BY RowsTyped DEF Request
<1>4. \A r \in Requests : /\ req[r].row.attempts \in 0..MaxAttempts
                          /\ req[r].row.attempts \in Nat /\ req[r].row.used \in BOOLEAN
  BY <1>3, AccountsAssumption DEF CodeRow
<1>5. Cardinality(Wrongs(k)) \in Nat /\ Cardinality(Resets(k)) \in Nat
  BY WritersFinite
<1> QED
  BY <1>2, <1>4, <1>5 DEF Judged, Renewed

\* No request begins to write the code, and one that no longer will has not saved it: it died,
\* or it found the address of its user taken.
LEMMA CodeStays ==
    ASSUME TypeInv, TypeInv', NEW k \in DOMAIN codes, k \in DOMAIN codes',
           AnswersCounted(k), ResetsCounted(k),
           used.overlaps <= used'.overlaps, used.faults <= used'.faults,
           codes'[k].tried = codes[k].tried, codes'[k].resets = codes[k].resets,
           codes'[k].attempts = codes[k].attempts, codes'[k].used = codes[k].used,
           \A s \in Requests :
             \/ req'[s] = req[s]
             \/ /\ WritesCode(req'[s]) => req'[s].code # k
                /\ req[s].pc = "saveCode" /\ req[s].code = k => used'.faults = used.faults + 1
    PROVE  AnswersCounted(k)' /\ ResetsCounted(k)'
<1> USE DEF Writers, Wrongs, Resets
<1>1. /\ Wrongs(k)' \subseteq Wrongs(k) /\ Resets(k)' \subseteq Resets(k)
      /\ Writers(k)' \subseteq Writers(k) /\ \A s \in Writers(k)' : req'[s] = req[s]
  OBVIOUS
<1>2. \A s \in Writers(k) : \/ s \in Writers(k)' \/ s \in Resets(k) \ Resets(k)'
                            \/ req[s].op # "reset" \/ used'.faults = used.faults + 1
  BY DEF WritesCode
<1>3. Writers(k) \subseteq Requests
  OBVIOUS
<1> HIDE DEF Writers, Wrongs, Resets
<1>4. /\ IsFiniteSet(Wrongs(k)) /\ Cardinality(Wrongs(k)) \in Nat
      /\ IsFiniteSet(Resets(k)) /\ Cardinality(Resets(k)) \in Nat
      /\ used.overlaps \in Nat /\ used.faults \in Nat /\ Slack \in Nat
  BY WritersFinite
<1>5. /\ codes[k].tried \in Nat /\ codes[k].resets \in Nat /\ codes[k].attempts \in Nat
      /\ \A r \in Requests : req[r].row.attempts \in Nat
      /\ Judged(k) \in Nat /\ Renewed(k) \in Nat
  BY CodeNumbers
<1>6. /\ Cardinality(Wrongs(k)') \in Nat /\ Cardinality(Wrongs(k)') <= Cardinality(Wrongs(k))
      /\ Cardinality(Resets(k)') \in Nat /\ Cardinality(Resets(k)') <= Cardinality(Resets(k))
      /\ Wrongs(k)' # Wrongs(k) => Cardinality(Wrongs(k)') < Cardinality(Wrongs(k))
      /\ Resets(k)' # Resets(k) => Cardinality(Resets(k)') < Cardinality(Resets(k))
  BY <1>1, <1>4, FS_Subset, FS_CardinalityType
<1>7. used'.overlaps \in Nat /\ used'.faults \in Nat
  BY AccountsAssumption DEF TypeInv, UsedOK
<1>8. Judged(k)' <= Judged(k) /\ Renewed(k)' <= Renewed(k) /\ Slack <= Slack'
      /\ Judged(k)' \in Nat /\ Renewed(k)' \in Nat /\ Slack' \in Nat
  BY <1>4, <1>5, <1>6, <1>7 DEF Judged, Renewed, Slack
<1>9. AnswersCounted(k)'
  <2>1. Judged(k)' <= used'.overlaps + codes'[k].attempts + (IF Wrongs(k)' = {} THEN 0 ELSE 1)
    <3>1. CASE Wrongs(k)' = {} /\ Wrongs(k) # {}
      <4>1. Judged(k)' + 1 <= Judged(k)
        BY <1>4, <1>5, <1>6, <3>1 DEF Judged
      <4> QED
        BY <1>4, <1>5, <1>7, <1>8, <3>1, <4>1 DEF AnswersCounted
    <3>2. CASE Wrongs(k)' # {} \/ Wrongs(k) = {}
      <4>1. Wrongs(k)' = {} <=> Wrongs(k) = {}
        BY <1>1, <3>2
      <4> QED
        BY <1>4, <1>5, <1>7, <1>8, <4>1 DEF AnswersCounted
    <3> QED
      BY <3>1, <3>2
  <2>2. ASSUME NEW r \in Writers(k)'
        PROVE  Judged(k)' <= used'.overlaps + req'[r].row.attempts
    <3>1. r \in Writers(k) /\ req'[r] = req[r] /\ req[r].row.attempts \in Nat
      BY <1>1, <1>3, <1>5
    <3>2. Judged(k) <= used.overlaps + req[r].row.attempts
      BY <3>1 DEF AnswersCounted
    <3> QED
      BY <1>4, <1>5, <1>7, <1>8, <3>1, <3>2
  <2> QED
    BY <2>1, <2>2 DEF AnswersCounted
<1>10. ResetsCounted(k)'
  <2>1. Renewed(k)' <= 1 + Slack'
    BY <1>4, <1>5, <1>8 DEF ResetsCounted
  <2>2. ASSUME NEW r \in Writers(k)', ~req'[r].row.used
        PROVE  Renewed(k)' <= Slack'
    <3>1. Renewed(k) <= Slack
      BY <1>1, <2>2 DEF ResetsCounted
    <3> QED
      BY <1>4, <1>5, <1>8, <3>1
  <2>3. ASSUME ~codes'[k].used, \A r \in Writers(k)' : req'[r].op # "reset"
        PROVE  Renewed(k)' <= Slack'
    <3>1. CASE \A r \in Writers(k) : req[r].op # "reset"
      <4>1. Renewed(k) <= Slack
        BY <2>3, <3>1 DEF ResetsCounted
      <4> QED
        BY <1>4, <1>5, <1>8, <4>1
    <3>2. CASE \E r \in Writers(k) : req[r].op = "reset"
      <4>1. PICK r \in Writers(k) : req[r].op = "reset"
        BY <3>2
      <4>2. r \in Resets(k) \ Resets(k)' \/ used'.faults = used.faults + 1
        BY <1>1, <1>2, <2>3, <4>1
      <4>3. CASE r \in Resets(k) \ Resets(k)'
        <5>1. Renewed(k)' + 1 <= Renewed(k)
          BY <1>4, <1>5, <1>6, <4>3 DEF Renewed
        <5> QED
          BY <1>4, <1>5, <1>8, <5>1 DEF ResetsCounted
      <4>4. CASE used'.faults = used.faults + 1
        <5>1. Slack + 1 <= Slack'
          BY <1>4, <1>7, <4>4 DEF Slack
        <5> QED
          BY <1>4, <1>5, <1>8, <5>1 DEF ResetsCounted
      <4> QED
        BY <4>2, <4>3, <4>4
    <3> QED
      BY <3>1, <3>2
  <2> QED
    BY <2>1, <2>2, <2>3 DEF ResetsCounted
<1> QED
  BY <1>9, <1>10

\* So for all codes, and for those that are inserted, which nobody has read yet.
LEMMA CodesStay ==
    ASSUME TypeInv, TypeInv', CodesInv,
           used.overlaps <= used'.overlaps, used.faults <= used'.faults,
           \A k \in DOMAIN codes :
             /\ k \in DOMAIN codes'
             /\ codes'[k].tried = codes[k].tried /\ codes'[k].resets = codes[k].resets
             /\ codes'[k].attempts = codes[k].attempts /\ codes'[k].used = codes[k].used,
           \A k \in DOMAIN codes' \ DOMAIN codes : codes'[k].tried = 0 /\ codes'[k].resets = 0,
           \A s \in Requests :
             \/ req'[s] = req[s]
             \/ /\ ~WritesCode(req'[s])
                /\ req[s].pc = "saveCode" => used'.faults = used.faults + 1
    PROVE  CodesInv'
<1>1. SUFFICES ASSUME NEW k \in DOMAIN codes'
               PROVE  AnswersCounted(k)' /\ ResetsCounted(k)'
  BY DEF CodesInv
<1>2. CASE k \in DOMAIN codes
  BY <1>2, CodeStays DEF CodesInv
<1>3. CASE k \notin DOMAIN codes
  <2>1. Writers(k)' = {}
    <3> SUFFICES ASSUME NEW s \in Requests, WritesCode(req'[s]), req'[s].code = k
                 PROVE  FALSE
      BY DEF Writers
    <3>1. WritesCode(req[s]) /\ req[s].code = k
      OBVIOUS
    <3>2. HoldsCode(req[s], Sizes) /\ codes \in Seq(CodeRow)
      BY RowsTyped DEF Holding, TypeInv, TablesOK
    <3>3. k \in 1..Len(codes)
      BY <3>1, <3>2 DEF HoldsCode, Sizes
    <3> QED
      BY <1>3, <3>2, <3>3
  <2>2. codes'[k].tried = 0 /\ codes'[k].resets = 0
    BY <1>1, <1>3
  <2>3. Wrongs(k)' = {} /\ Resets(k)' = {} /\ Cardinality({}) = 0
    BY <2>1, FS_EmptySet DEF Wrongs, Resets
  <2>4. used'.overlaps \in Nat /\ used'.faults \in Nat /\ codes'[k].attempts \in Nat
    <3>1. used'.overlaps \in Nat /\ used'.faults \in Nat
      BY AccountsAssumption DEF TypeInv, UsedOK
    <3>2. codes' \in Seq(CodeRow)
      BY DEF TypeInv, TablesOK
    <3>3. codes'[k] \in CodeRow
      BY <3>2
    <3> QED
      BY <3>1, <3>3, AccountsAssumption DEF CodeRow
  <2>5. Judged(k)' = 0 /\ Renewed(k)' = 0 /\ Slack' \in Nat
    BY <2>2, <2>3, <2>4 DEF Judged, Renewed, Slack
  <2>6. AnswersCounted(k)'
    BY <2>1, <2>3, <2>4, <2>5 DEF AnswersCounted
  <2>7. ResetsCounted(k)'
    BY <2>1, <2>5 DEF ResetsCounted
  <2> QED
    BY <2>6, <2>7
<1> QED
  BY <1>2, <1>3

\* An answer is judged by what it reads: alone it reads what all those before it have
\* saved, and it may miss those that overlap.
LEMMA AnswerCodes ==
    ASSUME TypeInv, TypeInv', CodesInv, NEW r \in Requests, Free(r), NEW q, BeginsWith(r, q),
           WritesCode(q)
    PROVE  CodesInv'
<1>0. req[r] = Idle /\ req \in [Requests -> Request] /\ ~WritesCode(Idle)
  BY DEF Free, Running, TypeInv, RequestsHold, WritesCode, Idle
<1>1. /\ req' = [req EXCEPT ![r] = q] /\ codes' = codes /\ used'.faults = used.faults
      /\ used'.overlaps = used.overlaps + (IF Overlaps(r) THEN 1 ELSE 0)
  BY CallCounts DEF TypeInv, BeginsWith, tables
<1>2. /\ used.overlaps \in Nat /\ used.faults \in Nat /\ Slack \in Nat
      /\ used'.overlaps \in Nat /\ used'.faults \in Nat /\ used.overlaps <= used'.overlaps
      /\ Slack' = Slack + (IF Overlaps(r) THEN 1 ELSE 0)
  BY <1>1, WritersFinite DEF Slack
<1>3. StartsAnswer(q)
  BY DEF BeginsWith, Starts
<1> SUFFICES ASSUME NEW k \in DOMAIN codes
             PROVE  AnswersCounted(k)' /\ ResetsCounted(k)'
  BY <1>1 DEF CodesInv
<1>4. AnswersCounted(k) /\ ResetsCounted(k)
  BY DEF CodesInv
<1>5. CASE q.code # k
  <2>1. /\ k \in DOMAIN codes'
        /\ codes'[k].tried = codes[k].tried /\ codes'[k].resets = codes[k].resets
        /\ codes'[k].attempts = codes[k].attempts /\ codes'[k].used = codes[k].used
    BY <1>1
  <2>2. \A s \in Requests :
          \/ req'[s] = req[s]
          \/ /\ WritesCode(req'[s]) => req'[s].code # k
             /\ req[s].pc = "saveCode" => used'.faults = used.faults + 1
    BY <1>0, <1>1, <1>5 DEF WritesCode
  <2>3. used.faults <= used'.faults
    BY <1>1, <1>2
  <2> HIDE DEF AnswersCounted, ResetsCounted
  <2> QED
    BY <1>2, <1>4, <2>1, <2>2, <2>3, CodeStays
<1>6. CASE q.code = k
  <2> DEFINE wrong == IF q.op = "wrong" THEN 1 ELSE 0
             reset == IF q.op = "reset" THEN 1 ELSE 0
             overlap == IF Overlaps(r) THEN 1 ELSE 0
  <2>1. /\ ~codes[k].used /\ q.row.attempts = codes[k].attempts + wrong
        /\ q.op = "reset" => q.pc = "saveUser" /\ q.row.used
    BY <1>3, <1>6 DEF StartsAnswer, Live
  <2>2. /\ Writers(k)' = Writers(k) \cup {r} /\ r \notin Writers(k)
        /\ Wrongs(k)' = (IF q.op = "wrong" THEN Wrongs(k) \cup {r} ELSE Wrongs(k)) /\ r \notin Wrongs(k)
        /\ Resets(k)' = (IF q.op = "reset" THEN Resets(k) \cup {r} ELSE Resets(k)) /\ r \notin Resets(k)
    <3>1. \A s \in Requests : req'[s] = IF s = r THEN q ELSE req[s]
      BY <1>0, <1>1
    <3>2. Writers(k)' = Writers(k) \cup {r} /\ r \notin Writers(k)
      BY <1>0, <1>6, <3>1 DEF Writers
    <3>3. /\ Wrongs(k)' = (IF q.op = "wrong" THEN Wrongs(k) \cup {r} ELSE Wrongs(k))
          /\ r \notin Wrongs(k)
      BY <3>1, <3>2 DEF Wrongs, Writers
    <3>4. /\ Resets(k)' = (IF q.op = "reset" THEN Resets(k) \cup {r} ELSE Resets(k))
          /\ r \notin Resets(k)
      BY <2>1, <3>1, <3>2 DEF Resets, Writers
    <3> QED
      BY <3>2, <3>3, <3>4
  <2>3. /\ IsFiniteSet(Wrongs(k)) /\ Cardinality(Wrongs(k)) \in Nat
        /\ IsFiniteSet(Resets(k)) /\ Cardinality(Resets(k)) \in Nat
    BY WritersFinite
  <2>4. /\ Cardinality(Wrongs(k)') = Cardinality(Wrongs(k)) + wrong
        /\ Cardinality(Resets(k)') = Cardinality(Resets(k)) + reset
    <3>1. /\ Cardinality(Wrongs(k) \cup {r}) = Cardinality(Wrongs(k)) + 1
          /\ Cardinality(Resets(k) \cup {r}) = Cardinality(Resets(k)) + 1
      BY <2>2, <2>3, FS_AddElement
    <3> QED
      BY <2>2, <2>3, <3>1
  <2>5. /\ Judged(k) \in Nat /\ Renewed(k) \in Nat /\ codes[k].attempts \in Nat
        /\ codes[k].tried \in Nat /\ codes[k].resets \in Nat
        /\ \A s \in Requests : req[s].row.attempts \in Nat
    BY CodeNumbers
  <2>6. Judged(k)' = Judged(k) + wrong /\ Renewed(k)' = Renewed(k) + reset
    BY <1>1, <2>3, <2>4, <2>5 DEF Judged, Renewed
  <2>7. ~Overlaps(r) => Writers(k) = {}
    <3> SUFFICES ASSUME NEW s \in Writers(k)
                 PROVE  Overlaps(r)
      OBVIOUS
    <3>1. s \in Requests /\ WritesCode(req[s]) /\ s # r
      BY <2>2 DEF Writers
    <3> QED
      BY <1>0, <3>1 DEF Overlaps, Running
  <2>8. Writers(k) = {} => Wrongs(k) = {} /\ Resets(k) = {}
    BY DEF Wrongs, Resets
  <2>9. \A s \in Writers(k)' : (s = r /\ req'[s] = q) \/ (s \in Writers(k) /\ s \in Requests /\ req'[s] = req[s])
    BY <1>0, <1>1, <2>2 DEF Writers
  <2>w. wrong \in {0, 1} /\ reset \in {0, 1} /\ (q.op = "wrong" <=> wrong = 1) /\ (q.op = "reset" <=> reset = 1)
    OBVIOUS
  <2>o. used'.overlaps = used.overlaps + overlap /\ Slack' = Slack + overlap /\ overlap \in {0, 1}
        /\ (Overlaps(r) <=> overlap = 1)
    BY <1>1, <1>2
  <2>e. wrong = 1 => Wrongs(k)' # {}
    BY <2>2, <2>w
  <2>f. wrong = 0 => Wrongs(k)' = Wrongs(k)
    BY <2>2, <2>w
  <2> HIDE DEF wrong, reset, overlap
  <2>10. Judged(k) <= used'.overlaps + codes[k].attempts
    <3>1. CASE Overlaps(r)
      BY <1>2, <1>4, <2>5, <2>o, <3>1 DEF AnswersCounted
    <3>2. CASE ~Overlaps(r)
      BY <1>2, <1>4, <2>5, <2>7, <2>8, <2>o, <3>2 DEF AnswersCounted
    <3> QED
      BY <3>1, <3>2
  <2>11. AnswersCounted(k)'
    <3>1. Judged(k)' <= used'.overlaps + codes'[k].attempts + (IF Wrongs(k)' = {} THEN 0 ELSE 1)
      <4>1. codes'[k].attempts = codes[k].attempts
        BY <1>1
      <4>2. CASE wrong = 1
        BY <1>2, <2>5, <2>6, <2>10, <2>e, <4>1, <4>2
      <4>3. CASE wrong = 0
        BY <1>2, <2>5, <2>6, <2>10, <4>1, <4>3
      <4> QED
        BY <2>w, <4>2, <4>3
    <3>2. ASSUME NEW s \in Writers(k)'
          PROVE  Judged(k)' <= used'.overlaps + req'[s].row.attempts
      <4>1. CASE s = r /\ req'[s] = q
        BY <1>2, <2>1, <2>5, <2>6, <2>10, <2>w, <4>1
      <4>2. CASE s \in Writers(k) /\ s \in Requests /\ req'[s] = req[s]
        <5>1. Overlaps(r) /\ Judged(k) <= used.overlaps + req[s].row.attempts
          BY <1>4, <2>7, <4>2 DEF AnswersCounted
        <5> QED
          BY <1>2, <2>5, <2>6, <2>o, <2>w, <4>2, <5>1
      <4> QED
        BY <2>9, <4>1, <4>2
    <3> QED
      BY <3>1, <3>2 DEF AnswersCounted
  <2>12. Renewed(k) <= Slack'
    <3>1. CASE Overlaps(r)
      BY <1>2, <1>4, <2>5, <2>o, <3>1 DEF ResetsCounted
    <3>2. CASE ~Overlaps(r)
      BY <1>2, <1>4, <2>1, <2>5, <2>7, <2>o, <3>2 DEF ResetsCounted
    <3> QED
      BY <3>1, <3>2
  <2>13. ResetsCounted(k)'
    <3>s. Slack' \in Nat
      BY <1>2, <2>o
    <3>1. Renewed(k)' <= 1 + Slack'
      BY <3>s, <2>5, <2>6, <2>12, <2>w
    <3>2. ASSUME NEW s \in Writers(k)', ~req'[s].row.used
          PROVE  Renewed(k)' <= Slack'
      <4>1. CASE s = r /\ req'[s] = q
        BY <3>2, <3>s, <2>1, <2>5, <2>6, <2>12, <2>w, <4>1
      <4>2. CASE s \in Writers(k) /\ s \in Requests /\ req'[s] = req[s]
        <5>1. Overlaps(r) /\ Renewed(k) <= Slack
          BY <1>4, <2>7, <3>2, <4>2 DEF ResetsCounted
        <5> QED
          BY <1>2, <2>5, <2>6, <2>o, <2>w, <5>1
      <4> QED
        BY <2>9, <4>1, <4>2
    <3>3. ASSUME \A s \in Writers(k)' : req'[s].op # "reset"
          PROVE  Renewed(k)' <= Slack'
      <4>1. q.op # "reset"
        BY <1>0, <1>1, <2>2, <3>3
      <4> QED
        BY <2>5, <2>6, <2>12, <2>w, <4>1
    <3> QED
      BY <3>1, <3>2, <3>3 DEF ResetsCounted
  <2> QED
    BY <2>11, <2>13
<1> QED
  BY <1>5, <1>6

\* A call.
LEMMA BeginCodes ==
    ASSUME TypeInv, TypeInv', CodesInv, NEW r \in Requests, Begin(r)
    PROVE  CodesInv'
<1>0. Free(r) /\ req[r] = Idle /\ req \in [Requests -> Request] /\ ~WritesCode(Idle)
      /\ Idle.pc # "saveCode"
  BY DEF Begin, Free, Running, TypeInv, RequestsHold, WritesCode, Idle
<1>a. ASSUME NEW q, Call(r, q), codes' = codes, ~WritesCode(q)
      PROVE  CodesInv'
  <2>1. /\ req' = [req EXCEPT ![r] = q] /\ used'.faults = used.faults
        /\ used'.overlaps = used.overlaps + (IF Overlaps(r) THEN 1 ELSE 0)
        /\ used.overlaps \in Nat /\ used.faults \in Nat
    BY <1>0, <1>a, CallCounts, WritersFinite DEF TypeInv
  <2>2. used.overlaps <= used'.overlaps /\ used.faults <= used'.faults
    BY <2>1
  <2>3. \A s \in Requests : \/ req'[s] = req[s]
                            \/ ~WritesCode(req'[s]) /\ req[s].pc # "saveCode"
    BY <1>0, <1>a, <2>1
  <2> HIDE DEF CodesInv
  <2> QED
    BY <1>a, <2>2, <2>3, CodesStay
<1>1. ASSUME NEW q, BeginsWith(r, q)
      PROVE  CodesInv'
  BY <1>0, <1>a, <1>1, AnswerCodes DEF BeginsWith, tables
<1>2. ASSUME NEW k, Logout(r, k) \/ ExpireInvite(r, k)
      PROVE  CodesInv'
  BY <1>0, <1>a, <1>2 DEF Logout, ExpireInvite
<1> QED
  BY <1>1, <1>2, BeginsOrDone

\* The user is saved: a password that is set was counted.
LEMMA SaveUserCodes ==
    ASSUME TypeInv, TypeInv', CodesInv, NEW r \in Requests, SaveUser(r)
    PROVE  CodesInv'
<1> DEFINE p == req[r]
           q == [p EXCEPT !.pc = "saveCode"]
<1>0. /\ req \in [Requests -> Request] /\ p \in Request /\ p.pc = "saveUser" /\ HoldsCode(p, Sizes)
      /\ codes \in Seq(CodeRow) /\ used' = used
  BY RowsTyped DEF TypeInv, RequestsHold, TablesOK, Holding, SaveUser
<1>1. CASE req' = [req EXCEPT ![r] = Idle] /\ codes' = codes
  <2>1. used.overlaps <= used'.overlaps /\ used.faults <= used'.faults
    BY <1>0, WritersFinite
  <2>2. \A s \in Requests : \/ req'[s] = req[s]
                            \/ ~WritesCode(req'[s]) /\ req[s].pc # "saveCode"
    BY <1>0, <1>1 DEF WritesCode, Idle
  <2> HIDE DEF CodesInv
  <2> QED
    BY <1>1, <2>1, <2>2, CodesStay
<1>2. CASE /\ req' = [req EXCEPT ![r] = q] /\ p.op # "update"
           /\ codes' = IF p.op = "reset" THEN [codes EXCEPT ![p.code].resets = @ + 1] ELSE codes
  <2>1. p.code \in DOMAIN codes
    BY <1>0, <1>2 DEF HoldsCode, WritesCode, Sizes
  <2>2. /\ q.pc = "saveCode" /\ q.op = p.op /\ q.code = p.code /\ q.row = p.row
    BY <1>0 DEF Request
  <2> HIDE DEF q
  <2>3. \A s \in Requests : /\ WritesCode(req'[s]) <=> WritesCode(req[s])
                            /\ req'[s].op = req[s].op /\ req'[s].code = req[s].code
                            /\ req'[s].row = req[s].row /\ (s # r => req'[s] = req[s])
    BY <1>0, <1>2, <2>2 DEF WritesCode
  <2> SUFFICES ASSUME NEW k \in DOMAIN codes
               PROVE  AnswersCounted(k)' /\ ResetsCounted(k)'
    BY <1>2 DEF CodesInv
  <2>4. /\ codes[k] \in CodeRow /\ codes[p.code] \in CodeRow /\ codes[k].resets \in Nat
        /\ codes[k].tried \in Nat
    BY <2>1, RowsTyped DEF CodeRow
  <2>5. /\ codes'[k].tried = codes[k].tried /\ codes'[k].attempts = codes[k].attempts
        /\ codes'[k].used = codes[k].used
        /\ codes'[k].resets = codes[k].resets + (IF k = p.code /\ p.op = "reset" THEN 1 ELSE 0)
    <3>1. CASE p.op = "reset" /\ k = p.code
      <4>1. codes'[k] = [codes[k] EXCEPT !.resets = @ + 1]
        BY <1>0, <1>2, <2>1, <3>1
      <4> QED
        BY <2>4, <3>1, <4>1 DEF CodeRow
    <3>2. CASE ~(p.op = "reset" /\ k = p.code)
      <4>1. codes'[k] = codes[k]
        BY <1>0, <1>2, <2>1, <3>2
      <4> QED
        BY <2>4, <3>2, <4>1
    <3> QED
      BY <3>1, <3>2
  <2>6. Writers(k)' = Writers(k) /\ Wrongs(k)' = Wrongs(k)
    BY <2>3 DEF Writers, Wrongs
  <2>7. Resets(k)' = IF k = p.code /\ p.op = "reset" THEN Resets(k) \ {r} ELSE Resets(k)
    BY <1>0, <1>2, <2>2, <2>3 DEF Writers, Resets
  <2>8. k = p.code /\ p.op = "reset" => r \in Resets(k)
    BY <1>0, <1>2 DEF Writers, Resets, WritesCode
  <2>9. IsFiniteSet(Resets(k)) /\ Cardinality(Resets(k)) \in Nat
    BY WritersFinite
  <2>10. Renewed(k)' = Renewed(k)
    <3>1. CASE k = p.code /\ p.op = "reset"
      <4>1. Cardinality(Resets(k) \ {r}) = Cardinality(Resets(k)) - 1
        BY <2>8, <2>9, <3>1, FS_RemoveElement
      <4> QED
        BY <2>4, <2>5, <2>7, <2>9, <3>1, <4>1 DEF Renewed
    <3>2. CASE ~(k = p.code /\ p.op = "reset")
      BY <2>4, <2>5, <2>7, <2>9, <3>2 DEF Renewed
    <3> QED
      BY <3>1, <3>2
  <2>11. Judged(k)' = Judged(k)
    BY <2>5, <2>6 DEF Judged
  <2>12. AnswersCounted(k) /\ ResetsCounted(k) /\ Slack' = Slack
    BY <1>0 DEF CodesInv, Slack
  <2>13. \A s \in Writers(k) : req'[s].row = req[s].row /\ req'[s].op = req[s].op
    BY <2>3 DEF Writers
  <2>14. AnswersCounted(k)'
    BY <1>0, <2>5, <2>6, <2>11, <2>12, <2>13 DEF AnswersCounted
  <2>15. ResetsCounted(k)'
    BY <1>0, <2>5, <2>6, <2>10, <2>12, <2>13 DEF ResetsCounted
  <2> QED
    BY <2>14, <2>15
<1> QED
  BY <1>1, <1>2 DEF SaveUser, Goto, Throw, tables

\* The code is saved: the row is as old as it was when it was read, and counted as such.
LEMMA SaveCodeCodes ==
    ASSUME TypeInv, TypeInv', CodesInv, NEW r \in Requests, SaveCode(r)
    PROVE  CodesInv'
<1> DEFINE p == req[r]
           c == p.code
           wrong == IF p.op = "wrong" THEN 1 ELSE 0
           row == [p.row EXCEPT !.mailed = codes[c].mailed, !.resets = codes[c].resets,
                                !.tried = codes[c].tried + wrong]
<1>0. /\ req \in [Requests -> Request] /\ p \in Request /\ p.pc = "saveCode" /\ HoldsCode(p, Sizes)
      /\ codes \in Seq(CodeRow) /\ used' = used /\ p.row \in CodeRow /\ ~WritesCode(Idle)
  BY RowsTyped DEF TypeInv, RequestsHold, TablesOK, Holding, SaveCode, Request, WritesCode, Idle
<1>1. req' = [req EXCEPT ![r] = Idle] /\ codes' = [codes EXCEPT ![c] = row]
  BY DEF SaveCode, Goto
<1>2. c \in DOMAIN codes
  BY <1>0 DEF HoldsCode, WritesCode, Sizes
<1>3. /\ row.used = p.row.used /\ row.attempts = p.row.attempts /\ row.resets = codes[c].resets
      /\ row.tried = codes[c].tried + wrong
  BY <1>0 DEF CodeRow
<1>4. wrong \in {0, 1} /\ (p.op = "wrong" <=> wrong = 1)
  OBVIOUS
<1> HIDE DEF row, wrong
<1> SUFFICES ASSUME NEW k \in DOMAIN codes
             PROVE  AnswersCounted(k)' /\ ResetsCounted(k)'
  BY <1>1 DEF CodesInv
<1>5. AnswersCounted(k) /\ ResetsCounted(k) /\ Slack' = Slack
  BY <1>0 DEF CodesInv, Slack
<1>6. /\ used.overlaps \in Nat /\ used.faults \in Nat
      /\ used.overlaps <= used'.overlaps /\ used.faults <= used'.faults
  BY <1>0, WritersFinite
<1>7. CASE k # c
  <2>1. k \in DOMAIN codes' /\ codes'[k] = codes[k]
    BY <1>0, <1>1, <1>7
  <2>2. \A s \in Requests :
          \/ req'[s] = req[s]
          \/ /\ WritesCode(req'[s]) => req'[s].code # k
             /\ req[s].pc = "saveCode" /\ req[s].code = k => used'.faults = used.faults + 1
    BY <1>0, <1>1, <1>7
  <2> HIDE DEF AnswersCounted, ResetsCounted
  <2> QED
    BY <1>5, <1>6, <2>1, <2>2, CodeStays
<1>8. CASE k = c
  <2>1. codes'[k] = row
    BY <1>0, <1>1, <1>2, <1>8
  <2>2. \A s \in Requests : req'[s] = IF s = r THEN Idle ELSE req[s]
    BY <1>0, <1>1
  <2>3. Writers(k)' = Writers(k) \ {r} /\ r \in Writers(k)
    BY <1>0, <1>8, <2>2 DEF Writers, WritesCode
  <2>4. Wrongs(k)' = Wrongs(k) \ {r} /\ (r \in Wrongs(k) <=> p.op = "wrong")
    BY <2>2, <2>3 DEF Wrongs, Writers
  <2>5. Resets(k)' = Resets(k)
    BY <1>0, <2>2, <2>3 DEF Resets, Writers
  <2>6. /\ IsFiniteSet(Wrongs(k)) /\ Cardinality(Wrongs(k)) \in Nat
        /\ Cardinality(Resets(k)) \in Nat /\ codes[k].tried \in Nat /\ codes[k].resets \in Nat
        /\ Judged(k) \in Nat /\ p.row.attempts \in Nat
    BY WritersFinite, CodeNumbers
  <2>7. Judged(k)' = Judged(k)
    <3>1. CASE p.op = "wrong"
      <4>1. Cardinality(Wrongs(k) \ {r}) = Cardinality(Wrongs(k)) - 1
        BY <2>4, <2>6, <3>1, FS_RemoveElement
      <4> QED
        BY <1>3, <1>4, <1>8, <2>1, <2>4, <2>6, <3>1, <4>1 DEF Judged
    <3>2. CASE p.op # "wrong"
      <4>1. Wrongs(k)' = Wrongs(k)
        BY <2>4, <3>2
      <4> QED
        BY <1>3, <1>4, <1>8, <2>1, <2>6, <3>2, <4>1 DEF Judged
    <3> QED
      BY <3>1, <3>2
  <2>8. Renewed(k)' = Renewed(k)
    BY <1>3, <1>8, <2>1, <2>5 DEF Renewed
  <2>9. \A s \in Writers(k)' : s \in Writers(k) /\ req'[s] = req[s]
    BY <2>2, <2>3 DEF Writers
  <2>10. AnswersCounted(k)'
    <3>1. Judged(k) <= used.overlaps + p.row.attempts
      BY <1>5, <2>3 DEF AnswersCounted
    <3>2. Judged(k)' <= used'.overlaps + codes'[k].attempts + (IF Wrongs(k)' = {} THEN 0 ELSE 1)
      BY <1>0, <1>3, <1>6, <2>1, <2>6, <2>7, <3>1
    <3>3. \A s \in Writers(k)' : Judged(k)' <= used'.overlaps + req'[s].row.attempts
      BY <1>0, <1>5, <2>7, <2>9 DEF AnswersCounted
    <3> QED
      BY <3>2, <3>3 DEF AnswersCounted
  <2>11. ResetsCounted(k)'
    <3>1. ~p.row.used => Renewed(k) <= Slack
      BY <1>5, <2>3 DEF ResetsCounted
    <3>2. Renewed(k)' <= 1 + Slack'
      BY <1>5, <2>8 DEF ResetsCounted
    <3>3. \A s \in Writers(k)' : ~req'[s].row.used => Renewed(k)' <= Slack'
      BY <1>5, <2>8, <2>9 DEF ResetsCounted
    <3>4. ~codes'[k].used => Renewed(k)' <= Slack'
      BY <1>3, <1>5, <2>1, <2>8, <3>1
    <3> QED
      BY <3>2, <3>3, <3>4 DEF ResetsCounted
  <2> QED
    BY <2>10, <2>11
<1> QED
  BY <1>7, <1>8

\* Every statement.
LEMMA RunCodes ==
    ASSUME TypeInv, TypeInv', CodesInv, NEW r \in Requests, Run(r)
    PROVE  CodesInv'
<1>0. /\ req \in [Requests -> Request] /\ used' = used
      /\ codes \in Seq(CodeRow) /\ \A k \in DOMAIN codes : codes[k] \in CodeRow
      /\ used.overlaps <= used'.overlaps /\ used.faults <= used'.faults
  <2>1. /\ req \in [Requests -> Request] /\ used' = used
        /\ codes \in Seq(CodeRow) /\ \A k \in DOMAIN codes : codes[k] \in CodeRow
    BY Writes, RowsTyped DEF TypeInv, RequestsHold, TablesOK
  <2>2. used.overlaps \in Nat /\ used.faults \in Nat
    BY WritersFinite
  <2> QED
    BY <2>1, <2>2
<1>1. CASE SaveUser(r)
  BY <1>1, SaveUserCodes
<1>2. CASE SaveCode(r)
  BY <1>2, SaveCodeCodes
<1>3. CASE req[r].pc \notin {"saveUser", "saveCode"}
  <2>1. PICK q : req' = [req EXCEPT ![r] = q] /\ (q = Idle \/ Continues(req[r], q))
    BY RunFlows DEF GoesTo
  <2>2. ~WritesCode(q)
    <3>1. Idle.pc = "idle"
      BY DEF Idle
    <3>2. Continues(req[r], q) => q.pc \notin {"saveUser", "saveCode"}
      BY <1>3 DEF Continues, Flow
    <3> QED
      BY <2>1, <3>1, <3>2 DEF WritesCode
  <2>3. \A s \in Requests : \/ req'[s] = req[s]
                            \/ ~WritesCode(req'[s]) /\ req[s].pc # "saveCode"
    BY <1>0, <1>3, <2>1, <2>2
  <2>4. ASSUME DOMAIN codes' = DOMAIN codes,
               \A k \in DOMAIN codes :
                 /\ codes'[k].tried = codes[k].tried /\ codes'[k].resets = codes[k].resets
                 /\ codes'[k].attempts = codes[k].attempts /\ codes'[k].used = codes[k].used
        PROVE  CodesInv'
    BY <1>0, <2>3, <2>4, CodesStay
  <2>5. ASSUME NEW e, NEW purpose, codes' = Append(codes, NewCode(e, purpose))
        PROVE  CodesInv'
    <3>1. /\ \A k \in DOMAIN codes : k \in DOMAIN codes' /\ codes'[k] = codes[k]
          /\ \A k \in DOMAIN codes' \ DOMAIN codes : codes'[k] = NewCode(e, purpose)
      BY <1>0, <2>5
    <3>2. NewCode(e, purpose).tried = 0 /\ NewCode(e, purpose).resets = 0
      BY DEF NewCode
    <3>3. \A k \in DOMAIN codes' \ DOMAIN codes : codes'[k].tried = 0 /\ codes'[k].resets = 0
      BY <3>1, <3>2
    <3> QED
      BY <1>0, <2>3, <3>1, <3>3, CodesStay
  <2>6. CASE req[r].pc \notin {"deactivate", "commit", "mail", "undo", "insertCode"}
    <3>1. codes' = codes
      BY <1>3, <2>6, Writes
    <3> QED
      BY <2>4, <3>1
  <2>7. CASE Deactivate(r)
    <3>1. codes' = [k \in DOMAIN codes |->
              IF Live(k) /\ codes[k].email = req[r].email /\ codes[k].purpose = PurposeOf(req[r])
              THEN [codes[k] EXCEPT !.active = FALSE] ELSE codes[k]]
      BY <2>7 DEF Deactivate
    <3> QED
      BY <1>0, <2>4, <3>1 DEF CodeRow
  <2>8. CASE CommitUser(r)
    <3>1. codes' = codes \/ codes' = Append(codes, NewCode(req[r].email, "verification"))
      BY <2>8 DEF CommitUser
    <3> QED
      BY <2>4, <2>5, <3>1
  <2>9. CASE SendLink(r)
    <3>1. codes' = codes \/ codes' = [codes EXCEPT ![req[r].code].mailed = TRUE]
      BY <2>9 DEF SendLink
    <3>2. /\ DOMAIN codes' = DOMAIN codes
          /\ \A k \in DOMAIN codes :
               codes'[k] = codes[k] \/ codes'[k] = [codes[k] EXCEPT !.mailed = TRUE]
      BY <3>1
    <3>3. \A k \in DOMAIN codes :
            /\ codes'[k].tried = codes[k].tried /\ codes'[k].resets = codes[k].resets
            /\ codes'[k].attempts = codes[k].attempts /\ codes'[k].used = codes[k].used
      BY <1>0, <3>2 DEF CodeRow
    <3> QED
      BY <2>4, <3>2, <3>3
  <2>10. CASE Undo(r)
    <3>1. codes' = [k \in DOMAIN codes |->
              IF codes[k].email = req[r].email /\ codes[k].purpose = "verification"
              THEN [codes[k] EXCEPT !.here = FALSE] ELSE codes[k]]
      BY <2>10 DEF Undo
    <3> QED
      BY <1>0, <2>4, <3>1 DEF CodeRow
  <2>11. CASE InsertCode(r)
    BY <2>5, <2>11 DEF InsertCode
  <2> QED
    BY <2>6, <2>7, <2>8, <2>9, <2>10, <2>11, Places DEF Run
<1> QED
  BY <1>1, <1>2, <1>3, Places DEF Run

\* Every step; a request that dies leaves a fault behind.
LEMMA NextCodes ==
    ASSUME TypeInv, TypeInv', CodesInv, [Next]_vars
    PROVE  CodesInv'
<1>0. /\ req \in [Requests -> Request] /\ used.overlaps \in Nat /\ used.faults \in Nat
      /\ \A k \in DOMAIN codes : codes[k] \in CodeRow
  BY RowsTyped, WritersFinite DEF TypeInv, RequestsHold
<1>1. ASSUME NEW r \in Requests, Die(r)
      PROVE  CodesInv'
  <2>1. /\ req' = [req EXCEPT ![r] = Idle] /\ codes' = codes
        /\ used' = [used EXCEPT !.faults = @ + 1]
    BY <1>1 DEF Die, Throw, Goto, tables
  <2>2. used'.overlaps = used.overlaps /\ used'.faults = used.faults + 1
    BY <2>1 DEF TypeInv, UsedOK
  <2>3. used.overlaps <= used'.overlaps /\ used.faults <= used'.faults
    BY <1>0, <2>2
  <2>4. ~WritesCode(Idle)
    BY DEF WritesCode, Idle
  <2>5. \A s \in Requests :
          \/ req'[s] = req[s]
          \/ ~WritesCode(req'[s]) /\ used'.faults = used.faults + 1
    BY <1>0, <2>1, <2>2, <2>4
  <2> QED
    BY <2>1, <2>3, <2>5, CodesStay
<1>2. CASE Lapse
  <2>1. req' = req /\ used' = [used EXCEPT !.lapses = @ + 1]
    BY <1>2 DEF Lapse
  <2>2. used'.overlaps = used.overlaps /\ used'.faults = used.faults
    BY <2>1 DEF TypeInv, UsedOK
  <2>3. used.overlaps <= used'.overlaps /\ used.faults <= used'.faults
    BY <1>0, <2>2
  <2>4. codes' = codes \/ \E k \in DOMAIN codes : codes' = [codes EXCEPT ![k].expired = TRUE]
    BY <1>2 DEF Lapse
  <2>5. /\ DOMAIN codes' = DOMAIN codes
        /\ \A k \in DOMAIN codes :
             /\ codes'[k].tried = codes[k].tried /\ codes'[k].resets = codes[k].resets
             /\ codes'[k].attempts = codes[k].attempts /\ codes'[k].used = codes[k].used
    BY <1>0, <2>4 DEF CodeRow
  <2> QED
    BY <2>1, <2>3, <2>5, CodesStay
<1>3. CASE UNCHANGED vars
  <2>1. codes' = codes /\ req' = req /\ used' = used
    BY <1>3 DEF vars
  <2> QED
    BY <1>0, <2>1, CodesStay
<1> QED
  BY <1>1, <1>2, <1>3, BeginCodes, RunCodes DEF Next

\* A recovery code holds out: maxOtpAttempts wrong answers and one password, and no more than
\* the requests that overlapped another or died can add.
THEOREM CodesHold == Spec => []CodesHoldOut
<1>1. Init /\ TypeInv => CodesInv
  <2> SUFFICES ASSUME Init, TypeInv, NEW k \in DOMAIN codes
               PROVE  AnswersCounted(k) /\ ResetsCounted(k)
    BY DEF CodesInv
  <2>1. k = 1 /\ codes[k].tried = 0 /\ codes[k].resets = 0
    BY DEF Init, NewCode
  <2>2. Writers(k) = {}
    BY DEF Init, Writers, WritesCode, Idle
  <2>3. Wrongs(k) = {} /\ Resets(k) = {} /\ Cardinality({}) = 0
    BY <2>2, FS_EmptySet DEF Wrongs, Resets
  <2>4. used.overlaps \in Nat /\ Slack \in Nat /\ codes[k].attempts \in Nat
    BY WritersFinite, CodeNumbers
  <2>5. Judged(k) = 0 /\ Renewed(k) = 0
    BY <2>1, <2>3 DEF Judged, Renewed
  <2>6. AnswersCounted(k)
    BY <2>2, <2>3, <2>4, <2>5 DEF AnswersCounted
  <2>7. ResetsCounted(k)
    BY <2>2, <2>4, <2>5 DEF ResetsCounted
  <2> QED
    BY <2>6, <2>7
<1>2. TypeInv /\ TypeInv' /\ CodesInv /\ [Next]_vars => CodesInv'
  BY NextCodes
<1>3. TypeInv /\ CodesInv => CodesHoldOut
  <2> SUFFICES ASSUME TypeInv, CodesInv, NEW k \in DOMAIN codes
               PROVE  /\ codes[k].tried <= MaxAttempts + used.overlaps
                      /\ codes[k].resets <= 1 + used.overlaps + used.faults
    BY DEF CodesHoldOut
  <2>1. AnswersCounted(k) /\ ResetsCounted(k)
    BY DEF CodesInv
  <2>2. /\ codes[k].tried \in Nat /\ codes[k].resets \in Nat /\ MaxAttempts \in Nat
        /\ codes[k].attempts \in Nat /\ codes[k].attempts <= MaxAttempts
        /\ \A r \in Requests : req[r].row.attempts \in Nat /\ req[r].row.attempts <= MaxAttempts
    BY CodeNumbers, AccountsAssumption
  <2>3. /\ Cardinality(Wrongs(k)) \in Nat /\ Cardinality(Resets(k)) \in Nat
        /\ used.overlaps \in Nat /\ used.faults \in Nat
    BY WritersFinite
  <2>4. Judged(k) <= MaxAttempts + used.overlaps
    <3>1. CASE Wrongs(k) = {}
      BY <2>1, <2>2, <2>3, <3>1 DEF AnswersCounted, Judged
    <3>2. CASE Wrongs(k) # {}
      <4>1. PICK r \in Writers(k) : r \in Requests
        BY <3>2 DEF Wrongs, Writers
      <4>2. Judged(k) <= used.overlaps + req[r].row.attempts
        BY <2>1 DEF AnswersCounted
      <4> QED
        BY <2>2, <2>3, <4>1, <4>2 DEF Judged
    <3> QED
      BY <3>1, <3>2
  <2>5. codes[k].tried <= MaxAttempts + used.overlaps
    BY <2>2, <2>3, <2>4 DEF Judged
  <2>6. codes[k].resets <= 1 + used.overlaps + used.faults
    BY <2>1, <2>2, <2>3 DEF ResetsCounted, Renewed, Slack
  <2> QED
    BY <2>5, <2>6
<1> QED
  BY <1>1, <1>2, <1>3, TypesAlways, PTL DEF Spec

-----------------------------------------------------------------------------
(* Requests that run, and invitations of an address that are pending or about to be: every *)
(* request that will insert one is among those that run.                                    *)

RunningSet == {r \in Requests : Running(r)}
RunningInv == Cardinality(RunningSet) <= 1 + used.overlaps
Pending(e) == {k \in DOMAIN invites : IsPending(k) /\ invites[k].email = e}
Inviting(e) == {r \in Requests : req[r].pc = "insertInvite" /\ req[r].email = e}
PendingAt(e) == Cardinality(Pending(e)) + Cardinality(Inviting(e)) <= 1 + used.overlaps
PendingInv == RunningInv /\ \A e \in Emails : PendingAt(e)

\* The sets that are counted are finite.
LEMMA PendingFinite ==
    ASSUME TypeInv, NEW e
    PROVE  /\ IsFiniteSet(Pending(e)) /\ Cardinality(Pending(e)) \in Nat
           /\ IsFiniteSet(Inviting(e)) /\ Cardinality(Inviting(e)) \in Nat
           /\ IsFiniteSet(RunningSet) /\ Cardinality(RunningSet) \in Nat
           /\ used.overlaps \in Nat /\ Inviting(e) \subseteq RunningSet
<1>1. Pending(e) \subseteq 1..Len(invites) /\ Len(invites) \in Nat
  BY DEF Pending, TypeInv, TablesOK
<1>2. IsFiniteSet(1..Len(invites))
  BY <1>1, FS_Interval
<1>3. IsFiniteSet(Pending(e))
  BY <1>1, <1>2, FS_Subset
<1>4. Inviting(e) \in SUBSET Requests /\ RunningSet \in SUBSET Requests
  BY DEF Inviting, RunningSet
<1>5. used.overlaps \in Nat
  BY AccountsAssumption DEF TypeInv, UsedOK
<1>6. Inviting(e) \subseteq RunningSet
  BY DEF Inviting, RunningSet, Running, Idle
<1> QED
  BY <1>3, <1>4, <1>5, <1>6, FiniteRequests, FS_CardinalityType

\* No request begins, or it runs alone, or it is counted as an overlap.
LEMMA RunningCounted ==
    ASSUME TypeInv, TypeInv', RunningInv, [Next]_vars
    PROVE  RunningInv'
<1>0. /\ IsFiniteSet(RunningSet) /\ Cardinality(RunningSet) \in Nat /\ used.overlaps \in Nat
      /\ used'.overlaps \in Nat /\ req \in [Requests -> Request]
  BY PendingFinite, AccountsAssumption DEF TypeInv, UsedOK, RequestsHold
<1>1. ASSUME RunningSet' \subseteq RunningSet, used.overlaps <= used'.overlaps
      PROVE  RunningInv'
  <2>1. Cardinality(RunningSet') <= Cardinality(RunningSet) /\ Cardinality(RunningSet') \in Nat
    BY <1>0, <1>1, FS_Subset, FS_CardinalityType
  <2> QED
    BY <1>0, <1>1, <2>1 DEF RunningInv
<1>2. ASSUME NEW r \in Requests, Begin(r)
      PROVE  RunningInv'
  <2>1. PICK q : Call(r, q)
    BY <1>2, BeginsOrDone DEF BeginsWith, Logout, ExpireInvite
  <2>2. Free(r) /\ r \notin RunningSet
    BY <1>2 DEF Begin, Free, RunningSet
  <2>3. /\ req' = [req EXCEPT ![r] = q]
        /\ used'.overlaps = used.overlaps + (IF Overlaps(r) THEN 1 ELSE 0)
    BY <2>1, <2>2, CallCounts DEF TypeInv
  <2>4. RunningSet' \subseteq RunningSet \cup {r}
    BY <1>0, <2>3 DEF RunningSet, Running
  <2>5. /\ IsFiniteSet(RunningSet \cup {r})
        /\ Cardinality(RunningSet \cup {r}) = Cardinality(RunningSet) + 1
    BY <1>0, <2>2, FS_AddElement
  <2>6. Cardinality(RunningSet') <= Cardinality(RunningSet) + 1 /\ Cardinality(RunningSet') \in Nat
    BY <2>4, <2>5, FS_Subset, FS_CardinalityType
  <2>7. CASE Overlaps(r)
    BY <1>0, <2>3, <2>6, <2>7 DEF RunningInv
  <2>8. CASE ~Overlaps(r)
    <3>1. RunningSet = {}
      BY <2>2, <2>8 DEF RunningSet, Overlaps
    <3>2. Cardinality(RunningSet) = 0
      BY <3>1, FS_EmptySet
    <3> QED
      BY <1>0, <2>3, <2>6, <2>8, <3>2 DEF RunningInv
  <2> QED
    BY <2>7, <2>8
<1>3. ASSUME NEW r \in Requests, Running(r), Run(r)
      PROVE  RunningInv'
  <2>1. PICK q : req' = [req EXCEPT ![r] = q]
    BY <1>3, RunFlows DEF GoesTo
  <2>2. RunningSet' \subseteq RunningSet
    BY <1>0, <1>3, <2>1 DEF RunningSet, Running
  <2>3. used' = used
    BY <1>3, Writes
  <2> QED
    BY <1>0, <1>1, <2>2, <2>3
<1>4. ASSUME NEW r \in Requests, Die(r)
      PROVE  RunningInv'
  <2>1. req' = [req EXCEPT ![r] = Idle] /\ used' = [used EXCEPT !.faults = @ + 1] /\ Running(r)
    BY <1>4 DEF Die, Throw, Goto
  <2>2. RunningSet' \subseteq RunningSet
    BY <1>0, <2>1 DEF RunningSet, Running
  <2>3. used'.overlaps = used.overlaps
    BY <2>1 DEF TypeInv, UsedOK
  <2> QED
    BY <1>0, <1>1, <2>2, <2>3
<1>5. CASE Lapse \/ UNCHANGED vars
  <2>1. req' = req /\ (used' = [used EXCEPT !.lapses = @ + 1] \/ used' = used)
    BY <1>5 DEF Lapse, vars
  <2>2. RunningSet' = RunningSet
    BY <2>1 DEF RunningSet, Running
  <2>3. used'.overlaps = used.overlaps
    BY <2>1 DEF TypeInv, UsedOK
  <2> QED
    BY <1>0, <1>1, <2>2, <2>3
<1> QED
  BY <1>2, <1>3, <1>4, <1>5 DEF Next

\* No invitation of the address is added, and no request begins to add one.
LEMMA PendingStays ==
    ASSUME TypeInv, TypeInv', NEW e, PendingAt(e), used.overlaps <= used'.overlaps,
           Pending(e)' \subseteq Pending(e), Inviting(e)' \subseteq Inviting(e)
    PROVE  PendingAt(e)'
<1>1. /\ IsFiniteSet(Pending(e)) /\ Cardinality(Pending(e)) \in Nat
      /\ IsFiniteSet(Inviting(e)) /\ Cardinality(Inviting(e)) \in Nat /\ used.overlaps \in Nat
      /\ used'.overlaps \in Nat
  BY PendingFinite, AccountsAssumption DEF TypeInv, UsedOK
<1>2. /\ Cardinality(Pending(e)') \in Nat /\ Cardinality(Pending(e)') <= Cardinality(Pending(e))
      /\ Cardinality(Inviting(e)') \in Nat /\ Cardinality(Inviting(e)') <= Cardinality(Inviting(e))
  BY <1>1, FS_Subset, FS_CardinalityType
<1> QED
  BY <1>1, <1>2 DEF PendingAt

\* Every statement of a request: the insert of an invitation comes from one that ran, and the
\* update before it left no invitation of the address pending.
LEMMA RunPending ==
    ASSUME TypeInv, TypeInv', PendingInv, NEW r \in Requests, Running(r), Run(r), NEW e \in Emails
    PROVE  PendingAt(e)'
<1> DEFINE p == req[r]
<1>0. /\ used' = used /\ req \in [Requests -> Request] /\ PendingAt(e) /\ RunningInv
      /\ invites \in Seq(InviteRow) /\ \A k \in DOMAIN invites : invites[k] \in InviteRow
  BY Writes, RowsTyped DEF TypeInv, RequestsHold, TablesOK, PendingInv
<1>1. /\ IsFiniteSet(Pending(e)) /\ Cardinality(Pending(e)) \in Nat
      /\ IsFiniteSet(Inviting(e)) /\ Cardinality(Inviting(e)) \in Nat
      /\ IsFiniteSet(RunningSet) /\ Cardinality(RunningSet) \in Nat
      /\ used.overlaps \in Nat /\ Inviting(e) \subseteq RunningSet
  BY PendingFinite
<1>2. used.overlaps <= used'.overlaps
  BY <1>0, <1>1
<1>3. PICK q : req' = [req EXCEPT ![r] = q] /\ (q = Idle \/ Continues(p, q))
  BY RunFlows DEF GoesTo
<1>4. \A s \in Requests : req'[s] = IF s = r THEN q ELSE req[s]
  BY <1>0, <1>3
<1>5. q.pc = "insertInvite" => p.pc = "expireOld" /\ q.email = p.email
  <2>1. Idle.pc = "idle"
    BY DEF Idle
  <2>2. Continues(p, q) => <<p.pc, q.pc>> \in Flow /\ q.email = p.email
    BY DEF Continues
  <2>3. <<p.pc, q.pc>> \in Flow /\ q.pc = "insertInvite" => p.pc = "expireOld"
    BY DEF Flow
  <2> QED
    BY <1>3, <2>1, <2>2, <2>3
<1>a. ASSUME p.pc # "expireOld",
             \A k \in DOMAIN invites' : IsPending(k)' /\ invites'[k].email = e =>
               k \in DOMAIN invites /\ IsPending(k) /\ invites[k].email = e
      PROVE  PendingAt(e)'
  <2>1. Inviting(e)' \subseteq Inviting(e)
    BY <1>4, <1>5, <1>a DEF Inviting
  <2>2. Pending(e)' \subseteq Pending(e)
    BY <1>a DEF Pending
  <2> QED
    BY <1>0, <1>2, <2>1, <2>2, PendingStays
<1>6. CASE ExpireOld(r)
  <2>1. invites' = [k \in DOMAIN invites |->
              IF k \in OldPending(p.email) THEN [invites[k] EXCEPT !.status = "EXPIRED"]
              ELSE invites[k]]
    BY <1>6 DEF ExpireOld
  <2>2. \A k \in DOMAIN invites' :
          /\ k \in DOMAIN invites /\ invites'[k].email = invites[k].email
          /\ IsPending(k)' => IsPending(k) /\ k \notin OldPending(p.email)
    BY <1>0, <2>1 DEF InviteRow, IsPending
  <2>3. CASE e = p.email
    <3>1. Pending(e)' = {}
      BY <2>2, <2>3 DEF Pending, OldPending
    <3>2. Inviting(e)' \subseteq RunningSet
      BY <1>1, <1>4 DEF Inviting, RunningSet
    <3>3. Cardinality(Inviting(e)') <= Cardinality(RunningSet) /\ Cardinality(Inviting(e)') \in Nat
      BY <1>1, <3>2, FS_Subset, FS_CardinalityType
    <3>4. Cardinality(Pending(e)') = 0
      BY <3>1, FS_EmptySet
    <3> QED
      BY <1>0, <1>1, <3>3, <3>4 DEF PendingAt, RunningInv
  <2>4. CASE e # p.email
    <3>1. Inviting(e)' \subseteq Inviting(e)
      BY <1>4, <1>5, <2>4 DEF Inviting
    <3>2. Pending(e)' \subseteq Pending(e)
      BY <2>2 DEF Pending
    <3> QED
      BY <1>0, <1>2, <3>1, <3>2, PendingStays
  <2> QED
    BY <2>3, <2>4
<1>7. CASE InsertInvite(r)
  <2>n. PICK n \in Nat : n = Len(invites) + 1
    BY <1>0
  <2>1. invites' = Append(invites, NewInvite(p.email)) /\ req' = [req EXCEPT ![r] = Idle]
        /\ p.pc = "insertInvite"
    BY <1>7 DEF InsertInvite, Goto
  <2>2. /\ \A k \in DOMAIN invites' : (k \in DOMAIN invites /\ invites'[k] = invites[k]) \/ k = n
        /\ invites'[n] = NewInvite(p.email) /\ n \notin DOMAIN invites
    BY <1>0, <2>1, <2>n
  <2>3. CASE e # p.email
    <3>1. invites'[n].email # e
      BY <2>2, <2>3 DEF NewInvite
    <3> QED
      BY <1>a, <2>1, <2>2, <3>1 DEF IsPending
  <2>4. CASE e = p.email
    <3>1. Pending(e)' \subseteq Pending(e) \cup {n} /\ n \notin Pending(e)
      BY <2>2 DEF Pending, IsPending
    <3>2. Inviting(e)' \subseteq Inviting(e) \ {r} /\ r \in Inviting(e)
      BY <1>0, <2>1, <2>4 DEF Inviting, Idle
    <3>3. /\ IsFiniteSet(Pending(e) \cup {n})
          /\ Cardinality(Pending(e) \cup {n}) = Cardinality(Pending(e)) + 1
      BY <1>1, <3>1, FS_AddElement
    <3>4. /\ IsFiniteSet(Inviting(e) \ {r})
          /\ Cardinality(Inviting(e) \ {r}) = Cardinality(Inviting(e)) - 1
      BY <1>1, <3>2, FS_RemoveElement
    <3>5. /\ Cardinality(Pending(e)') <= Cardinality(Pending(e)) + 1
          /\ Cardinality(Pending(e)') \in Nat
      BY <3>1, <3>3, FS_Subset, FS_CardinalityType
    <3>6. /\ Cardinality(Inviting(e)') <= Cardinality(Inviting(e)) - 1
          /\ Cardinality(Inviting(e)') \in Nat
      BY <3>2, <3>4, FS_Subset, FS_CardinalityType
    <3> QED
      BY <1>0, <1>1, <3>5, <3>6 DEF PendingAt
  <2> QED
    BY <2>3, <2>4
<1>8. CASE MarkAccepted(r)
  <2>1. invites' = [invites EXCEPT ![p.invite].status =
                      IF IsPending(p.invite) THEN "ACCEPTED" ELSE @]
    BY <1>8 DEF MarkAccepted
  <2>2. \A k \in DOMAIN invites : /\ invites'[k].email = invites[k].email
                                  /\ invites'[k].here = invites[k].here
                                  /\ invites'[k].status \in {"ACCEPTED", invites[k].status}
    BY <1>0, <2>1 DEF InviteRow
  <2> QED
    BY <1>8, <1>a, <2>1, <2>2, Places DEF IsPending
<1>9. CASE Sync(r)
  <2>1. invites' = [k \in DOMAIN invites |->
          IF k \in p.list THEN [invites[k] EXCEPT !.status = "ACCEPTED"] ELSE invites[k]]
    BY <1>9 DEF Sync
  <2>2. \A k \in DOMAIN invites : /\ invites'[k].email = invites[k].email
                                  /\ invites'[k].here = invites[k].here
                                  /\ invites'[k].status \in {"ACCEPTED", invites[k].status}
    BY <1>0, <2>1 DEF InviteRow
  <2> QED
    BY <1>9, <1>a, <2>1, <2>2, Places DEF IsPending
<1>10. CASE Discard(r)
  <2>1. invites' = [invites EXCEPT ![p.invite].here = FALSE]
    BY <1>10 DEF Discard
  <2>2. \A k \in DOMAIN invites : /\ invites'[k].email = invites[k].email
                                  /\ invites'[k].here => invites[k].here
                                  /\ invites'[k].status = invites[k].status
    BY <1>0, <2>1 DEF InviteRow
  <2> QED
    BY <1>10, <1>a, <2>1, <2>2, Places DEF IsPending
<1>11. CASE p.pc \notin {"accept", "expireOld", "insertInvite", "sync", "discard"}
  <2>1. invites' = invites
    BY <1>11, Writes
  <2> QED
    BY <1>11, <1>a, <2>1 DEF IsPending
<1> QED
  BY <1>6, <1>7, <1>8, <1>9, <1>10, <1>11, Places DEF Run

\* Every step.
LEMMA NextPending ==
    ASSUME TypeInv, TypeInv', PendingInv, [Next]_vars
    PROVE  PendingInv'
<1>0. /\ used.overlaps \in Nat /\ req \in [Requests -> Request] /\ RunningInv
      /\ \A k \in DOMAIN invites : invites[k] \in InviteRow
  BY RowsTyped, AccountsAssumption DEF TypeInv, UsedOK, RequestsHold, PendingInv
<1>1. RunningInv'
  BY <1>0, RunningCounted
<1> SUFFICES ASSUME NEW e \in Emails
             PROVE  PendingAt(e)'
  BY <1>1 DEF PendingInv
<1>2. PendingAt(e)
  BY DEF PendingInv
<1>a. ASSUME used.overlaps <= used'.overlaps, DOMAIN invites' = DOMAIN invites,
             \A k \in DOMAIN invites : /\ IsPending(k)' => IsPending(k)
                                       /\ invites'[k].email = invites[k].email,
             \A s \in Requests : req'[s] = req[s] \/ req'[s].pc # "insertInvite"
      PROVE  PendingAt(e)'
  <2>1. Pending(e)' \subseteq Pending(e) /\ Inviting(e)' \subseteq Inviting(e)
    BY <1>a DEF Pending, Inviting
  <2> QED
    BY <1>2, <1>a, <2>1, PendingStays
<1>3. ASSUME NEW r \in Requests, Begin(r)
      PROVE  PendingAt(e)'
  <2>1. Free(r)
    BY <1>3 DEF Begin
  <2>b. ASSUME NEW q, Call(r, q), q.pc # "insertInvite"
        PROVE  /\ used.overlaps <= used'.overlaps
               /\ \A s \in Requests : req'[s] = req[s] \/ req'[s].pc # "insertInvite"
    <3>1. /\ req' = [req EXCEPT ![r] = q]
          /\ used'.overlaps = used.overlaps + (IF Overlaps(r) THEN 1 ELSE 0)
      BY <2>1, <2>b, CallCounts DEF TypeInv
    <3>2. used.overlaps <= used'.overlaps
      BY <1>0, <3>1
    <3> QED
      BY <1>0, <2>b, <3>1, <3>2
  <2>2. ASSUME NEW q, BeginsWith(r, q)
        PROVE  PendingAt(e)'
    <3>1. q.pc # "insertInvite" /\ invites' = invites /\ Call(r, q)
      BY <2>2 DEF BeginsWith, Starts, StartPlaces, tables
    <3> QED
      BY <1>a, <2>b, <3>1 DEF IsPending
  <2>3. ASSUME NEW k, Logout(r, k)
        PROVE  PendingAt(e)'
    BY <1>a, <2>b, <2>3 DEF Logout, Idle, IsPending
  <2>4. ASSUME NEW k, ExpireInvite(r, k)
        PROVE  PendingAt(e)'
    <3>1. invites' = [invites EXCEPT ![k].status = "EXPIRED"] /\ Call(r, Idle)
      BY <2>4 DEF ExpireInvite
    <3>2. \A j \in DOMAIN invites : /\ invites'[j].email = invites[j].email
                                    /\ invites'[j].here = invites[j].here
                                    /\ invites'[j].status \in {"EXPIRED", invites[j].status}
      BY <1>0, <3>1 DEF InviteRow
    <3>3. \A j \in DOMAIN invites : IsPending(j)' => IsPending(j)
      BY <3>2 DEF IsPending
    <3>4. Idle.pc # "insertInvite"
      BY DEF Idle
    <3> QED
      BY <1>a, <2>b, <3>1, <3>2, <3>3, <3>4
  <2> QED
    BY <1>3, <2>2, <2>3, <2>4, BeginsOrDone
<1>4. ASSUME NEW r \in Requests, Running(r), Run(r)
      PROVE  PendingAt(e)'
  BY <1>4, RunPending
<1>5. ASSUME NEW r \in Requests, Die(r)
      PROVE  PendingAt(e)'
  <2>1. req' = [req EXCEPT ![r] = Idle] /\ used' = [used EXCEPT !.faults = @ + 1]
        /\ invites' = invites
    BY <1>5 DEF Die, Throw, Goto, tables
  <2>2. used'.overlaps = used.overlaps
    BY <2>1 DEF TypeInv, UsedOK
  <2> QED
    BY <1>0, <1>a, <2>1, <2>2 DEF IsPending, Idle
<1>6. CASE Lapse
  <2>1. req' = req /\ used' = [used EXCEPT !.lapses = @ + 1]
        /\ (invites' = invites \/ \E k \in DOMAIN invites : invites' = [invites EXCEPT ![k].expired = TRUE])
    BY <1>6 DEF Lapse
  <2>2. used'.overlaps = used.overlaps
    BY <2>1 DEF TypeInv, UsedOK
  <2>3. /\ DOMAIN invites' = DOMAIN invites
        /\ \A k \in DOMAIN invites : /\ invites'[k].email = invites[k].email
                                     /\ invites'[k].here = invites[k].here
                                     /\ invites'[k].status = invites[k].status
    BY <1>0, <2>1 DEF InviteRow
  <2> QED
    BY <1>0, <1>a, <2>1, <2>2, <2>3 DEF IsPending
<1>7. CASE UNCHANGED vars
  BY <1>0, <1>a, <1>7 DEF vars, IsPending
<1> QED
  BY <1>3, <1>4, <1>5, <1>6, <1>7 DEF Next

-----------------------------------------------------------------------------
(* The unique index over users.email, with the users that open transactions hold, and what *)
(* came of an invitation: a user that came by one has its address as long as the row is    *)
(* there.  Only an account with orders is erased and not removed, and that one came by no  *)
(* invitation.                                                                             *)

OneUser(e) ==
    /\ \A u, v \in UsersOf(e) : u = v
    /\ \A r, s \in Inserting(e) : r = s
    /\ UsersOf(e) = {} \/ Inserting(e) = {}
InvitedBy(row) == row.invite # 0 /\ row.here => row.email = invites[row.invite].email
UsersInvited ==
    /\ users # <<>> /\ users[1].invite = 0
    /\ \A u \in DOMAIN users : users[u].invite \in 0..Len(invites) /\ InvitedBy(users[u])
OrdersOfFirst == \A c \in DOMAIN customers : customers[c].orders => customers[c].user \in {0, 1}
KeepsInvite(q) ==
    /\ q.pc \in {"customers", "erase"} => q.user = 1
    /\ q.pc \in {"customers", "erase", "saveUser"} =>
         q.ent.invite = users[q.user].invite /\ InvitedBy(q.ent)
    /\ q.pc \in {"insertUser", "commit"} =>
         IF q.op = "invited" THEN q.email = invites[q.invite].email ELSE q.invite = 0
    /\ q.pc = "deactivate" => q.invite = 0 /\ q.op # "invited"
    /\ q.pc = "insertVerified" => q.ent.invite = 0 /\ q.ent.email = q.email
RequestsKeepInvites == \A r \in Requests : KeepsInvite(req[r])
InvitedInv ==
    /\ \A e \in Emails : OneUser(e)
    /\ UsersInvited /\ OrdersOfFirst /\ RequestsKeepInvites

\* What users and invitations keep from step to step.
UsersKept == \A u \in DOMAIN users : u \in DOMAIN users' /\ users'[u].invite = users[u].invite
InvitesKept ==
    \A k \in DOMAIN invites : k \in DOMAIN invites' /\ invites'[k].email = invites[k].email

\* A request that keeps what it holds keeps its invitation.
LEMMA InviteKept ==
    ASSUME TypeInv, UsersInvited, UsersKept, InvitesKept, NEW q, Holding(q, Sizes), KeepsInvite(q)
    PROVE  KeepsInvite(q)'
<1>1. DOMAIN users = 1..Len(users) /\ DOMAIN invites = 1..Len(invites) /\ Len(users) \in Nat
      /\ Len(invites) \in Nat
  BY DEF TypeInv, TablesOK
<1>2. q.pc \in {"customers", "erase", "saveUser"} => q.user \in DOMAIN users
  BY <1>1 DEF Holding, HoldsUser, Sizes
<1>3. (q.pc \in {"insertUser", "commit"} /\ q.op = "invited") => q.invite \in DOMAIN invites
  BY <1>1 DEF Holding, HoldsInvite, Sizes
<1>4. q.pc \in {"customers", "erase", "saveUser"} =>
        /\ q.ent.invite = users'[q.user].invite
        /\ q.ent.invite \in 0..Len(invites)
        /\ q.ent.invite # 0 /\ q.ent.here => q.ent.email = invites'[q.ent.invite].email
  <2> HAVE q.pc \in {"customers", "erase", "saveUser"}
  <2>1. q.user \in DOMAIN users /\ q.ent.invite = users[q.user].invite /\ InvitedBy(q.ent)
    BY <1>2 DEF KeepsInvite
  <2>2. q.ent.invite = users'[q.user].invite /\ q.ent.invite \in 0..Len(invites)
    BY <2>1 DEF UsersKept, UsersInvited
  <2>3. q.ent.invite # 0 => q.ent.invite \in DOMAIN invites
    BY <1>1, <2>2
  <2> QED
    BY <2>1, <2>2, <2>3 DEF InvitedBy, InvitesKept
<1>5. (q.pc \in {"insertUser", "commit"} /\ q.op = "invited") =>
        q.email = invites'[q.invite].email
  BY <1>3 DEF KeepsInvite, InvitesKept
<1> QED
  BY <1>4, <1>5 DEF KeepsInvite, InvitedBy

\* Users that stay keep the address of their invitation.
LEMMA UsersStayInvited ==
    ASSUME TypeInv, TypeInv', UsersInvited, InvitesKept, UsersKept,
           \A u \in DOMAIN users' : \/ u \in DOMAIN users /\ users'[u] = users[u]
                                    \/ ~users'[u].here /\ u \in DOMAIN users
                                    \/ users'[u].invite = 0
                                    \/ /\ users'[u].invite \in DOMAIN invites
                                       /\ users'[u].email = invites[users'[u].invite].email
    PROVE  UsersInvited'
<1>0. /\ DOMAIN invites = 1..Len(invites) /\ DOMAIN invites' = 1..Len(invites')
      /\ Len(invites) \in Nat /\ Len(invites') \in Nat
      /\ DOMAIN users = 1..Len(users) /\ Len(users) \in Nat /\ users \in Seq(UserRow)
      /\ users' \in Seq(UserRow)
  BY DEF TypeInv, TablesOK
<1>1. DOMAIN invites \subseteq DOMAIN invites'
  BY DEF InvitesKept
<1>2. users' # <<>> /\ users'[1].invite = 0
  <2>1. 1 \in DOMAIN users
    BY <1>0 DEF UsersInvited
  <2>2. 1 \in DOMAIN users' /\ users'[1].invite = users[1].invite
    BY <2>1 DEF UsersKept
  <2> QED
    BY <1>0, <2>2 DEF UsersInvited
<1>3. ASSUME NEW u \in DOMAIN users'
      PROVE  users'[u].invite \in 0..Len(invites') /\ InvitedBy(users[u])'
  <2>1. CASE u \in DOMAIN users /\ (users'[u] = users[u] \/ ~users'[u].here)
    <3>1. users'[u].invite = users[u].invite /\ users[u].invite \in 0..Len(invites)
          /\ InvitedBy(users[u])
      BY <2>1 DEF UsersInvited, UsersKept
    <3>2. users[u].invite = 0 \/ users[u].invite \in DOMAIN invites
      BY <1>0, <3>1
    <3>3. users'[u].invite \in 0..Len(invites')
      BY <1>0, <1>1, <3>1, <3>2
    <3> QED
      BY <2>1, <3>1, <3>2, <3>3 DEF InvitedBy, InvitesKept
  <2>2. CASE users'[u].invite = 0
    BY <1>0, <2>2 DEF InvitedBy
  <2>3. CASE /\ users'[u].invite \in DOMAIN invites
             /\ users'[u].email = invites[users'[u].invite].email
    BY <1>0, <1>1, <2>3 DEF InvitedBy, InvitesKept
  <2> QED
    BY <2>1, <2>2, <2>3
<1> QED
  BY <1>2, <1>3 DEF UsersInvited

\* No user gets the address and no transaction begins to insert it.
LEMMA OneUserStays ==
    ASSUME NEW e, OneUser(e), UsersOf(e)' \subseteq UsersOf(e), Inserting(e)' \subseteq Inserting(e)
    PROVE  OneUser(e)'
  BY DEF OneUser

\* An invitation is never sent to another address.
LEMMA RunKeepsInvites ==
    ASSUME TypeInv, NEW r \in Requests, Run(r)
    PROVE  InvitesKept
<1>0. invites \in Seq(InviteRow) /\ \A k \in DOMAIN invites : invites[k] \in InviteRow
  BY RowsTyped DEF TypeInv, TablesOK
<1>1. CASE MarkAccepted(r)
  <2>1. PICK status : invites' = [invites EXCEPT ![req[r].invite].status = status]
    BY <1>1 DEF MarkAccepted
  <2> QED
    BY <1>0, <2>1 DEF InviteRow, InvitesKept
<1>2. CASE ExpireOld(r)
  <2>1. invites' = [k \in DOMAIN invites |->
              IF k \in OldPending(req[r].email) THEN [invites[k] EXCEPT !.status = "EXPIRED"]
              ELSE invites[k]]
    BY <1>2 DEF ExpireOld
  <2> QED
    BY <1>0, <2>1 DEF InviteRow, InvitesKept
<1>3. CASE InsertInvite(r)
  <2>1. invites' = Append(invites, NewInvite(req[r].email))
    BY <1>3 DEF InsertInvite
  <2> QED
    BY <1>0, <2>1 DEF InvitesKept
<1>4. CASE Sync(r)
  <2>1. invites' = [k \in DOMAIN invites |->
          IF k \in req[r].list THEN [invites[k] EXCEPT !.status = "ACCEPTED"] ELSE invites[k]]
    BY <1>4 DEF Sync
  <2> QED
    BY <1>0, <2>1 DEF InviteRow, InvitesKept
<1>5. CASE Discard(r)
  <2>1. invites' = [invites EXCEPT ![req[r].invite].here = FALSE]
    BY <1>5 DEF Discard
  <2> QED
    BY <1>0, <2>1 DEF InviteRow, InvitesKept
<1>6. CASE req[r].pc \notin {"accept", "expireOld", "insertInvite", "sync", "discard"}
  <2>1. invites' = invites
    BY <1>6, Writes
  <2> QED
    BY <2>1 DEF InvitesKept
<1> QED
  BY <1>1, <1>2, <1>3, <1>4, <1>5, <1>6, Places DEF Run

\* What a request goes on to do keeps its invitation.
LEMMA FlowKeepsInvite ==
    ASSUME NEW p, NEW q, Continues(p, q), KeepsInvite(p)', q.pc = "deactivate" => q.op # "invited"
    PROVE  KeepsInvite(q)'
<1>1. /\ q.op = p.op /\ q.email = p.email /\ q.invite = p.invite /\ q.ent = p.ent
      /\ <<p.pc, q.pc>> \in Flow /\ (p.pc = "customers" => q.user = p.user)
  BY DEF Continues
<1>2. /\ q.pc \in {"customers", "erase"} => p.pc = "customers"
      /\ q.pc \notin {"saveUser", "insertUser", "insertVerified"}
      /\ q.pc = "commit" => p.pc \in {"insertUser", "deactivate"}
      /\ q.pc = "deactivate" => p.pc = "insertUser"
  BY <1>1 DEF Flow
<1> QED
  BY <1>1, <1>2 DEF KeepsInvite

\* What the handlers hold of invitations stays true through a step of one of them.
LEMMA RunKeepsRequests ==
    ASSUME TypeInv, InvitedInv, NEW r \in Requests, Run(r), UsersKept, InvitesKept
    PROVE  RequestsKeepInvites'
<1>0. req \in [Requests -> Request] /\ UsersInvited
  BY DEF TypeInv, RequestsHold, InvitedInv
<1>1. PICK q : req' = [req EXCEPT ![r] = q] /\ (q = Idle \/ Continues(req[r], q))
  BY RunFlows DEF GoesTo
<1>2. ASSUME NEW s \in Requests, NEW p, p = req[s]
      PROVE  KeepsInvite(p)'
  <2>1. KeepsInvite(p) /\ Holding(p, Sizes)
    BY <1>2, RowsTyped DEF InvitedInv, RequestsKeepInvites
  <2> QED
    BY <1>0, <2>1, InviteKept
<1>3. KeepsInvite(q)'
  <2>1. CASE q = Idle
    BY <2>1 DEF KeepsInvite, Idle
  <2>2. CASE Continues(req[r], q)
    <3>1. PICK p : p = req[r]
      OBVIOUS
    <3>2. q.pc = "deactivate" => q.op # "invited"
      <4> HAVE q.pc = "deactivate"
      <4>1. <<p.pc, q.pc>> \in Flow /\ q.op = p.op
        BY <2>2, <3>1 DEF Continues
      <4>2. req[r].pc = "insertUser"
        BY <3>1, <4>1 DEF Flow
      <4>3. InsertUser(r)
        BY <4>2, Places DEF Run
      <4>4. req' = [req EXCEPT ![r] = Idle]
            \/ req' = [req EXCEPT ![r] = [req[r] EXCEPT !.pc = IF req[r].op = "invited" THEN "commit" ELSE "deactivate"]]
        BY <4>3 DEF InsertUser, Throw, Goto
      <4>5. Idle.pc = "idle" /\ req[r] \in Request
        BY <1>0 DEF Idle
      <4>6. req'[r] = q
        BY <1>0, <1>1
      <4> QED
        BY <1>0, <3>1, <4>1, <4>4, <4>5, <4>6 DEF Request
    <3>3. Continues(p, q) /\ KeepsInvite(p)'
      BY <1>2, <2>2, <3>1
    <3> QED
      BY <3>2, <3>3, FlowKeepsInvite
  <2> QED
    BY <1>1, <2>1, <2>2
<1>4. ASSUME NEW s \in Requests
      PROVE  KeepsInvite(req[s])'
  <2>1. CASE s = r
    BY <1>0, <1>1, <1>3, <2>1
  <2>2. CASE s # r
    <3>1. PICK p : p = req[s]
      OBVIOUS
    <3>2. KeepsInvite(p)' /\ req'[s] = p
      BY <1>0, <1>1, <1>2, <2>2, <3>1
    <3> QED
      BY <3>2
  <2> QED
    BY <2>1, <2>2
<1> QED
  BY <1>4 DEF RequestsKeepInvites

\* No order changes hands.
LEMMA RunKeepsOrders ==
    ASSUME TypeInv, OrdersOfFirst, NEW r \in Requests, Run(r)
    PROVE  OrdersOfFirst'
<1>0. customers \in Seq(CustomerRow) /\ \A c \in DOMAIN customers : customers[c] \in CustomerRow
  BY RowsTyped DEF TypeInv, TablesOK
<1>1. CASE EraseCustomer(r)
  <2>1. PICK c : customers' = [customers EXCEPT ![c].email = "gone", ![c].here = TRUE]
    BY <1>1 DEF EraseCustomer
  <2> QED
    BY <1>0, <2>1 DEF CustomerRow, OrdersOfFirst
<1>2. CASE RemoveCustomers(r)
  <2>1. \/ customers' = customers
        \/ customers' = [c \in DOMAIN customers |->
                           IF c \in req[r].list THEN [customers[c] EXCEPT !.here = FALSE]
                           ELSE customers[c]]
    BY <1>2 DEF RemoveCustomers, Throw, tables
  <2>2. /\ DOMAIN customers' = DOMAIN customers
        /\ \A c \in DOMAIN customers :
             customers'[c] = customers[c] \/ customers'[c] = [customers[c] EXCEPT !.here = FALSE]
    BY <2>1
  <2> QED
    BY <1>0, <2>2, ZenonT(40) DEF CustomerRow, OrdersOfFirst
<1>3. CASE CommitUser(r)
  <2>1. \/ customers' = customers
        \/ \E u, e : customers' = Append(customers, [here |-> TRUE, email |-> e, user |-> u,
                                                     orders |-> FALSE])
    BY <1>3 DEF CommitUser
  <2>2. \A c \in DOMAIN customers' :
          (c \in DOMAIN customers /\ customers'[c] = customers[c]) \/ ~customers'[c].orders
    <3>1. CASE customers' = customers
      BY <3>1
    <3>2. ASSUME NEW u, NEW e, customers' = Append(customers, [here |-> TRUE, email |-> e,
                                                               user |-> u, orders |-> FALSE])
          PROVE  \A c \in DOMAIN customers' :
                   (c \in DOMAIN customers /\ customers'[c] = customers[c]) \/ ~customers'[c].orders
      BY <1>0, <3>2
    <3> QED
      BY <2>1, <3>1, <3>2
  <2> QED
    BY <2>2 DEF OrdersOfFirst
<1>4. CASE Undo(r)
  <2>1. customers' = [c \in DOMAIN customers |->
              IF customers[c].user = req[r].user THEN [customers[c] EXCEPT !.here = FALSE]
              ELSE customers[c]]
    BY <1>4 DEF Undo
  <2> QED
    BY <1>0, <2>1 DEF CustomerRow, OrdersOfFirst
<1>5. CASE req[r].pc \notin {"customers", "removeCustomers", "commit", "undo"}
  <2>1. customers' = customers
    BY <1>5, Writes
  <2> QED
    BY <2>1 DEF OrdersOfFirst
<1> QED
  BY <1>1, <1>2, <1>3, <1>4, <1>5, Places DEF Run

\* No user changes its invitation, and one that is inserted or saved has the address of its.
LEMMA RunKeepsUsers ==
    ASSUME TypeInv, TypeInv', InvitedInv, NEW r \in Requests, Run(r)
    PROVE  UsersKept /\ UsersInvited'
<1> DEFINE p == req[r]
           u == p.user
<1>0. /\ users \in Seq(UserRow) /\ \A v \in DOMAIN users : users[v] \in UserRow
      /\ DOMAIN users = 1..Len(users) /\ Len(users) \in Nat
      /\ DOMAIN invites = 1..Len(invites) /\ Len(invites) \in Nat
      /\ p \in Request /\ p.ent \in UserRow /\ Holding(p, Sizes) /\ KeepsInvite(p)
      /\ UsersInvited
  <2>1. users \in Seq(UserRow) /\ invites \in Seq(InviteRow)
    BY DEF TypeInv, TablesOK
  <2>2. p \in Request /\ Holding(p, Sizes) /\ \A v \in DOMAIN users : users[v] \in UserRow
    BY RowsTyped
  <2>3. p.ent \in UserRow
    BY <2>2 DEF Request
  <2> QED
    BY <2>1, <2>2, <2>3 DEF InvitedInv, RequestsKeepInvites
<1>1. InvitesKept
  BY RunKeepsInvites
<1>a. ASSUME UsersKept,
             \A v \in DOMAIN users' : \/ v \in DOMAIN users /\ users'[v] = users[v]
                                      \/ ~users'[v].here /\ v \in DOMAIN users
                                      \/ users'[v].invite = 0
                                      \/ /\ users'[v].invite \in DOMAIN invites
                                         /\ users'[v].email = invites[users'[v].invite].email
      PROVE  UsersKept /\ UsersInvited'
  BY <1>0, <1>1, <1>a, UsersStayInvited
<1>b. ASSUME users' = users
      PROVE  UsersKept /\ UsersInvited'
  <2>1. UsersKept
    BY <1>b DEF UsersKept
  <2> QED
    BY <1>a, <1>b, <2>1
<1>c. ASSUME NEW row, users' = [users EXCEPT ![u] = row], u \in DOMAIN users,
             row.invite = users[u].invite,
             ~row.here \/ row.invite = 0 \/ row.email = invites[row.invite].email
      PROVE  UsersKept /\ UsersInvited'
  <2>1. DOMAIN users' = DOMAIN users /\ users'[u] = row /\ \A v \in DOMAIN users \ {u} : users'[v] = users[v]
    BY <1>0, <1>c
  <2>2. UsersKept
    BY <1>c, <2>1 DEF UsersKept
  <2>3. row.invite = 0 \/ row.invite \in DOMAIN invites
    BY <1>0, <1>c DEF UsersInvited
  <2> QED
    BY <1>a, <1>c, <2>1, <2>2, <2>3
<1>d. ASSUME NEW row, users' = Append(users, row),
             \/ row.invite = 0
             \/ row.invite \in DOMAIN invites /\ row.email = invites[row.invite].email
      PROVE  UsersKept /\ UsersInvited'
  <2>1. /\ \A v \in DOMAIN users : v \in DOMAIN users' /\ users'[v] = users[v]
        /\ \A v \in DOMAIN users' : v \in DOMAIN users \/ users'[v] = row
    BY <1>0, <1>d
  <2>2. UsersKept
    BY <2>1 DEF UsersKept
  <2> QED
    BY <1>a, <1>d, <2>1, <2>2
<1>2. CASE EraseUser(r)
  <2> DEFINE row == [p.ent EXCEPT !.email = "gone", !.verified = FALSE]
  <2>1. users' = [users EXCEPT ![u] = row] /\ p.pc = "erase"
    BY <1>2 DEF EraseUser
  <2>2. u = 1 /\ p.ent.invite = users[u].invite /\ users[u].invite = 0
    BY <1>0, <2>1 DEF KeepsInvite, UsersInvited
  <2>3. row.invite = users[u].invite /\ row.invite = 0
    BY <1>0, <2>2 DEF UserRow
  <2>4. u \in DOMAIN users
    BY <1>0, <2>1 DEF Holding, HoldsUser, Sizes
  <2> HIDE DEF row, u
  <2> QED
    BY <1>c, <2>1, <2>3, <2>4
<1>3. CASE RemoveUser(r) \/ Undo(r)
  <2>1. CASE users' = users
    BY <1>b, <2>1
  <2>2. CASE users' = [users EXCEPT ![u].here = FALSE]
    <3> DEFINE row == [users[u] EXCEPT !.here = FALSE]
    <3>1. u \in DOMAIN users
      BY <1>0, <1>3, Places DEF Holding, HoldsUser, Sizes
    <3>2. row.invite = users[u].invite /\ ~row.here
      BY <1>0, <3>1 DEF UserRow
    <3>3. users' = [users EXCEPT ![u] = row]
      BY <2>2
    <3> HIDE DEF row, u
    <3> QED
      BY <1>c, <3>1, <3>2, <3>3
  <2> QED
    BY <1>3, <2>1, <2>2 DEF RemoveUser, Undo, Throw, tables
<1>4. CASE SaveUser(r)
  <2>1. CASE users' = users
    BY <1>b, <2>1
  <2>2. CASE users' = [users EXCEPT ![u] = p.ent]
    <3>1. u \in DOMAIN users /\ p.pc = "saveUser"
      BY <1>0, <1>4, Places DEF Holding, HoldsUser, Sizes
    <3>2. p.ent.invite = users[u].invite /\ InvitedBy(p.ent)
      BY <1>0, <3>1 DEF KeepsInvite
    <3> QED
      BY <1>c, <2>2, <3>1, <3>2 DEF InvitedBy
  <2> QED
    BY <1>4, <2>1, <2>2 DEF SaveUser, Throw, tables
<1>5. CASE CommitUser(r)
  <2>1. PICK by, verified : users' = Append(users, NewUser(p.email, verified, by, p.invite))
    BY <1>5 DEF CommitUser
  <2> DEFINE row == NewUser(p.email, verified, by, p.invite)
  <2>2. row.email = p.email /\ row.invite = p.invite
    BY DEF NewUser
  <2>3. p.pc = "commit" /\ p.invite \in 0..Len(invites)
    BY <1>0, <1>5, Places DEF Holding, HoldsInvite, Sizes
  <2>4. p.invite = 0 \/ (p.invite \in DOMAIN invites /\ p.email = invites[p.invite].email)
    BY <1>0, <2>3 DEF KeepsInvite
  <2>5. users' = Append(users, row)
    BY <2>1
  <2> HIDE DEF row
  <2> QED
    BY <1>d, <2>2, <2>4, <2>5
<1>6. CASE InsertVerified(r)
  <2>1. CASE users' = users
    BY <1>b, <2>1
  <2>2. CASE users' = Append(users, p.ent)
    BY <1>0, <1>6, <1>d, <2>2, Places DEF KeepsInvite
  <2> QED
    BY <1>6, <2>1, <2>2 DEF InsertVerified
<1>7. CASE p.pc \notin {"erase", "removeUser", "commit", "undo", "saveUser", "insertVerified"}
  BY <1>7, <1>b, Writes
<1> QED
  BY <1>2, <1>3, <1>4, <1>5, <1>6, <1>7, Places DEF Run

\* Only the insert of a user opens a transaction that holds an address.
LEMMA RunInserting ==
    ASSUME TypeInv, NEW r \in Requests, Run(r), ~InsertUser(r), NEW e
    PROVE  Inserting(e)' \subseteq Inserting(e) /\ (CommitUser(r) => r \notin Inserting(e)')
<1>0. req \in [Requests -> Request] /\ Idle.pc = "idle"
  BY DEF TypeInv, RequestsHold, Idle
<1>1. PICK q : req' = [req EXCEPT ![r] = q] /\ (q = Idle \/ Continues(req[r], q))
  BY RunFlows DEF GoesTo
<1>2. \A s \in Requests : req'[s] = IF s = r THEN q ELSE req[s]
  BY <1>0, <1>1
<1>3. q.pc \in {"deactivate", "commit"} =>
        req[r].pc = "deactivate" /\ q.op = req[r].op /\ q.email = req[r].email
  <2> HAVE q.pc \in {"deactivate", "commit"}
  <2>1. Continues(req[r], q)
    BY <1>0, <1>1
  <2>2. <<req[r].pc, q.pc>> \in Flow /\ q.op = req[r].op /\ q.email = req[r].email
    BY <2>1 DEF Continues
  <2>3. req[r].pc \in {"insertUser", "deactivate"}
    BY <2>2 DEF Flow
  <2>4. req[r].pc # "insertUser"
    BY Places DEF Run
  <2> QED
    BY <2>2, <2>3, <2>4
<1>4. CommitUser(r) => req[r].pc # "deactivate"
  BY Places
<1> QED
  BY <1>2, <1>3, <1>4 DEF Inserting

\* The unique index: an insert waits for those of the same address and fails if there is one.
LEMMA RunKeepsUnique ==
    ASSUME TypeInv, TypeInv', InvitedInv, NEW r \in Requests, Run(r), NEW e \in Emails
    PROVE  OneUser(e)'
<1> DEFINE p == req[r]
           u == p.user
<1>0. /\ users \in Seq(UserRow) /\ DOMAIN users = 1..Len(users) /\ Len(users) \in Nat
      /\ OneUser(e) /\ p \in Request /\ req \in [Requests -> Request] /\ KeepsInvite(p)
      /\ Holding(p, Sizes) /\ p.ent \in UserRow /\ \A v \in DOMAIN users : users[v] \in UserRow
  <2>1. users \in Seq(UserRow) /\ req \in [Requests -> Request]
    BY DEF TypeInv, TablesOK, RequestsHold
  <2>2. p \in Request /\ Holding(p, Sizes) /\ \A v \in DOMAIN users : users[v] \in UserRow
    BY RowsTyped
  <2>3. p.ent \in UserRow
    BY <2>2 DEF Request
  <2> QED
    BY <2>1, <2>2, <2>3 DEF InvitedInv, RequestsKeepInvites
<1>1. CASE InsertUser(r)
  <2>1. users' = users /\ UsersOf(e)' = UsersOf(e)
    BY <1>1, Places, Writes DEF UsersOf
  <2>2. Inserting(p.email) = {} /\ (Taken(p.email) => req' = [req EXCEPT ![r] = Idle])
    BY <1>1 DEF InsertUser, Throw, Goto
  <2>3. req' = [req EXCEPT ![r] = Idle]
        \/ \E pc : req' = [req EXCEPT ![r] = [p EXCEPT !.pc = pc]]
    BY <1>1 DEF InsertUser, Throw, Goto
  <2>4. /\ \A s \in Requests \ {r} : req'[s] = req[s]
        /\ req'[r].pc \in {"deactivate", "commit"} => req'[r].email = p.email /\ ~Taken(p.email)
    <3>1. Idle.pc = "idle"
      BY DEF Idle
    <3> QED
      BY <1>0, <2>2, <2>3, <3>1 DEF Request
  <2>5. CASE e = p.email /\ ~Taken(p.email)
    <3>1. Inserting(e)' \subseteq {r} /\ UsersOf(e) = {}
      BY <2>2, <2>4, <2>5 DEF Inserting, Taken
    <3> QED
      BY <2>1, <3>1 DEF OneUser
  <2>6. CASE e # p.email \/ Taken(p.email)
    <3>1. Inserting(e)' \subseteq Inserting(e)
      BY <2>4, <2>6 DEF Inserting
    <3> QED
      BY <1>0, <2>1, <3>1, OneUserStays
  <2> QED
    BY <2>5, <2>6
<1>2. ASSUME ~InsertUser(r)
      PROVE  OneUser(e)'
  <2>1. Inserting(e)' \subseteq Inserting(e) /\ (CommitUser(r) => r \notin Inserting(e)')
    BY <1>2, RunInserting
  <2>a. ASSUME UsersOf(e)' \subseteq UsersOf(e)
        PROVE  OneUser(e)'
    BY <1>0, <2>1, <2>a, OneUserStays
  <2>b. ASSUME NEW row, users' = [users EXCEPT ![u] = row], row.here => row.email # e
        PROVE  OneUser(e)'
    <3>1. UsersOf(e)' \subseteq UsersOf(e)
      BY <1>0, <2>b DEF UsersOf
    <3> QED
      BY <2>a, <3>1
  <2>c. ASSUME NEW row, users' = Append(users, row), row.email # e
        PROVE  OneUser(e)'
    <3>1. UsersOf(e)' \subseteq UsersOf(e)
      BY <1>0, <2>c DEF UsersOf
    <3> QED
      BY <2>a, <3>1
  <2>d. ASSUME NEW row, users' = Append(users, row), UsersOf(e) = {}, Inserting(e)' = {}
        PROVE  OneUser(e)'
    <3>1. UsersOf(e)' \subseteq {Len(users) + 1}
      BY <1>0, <2>d DEF UsersOf
    <3> QED
      BY <2>d, <3>1 DEF OneUser
  <2>2. CASE EraseUser(r)
    <3> DEFINE row == [p.ent EXCEPT !.email = "gone", !.verified = FALSE]
    <3>1. users' = [users EXCEPT ![u] = row]
      BY <2>2 DEF EraseUser
    <3>2. row.email # e
      BY <1>0, AccountsAssumption DEF UserRow
    <3> HIDE DEF row
    <3> QED
      BY <2>b, <3>1, <3>2
  <2>3. CASE RemoveUser(r) \/ Undo(r)
    <3>1. users' = users \/ users' = [users EXCEPT ![u].here = FALSE]
      BY <2>3 DEF RemoveUser, Undo, Throw, tables
    <3>2. \A v \in DOMAIN users' : v \in DOMAIN users /\ (users'[v] = users[v] \/ ~users'[v].here)
      BY <1>0, <3>1 DEF UserRow
    <3>3. UsersOf(e)' \subseteq UsersOf(e)
      BY <3>2 DEF UsersOf
    <3> QED
      BY <2>a, <3>3
  <2>4. CASE SaveUser(r)
    <3>1. CASE users' = users
      BY <2>a, <3>1 DEF UsersOf
    <3>2. CASE users' = [users EXCEPT ![u] = p.ent] /\ Inserting(p.ent.email) = {}
               /\ (p.ent.email = "gone" \/ UsersOf(p.ent.email) \ {u} = {})
      <4>1. CASE p.ent.email = e
        <5>1. UsersOf(e) \subseteq {u} /\ Inserting(e)' = {}
          BY <2>1, <3>2, <4>1, AccountsAssumption
        <5>2. UsersOf(e)' \subseteq {u}
          BY <1>0, <3>2, <5>1 DEF UsersOf
        <5> QED
          BY <5>1, <5>2 DEF OneUser
      <4>2. CASE p.ent.email # e
        BY <2>b, <3>2, <4>2
      <4> QED
        BY <4>1, <4>2
    <3> QED
      BY <2>4, <3>1, <3>2 DEF SaveUser, Throw, tables
  <2>5. CASE CommitUser(r)
    <3>1. PICK by, verified : users' = Append(users, NewUser(p.email, verified, by, p.invite))
      BY <2>5 DEF CommitUser
    <3> DEFINE row == NewUser(p.email, verified, by, p.invite)
    <3>2. row.email = p.email
      BY DEF NewUser
    <3>3. users' = Append(users, row)
      BY <3>1
    <3> HIDE DEF row
    <3>4. CASE p.email # e
      BY <2>c, <3>2, <3>3, <3>4
    <3>5. CASE p.email = e
      <4>1. r \in Inserting(e)
        <5>1. p.pc = "commit" /\ p.op \in {"register", "customer", "invited"}
          BY <1>0, <2>5, Places DEF Holding, HoldsOp, Registering
        <5> QED
          BY <3>5, <5>1 DEF Inserting
      <4>2. UsersOf(e) = {} /\ Inserting(e) = {r}
        BY <1>0, <4>1 DEF OneUser
      <4>3. Inserting(e)' = {}
        BY <2>1, <2>5, <4>2
      <4> QED
        BY <2>d, <3>3, <4>2, <4>3
    <3> QED
      BY <3>4, <3>5
  <2>6. CASE InsertVerified(r)
    <3>1. CASE users' = users
      BY <2>a, <3>1 DEF UsersOf
    <3>2. CASE users' = Append(users, p.ent) /\ ~Taken(p.email) /\ Inserting(p.email) = {}
      <4>1. p.ent.email = p.email
        BY <1>0, <2>6, Places DEF KeepsInvite
      <4>2. CASE p.email # e
        BY <2>c, <3>2, <4>1, <4>2
      <4>3. CASE p.email = e
        <5>1. UsersOf(e) = {} /\ Inserting(e)' = {}
          BY <2>1, <3>2, <4>3 DEF Taken
        <5> QED
          BY <2>d, <3>2, <5>1
      <4> QED
        BY <4>2, <4>3
    <3> QED
      BY <2>6, <3>1, <3>2 DEF InsertVerified
  <2>7. CASE p.pc \notin {"erase", "removeUser", "commit", "undo", "saveUser", "insertVerified"}
    <3>1. users' = users
      BY <2>7, Writes
    <3> QED
      BY <2>a, <3>1 DEF UsersOf
  <2> QED
    BY <1>2, <2>2, <2>3, <2>4, <2>5, <2>6, <2>7, Places DEF Run
<1> QED
  BY <1>1, <1>2

\* A call keeps the address it has read.
LEMMA BeginInvitedKeeps ==
    ASSUME TypeInv, TypeInv', InvitedInv, NEW r \in Requests, Begin(r)
    PROVE  InvitedInv'
<1>0. /\ req \in [Requests -> Request] /\ Free(r) /\ UsersInvited /\ OrdersOfFirst
      /\ \A k \in DOMAIN invites : invites[k] \in InviteRow
      /\ DOMAIN users = 1..Len(users) /\ \A v \in DOMAIN users : users[v] \in UserRow
  BY RowsTyped DEF TypeInv, RequestsHold, InvitedInv, Begin, TablesOK
<1>a. ASSUME NEW q, Call(r, q), users' = users, customers' = customers, InvitesKept,
             KeepsInvite(q), Holding(q, Sizes), q.pc # "commit",
             q.pc = "deactivate" => q.op = "recover"
      PROVE  InvitedInv'
  <2>1. req' = [req EXCEPT ![r] = q]
    BY <1>a DEF Call
  <2>2. UsersKept
    BY <1>a DEF UsersKept
  <2>3. UsersInvited'
    BY <1>0, <1>a, <2>2, UsersStayInvited
  <2>4. OrdersOfFirst'
    BY <1>0, <1>a DEF OrdersOfFirst
  <2>5. ASSUME NEW e \in Emails
        PROVE  OneUser(e)'
    <3>1. UsersOf(e)' = UsersOf(e)
      BY <1>a DEF UsersOf
    <3>2. Inserting(e)' \subseteq Inserting(e)
      BY <1>0, <1>a, <2>1 DEF Inserting
    <3> QED
      BY <3>1, <3>2, OneUserStays DEF InvitedInv
  <2>6. ASSUME NEW s \in Requests
        PROVE  KeepsInvite(req[s])'
    <3>1. CASE s = r
      <4>1. KeepsInvite(q)'
        BY <1>0, <1>a, <2>2, InviteKept
      <4> QED
        BY <1>0, <2>1, <3>1, <4>1
    <3>2. CASE s # r
      <4>1. PICK p : p = req[s]
        OBVIOUS
      <4>2. KeepsInvite(p) /\ Holding(p, Sizes)
        BY <4>1, RowsTyped DEF InvitedInv, RequestsKeepInvites
      <4>3. KeepsInvite(p)'
        BY <1>0, <1>a, <2>2, <4>2, InviteKept
      <4>4. req'[s] = p
        BY <1>0, <2>1, <3>2, <4>1
      <4> QED
        BY <4>3, <4>4
    <3> QED
      BY <3>1, <3>2
  <2> QED
    BY <2>3, <2>4, <2>5, <2>6 DEF InvitedInv, RequestsKeepInvites
<1>b. Holding(Idle, Sizes) /\ KeepsInvite(Idle) /\ Idle.pc = "idle"
  BY RowsTyped, IdleHolds DEF KeepsInvite, Idle
<1>1. ASSUME NEW q, BeginsWith(r, q)
      PROVE  InvitedInv'
  <2>1. /\ Call(r, q) /\ UNCHANGED tables /\ StartsDelete(q) /\ StartsSave(q) /\ StartsUser(q)
        /\ q.pc \in StartPlaces
    BY <1>1 DEF BeginsWith, Starts
  <2>2. Holding(q, Sizes)
    <3>1. req'[r] = q /\ Sizes' = Sizes
      BY <1>0, <2>1 DEF Call, Sizes, tables
    <3> QED
      BY <3>1 DEF TypeInv, RequestsHold
  <2>3. KeepsInvite(q)
    <3>1. q.pc \in {"customers", "erase"} =>
            q.user = 1 /\ q.ent.invite = users[q.user].invite /\ InvitedBy(q.ent)
      <4> HAVE q.pc \in {"customers", "erase"}
      <4>1. q.user \in DOMAIN users /\ HasOrders(q.user) /\ q.ent = users[q.user]
        BY <2>1 DEF StartsDelete
      <4>2. q.user \in {0, 1} /\ q.user # 0
        BY <1>0, <4>1 DEF HasOrders, OrdersOfFirst
      <4>3. InvitedBy(users[q.user])
        BY <1>0, <4>1 DEF UsersInvited
      <4> QED
        BY <4>1, <4>2, <4>3
    <3>2. q.pc = "saveUser" => q.ent.invite = users[q.user].invite /\ InvitedBy(q.ent)
      <4> HAVE q.pc = "saveUser"
      <4>1. /\ q.user \in DOMAIN users /\ users[q.user].here
            /\ q.ent.email = users[q.user].email /\ q.ent.invite = users[q.user].invite
        BY <2>1 DEF StartsSave
      <4>2. InvitedBy(users[q.user])
        BY <1>0, <4>1 DEF UsersInvited
      <4> QED
        BY <4>1, <4>2 DEF InvitedBy
    <3>3. q.pc # "commit"
      BY <2>1 DEF StartPlaces
    <3> QED
      BY <2>1, <3>1, <3>2, <3>3 DEF KeepsInvite, StartsUser
  <2>4. InvitesKept /\ users' = users /\ customers' = customers
    BY <2>1 DEF InvitesKept, tables
  <2> QED
    BY <1>a, <2>1, <2>2, <2>3, <2>4 DEF StartPlaces, StartsUser
<1>2. ASSUME NEW k, Logout(r, k)
      PROVE  InvitedInv'
  BY <1>a, <1>b, <1>2 DEF Logout, InvitesKept
<1>3. ASSUME NEW k, ExpireInvite(r, k)
      PROVE  InvitedInv'
  <2>1. invites' = [invites EXCEPT ![k].status = "EXPIRED"] /\ Call(r, Idle) /\ users' = users
        /\ customers' = customers
    BY <1>3 DEF ExpireInvite
  <2>2. InvitesKept
    BY <1>0, <2>1 DEF InviteRow, InvitesKept
  <2> QED
    BY <1>a, <1>b, <2>1, <2>2
<1> QED
  BY <1>1, <1>2, <1>3, BeginsOrDone

\* Every step.
LEMMA NextInvited ==
    ASSUME TypeInv, TypeInv', InvitedInv, [Next]_vars
    PROVE  InvitedInv'
<1>0. /\ req \in [Requests -> Request] /\ UsersInvited /\ OrdersOfFirst
      /\ \A k \in DOMAIN invites : invites[k] \in InviteRow
  BY RowsTyped DEF TypeInv, RequestsHold, InvitedInv
<1>a. ASSUME users' = users, customers' = customers, InvitesKept,
             \A s \in Requests : req'[s] = req[s] \/ req'[s] = Idle
      PROVE  InvitedInv'
  <2>1. UsersKept
    BY <1>a DEF UsersKept
  <2>2. UsersInvited'
    BY <1>0, <1>a, <2>1, UsersStayInvited
  <2>3. OrdersOfFirst'
    BY <1>0, <1>a DEF OrdersOfFirst
  <2>4. ASSUME NEW e \in Emails
        PROVE  OneUser(e)'
    <3>1. UsersOf(e)' = UsersOf(e)
      BY <1>a DEF UsersOf
    <3>2. Inserting(e)' \subseteq Inserting(e)
      BY <1>a DEF Inserting, Idle
    <3> QED
      BY <3>1, <3>2, OneUserStays DEF InvitedInv
  <2>5. ASSUME NEW s \in Requests
        PROVE  KeepsInvite(req[s])'
    <3>1. CASE req'[s] = Idle
      BY <3>1 DEF KeepsInvite, Idle
    <3>2. CASE req'[s] = req[s]
      <4>1. PICK p : p = req[s]
        OBVIOUS
      <4>2. KeepsInvite(p) /\ Holding(p, Sizes)
        BY <4>1, RowsTyped DEF InvitedInv, RequestsKeepInvites
      <4>3. KeepsInvite(p)'
        BY <1>0, <1>a, <2>1, <4>2, InviteKept
      <4> QED
        BY <3>2, <4>1, <4>3
    <3> QED
      BY <1>a, <3>1, <3>2
  <2> QED
    BY <2>2, <2>3, <2>4, <2>5 DEF InvitedInv, RequestsKeepInvites
<1>1. ASSUME NEW r \in Requests, Run(r)
      PROVE  InvitedInv'
  <2>1. InvitesKept /\ UsersKept /\ UsersInvited' /\ OrdersOfFirst'
    BY <1>0, <1>1, RunKeepsInvites, RunKeepsUsers, RunKeepsOrders
  <2>2. \A e \in Emails : OneUser(e)'
    BY <1>1, RunKeepsUnique
  <2>3. RequestsKeepInvites'
    BY <1>1, <2>1, RunKeepsRequests
  <2> QED
    BY <2>1, <2>2, <2>3 DEF InvitedInv
<1>2. ASSUME NEW r \in Requests, Die(r)
      PROVE  InvitedInv'
  <2>1. req' = [req EXCEPT ![r] = Idle] /\ UNCHANGED tables
    BY <1>2 DEF Die, Throw, Goto
  <2> QED
    BY <1>0, <1>a, <2>1 DEF tables, InvitesKept
<1>3. CASE Lapse
  <2>1. /\ req' = req /\ users' = users /\ customers' = customers
        /\ (invites' = invites \/ \E k \in DOMAIN invites : invites' = [invites EXCEPT ![k].expired = TRUE])
    BY <1>3 DEF Lapse
  <2>2. InvitesKept
    BY <1>0, <2>1 DEF InviteRow, InvitesKept
  <2> QED
    BY <1>0, <1>a, <2>1, <2>2
<1>4. CASE UNCHANGED vars
  BY <1>0, <1>a, <1>4 DEF vars, InvitesKept
<1> QED
  BY <1>1, <1>2, <1>3, <1>4, BeginInvitedKeeps DEF Next

\* The initial state.
LEMMA InitInvited ==
    ASSUME Init, TypeInv
    PROVE  InvitedInv /\ PendingInv
<1>1. /\ users = << NewUser(Known, TRUE, "customer", 0) >> /\ invites = << NewInvite(Invited) >>
      /\ \A r \in Requests : req[r] = Idle
  BY DEF Init
<1>2. /\ NewUser(Known, TRUE, "customer", 0).invite = 0 /\ Idle.pc = "idle"
      /\ DOMAIN users = {1} /\ DOMAIN invites = {1}
  BY <1>1 DEF NewUser, Idle
<1>3. UsersInvited
  <2>0. users[1] = NewUser(Known, TRUE, "customer", 0) /\ DOMAIN users = {1}
    BY <1>1
  <2>1. \A u \in DOMAIN users : users[u].invite = 0
    BY <1>2, <2>0
  <2>2. users # <<>> /\ users[1].invite = 0 /\ Len(invites) \in Nat
    BY <1>1, <1>2, <2>1
  <2> QED
    BY <2>1, <2>2 DEF UsersInvited, InvitedBy
<1>4. OrdersOfFirst
  <2>1. \A c \in DOMAIN customers : customers[c].user \in {0, 1}
    BY DEF Init
  <2> QED
    BY <2>1 DEF OrdersOfFirst
<1>5. RequestsKeepInvites
  BY <1>1, <1>2 DEF RequestsKeepInvites, KeepsInvite
<1>6. ASSUME NEW e \in Emails
      PROVE  OneUser(e) /\ PendingAt(e)
  <2>1. Inserting(e) = {} /\ Inviting(e) = {}
    BY <1>1, <1>2 DEF Inserting, Inviting
  <2>2. UsersOf(e) \subseteq {1} /\ Pending(e) \subseteq {1}
    BY <1>2 DEF UsersOf, Pending
  <2>3. Cardinality({}) = 0 /\ IsFiniteSet({1}) /\ Cardinality({1}) = 1
    BY FS_EmptySet, FS_Singleton
  <2>4. Cardinality(Pending(e)) <= 1 /\ Cardinality(Pending(e)) \in Nat /\ used.overlaps \in Nat
    BY <2>2, <2>3, FS_Subset, PendingFinite
  <2> QED
    BY <2>1, <2>2, <2>3, <2>4 DEF OneUser, PendingAt
<1>7. RunningInv
  <2>1. RunningSet = {} /\ Cardinality({}) = 0 /\ used.overlaps = 0
    BY <1>1, FS_EmptySet DEF RunningSet, Running, Init
  <2> QED
    BY <2>1 DEF RunningInv
<1> QED
  BY <1>3, <1>4, <1>5, <1>6, <1>7 DEF InvitedInv, PendingInv

\* An invitation makes one seller, however often it is presented; an address has one
\* invitation that is pending, and one more for each request that overlapped another.
THEOREM InvitationsHold == Spec => []InvitationsAreSingle
<1>1. Init /\ TypeInv => InvitedInv /\ PendingInv
  BY InitInvited
<1>2. TypeInv /\ TypeInv' /\ InvitedInv /\ PendingInv /\ [Next]_vars => InvitedInv' /\ PendingInv'
  BY NextInvited, NextPending
<1>3. TypeInv /\ InvitedInv /\ PendingInv => InvitationsAreSingle
  <2> SUFFICES ASSUME TypeInv, InvitedInv, PendingInv
               PROVE  InvitationsAreSingle
    OBVIOUS
  <2>1. ASSUME NEW k \in DOMAIN invites
        PROVE  Cardinality({u \in DOMAIN users : users[u].here /\ users[u].invite = k}) <= 1
    <3> DEFINE S == {u \in DOMAIN users : users[u].here /\ users[u].invite = k}
               e == invites[k].email
    <3>1. k # 0 /\ e \in Emails
      BY RowsTyped DEF InviteRow
    <3>2. S \subseteq UsersOf(e)
      BY <3>1 DEF UsersOf, InvitedInv, UsersInvited, InvitedBy
    <3>3. \A u, v \in S : u = v
      BY <3>1, <3>2 DEF InvitedInv, OneUser
    <3> HIDE DEF S
    <3>4. CASE S = {}
      <4>1. Cardinality(S) = 0
        BY <3>4, FS_EmptySet
      <4> QED
        BY <4>1 DEF S
    <3>5. CASE S # {}
      <4>1. PICK u : S = {u}
        BY <3>3, <3>5
      <4>2. Cardinality(S) = 1
        BY <4>1, FS_Singleton
      <4> QED
        BY <4>2 DEF S
    <3> QED
      BY <3>4, <3>5
  <2>2. ASSUME NEW e \in Emails
        PROVE  Cardinality({k \in DOMAIN invites : IsPending(k) /\ invites[k].email = e})
                 <= 1 + used.overlaps
    <3>1. /\ Cardinality(Pending(e)) \in Nat /\ Cardinality(Inviting(e)) \in Nat
          /\ used.overlaps \in Nat /\ PendingAt(e)
      BY PendingFinite DEF PendingInv
    <3>2. Cardinality(Pending(e)) <= 1 + used.overlaps
      BY <3>1 DEF PendingAt
    <3> QED
      BY <3>2 DEF Pending
  <2> QED
    BY <2>1, <2>2 DEF InvitationsAreSingle
<1> QED
  BY <1>1, <1>2, <1>3, TypesAlways, PTL DEF Spec

-----------------------------------------------------------------------------
(* Requests that do not overlap and do not die: the one that runs finds the tables as it  *)
(* left them.                                                                              *)

Alone(r) == \A s \in Requests \ {r} : req[s] = Idle

\* A step after which nothing has overlapped or died begins a request where none runs or is
\* taken by the only one that runs.
LEMMA CleanSteps ==
    ASSUME TypeInv, TypeInv', RunningInv, [Next]_vars, Clean'
    PROVE  /\ Clean
           /\ \A r \in Requests : ~Die(r)
           /\ \A r \in Requests : Begin(r) => Quiet
           /\ \A r \in Requests : Running(r) => Alone(r)
<1>0. /\ used.overlaps \in Nat /\ used'.overlaps \in Nat /\ used.faults \in Nat
      /\ used'.faults \in Nat /\ used'.overlaps = 0 /\ used'.faults = 0
      /\ req \in [Requests -> Request]
  BY AccountsAssumption DEF TypeInv, UsedOK, RequestsHold, Clean
<1>1. ASSUME NEW r \in Requests, Begin(r)
      PROVE  Clean /\ Quiet
  <2>1. PICK q : Call(r, q)
    BY <1>1, BeginsOrDone DEF BeginsWith, Logout, ExpireInvite
  <2>2. used'.overlaps = used.overlaps + (IF Overlaps(r) THEN 1 ELSE 0)
    BY <1>1, <2>1, CallCounts DEF TypeInv, Begin
  <2>3. used'.faults = used.faults
    BY <2>1 DEF Call, TypeInv, UsedOK
  <2>4. ~Overlaps(r) /\ used.overlaps = 0
    BY <1>0, <2>2
  <2>5. ~Running(r)
    BY <1>1 DEF Begin, Free
  <2> QED
    BY <1>0, <2>3, <2>4, <2>5 DEF Clean, Quiet, Overlaps
<1>2. ASSUME NEW r \in Requests, Run(r)
      PROVE  Clean
  BY <1>2, Writes DEF Clean
<1>3. ASSUME NEW r \in Requests, Die(r)
      PROVE  FALSE
  <2>1. used' = [used EXCEPT !.faults = @ + 1]
    BY <1>3 DEF Die
  <2>2. used'.faults = used.faults + 1
    BY <2>1 DEF TypeInv, UsedOK
  <2> QED
    BY <1>0, <2>2
<1>4. ASSUME Lapse \/ UNCHANGED vars
      PROVE  Clean
  <2>1. used' = [used EXCEPT !.lapses = @ + 1] \/ used' = used
    BY <1>4 DEF Lapse, vars
  <2>2. used'.overlaps = used.overlaps /\ used'.faults = used.faults
    BY <2>1 DEF TypeInv, UsedOK
  <2> QED
    BY <1>0, <2>2 DEF Clean
<1>5. Clean
  BY <1>1, <1>2, <1>3, <1>4 DEF Next
<1>6. ASSUME NEW r \in Requests, Running(r)
      PROVE  Alone(r)
  <2> SUFFICES ASSUME NEW s \in Requests, s # r, Running(s)
               PROVE  FALSE
    BY DEF Alone, Running
  <2>1. {r, s} \subseteq RunningSet /\ IsFiniteSet(RunningSet) /\ Cardinality(RunningSet) \in Nat
    BY <1>6, PendingFinite DEF RunningSet
  <2>2. IsFiniteSet({r}) /\ Cardinality({r}) = 1 /\ s \notin {r} /\ {r} \cup {s} = {r, s}
    BY FS_Singleton
  <2>3. Cardinality({r, s}) = 2
    BY ONLY <2>2, FS_AddElement
  <2>4. 2 <= Cardinality(RunningSet)
    BY ONLY <2>1, <2>3, FS_Subset
  <2>5. Cardinality(RunningSet) <= 1
    BY <1>5 DEF RunningInv, Clean
  <2> QED
    BY <2>1, <2>4, <2>5
<1> QED
  BY <1>1, <1>3, <1>5, <1>6

-----------------------------------------------------------------------------
(* Accounts that were erased have no session that is open, except for those that the       *)
(* request that erased it is about to revoke, and no request that runs gives them one.     *)

Erased(u) == u # 0 /\ users[u].here /\ users[u].email = "gone"
Closed(u) == \A k \in DOMAIN refresh : refresh[k].user = u => refresh[k].revoked
Leaving(q, u) == q.pc = "revokeAll" /\ q.user = u
ByAdminOnly(u) == users[u].verified => users[u].by = "admin"
UsersErased ==
    \A u \in DOMAIN users : Erased(u) =>
      ByAdminOnly(u) /\ (Closed(u) \/ \E r \in Requests : Leaving(req[r], u))
KeepsErased(q) ==
    /\ q.pc \in {"user", "revoke", "issue", "accept", "store"} => ~Erased(q.user)
    /\ q.pc = "saveUser" =>
         /\ users[q.user].here /\ q.ent.email = users[q.user].email
         /\ IF q.op = "update" THEN q.ent.by = "admin" ELSE q.ent.email # "gone"
    /\ q.pc = "insertVerified" => q.ent.email = q.email
    /\ q.pc \in {"customers", "removeCustomers"} => CustomersOf(q.ent.email) \subseteq q.list
    /\ q.pc \in {"erase", "revokeAll"} \/ (q.pc = "removeUser" /\ q.op = "delete")
         => CustomersOf(q.ent.email) = {}
ErasedInv == Clean => UsersErased /\ \A r \in Requests : KeepsErased(req[r])

\* The state in which only one request may be running.
UsersErasedFor(q) ==
    \A u \in DOMAIN users : Erased(u) => ByAdminOnly(u) /\ (Closed(u) \/ Leaving(q, u))

\* With one request that may be running, the erased accounts are a matter of that one.
LEMMA ErasedForOne ==
    ASSUME NEW r \in Requests, Alone(r)
    PROVE  UsersErased <=> UsersErasedFor(req[r])
<1>1. \A s \in Requests \ {r} : \A u : ~Leaving(req[s], u)
  BY DEF Alone, Leaving, Idle
<1> QED
  BY <1>1 DEF UsersErased, UsersErasedFor

\* A request that is not running keeps nothing.
LEMMA IdleKeepsErased == KeepsErased(Idle) /\ \A u : ~Leaving(Idle, u)
BY DEF KeepsErased, Leaving, Idle

\* After a step of the only request that runs.
LEMMA ErasedAfter ==
    ASSUME TypeInv, NEW r \in Requests, Alone(r), NEW q, req' = [req EXCEPT ![r] = q],
           UsersErasedFor(q)', KeepsErased(q)'
    PROVE  ErasedInv'
<1>0. req \in [Requests -> Request]
  BY DEF TypeInv, RequestsHold
<1>1. req'[r] = q /\ \A s \in Requests \ {r} : req'[s] = Idle
  BY <1>0 DEF Alone
<1>2. UsersErased'
  BY <1>1 DEF UsersErased, UsersErasedFor
<1>3. ASSUME NEW s \in Requests
      PROVE  KeepsErased(req[s])'
  <2>1. CASE s = r
    BY <1>1, <2>1
  <2>2. CASE s # r
    BY <1>1, <2>2 DEF KeepsErased, Idle
  <2> QED
    BY <2>1, <2>2
<1> QED
  BY <1>2, <1>3 DEF ErasedInv

\* No account is erased, verified or comes back, and a session that is open was open before.
LEMMA UsersStayErased ==
    ASSUME NEW p, NEW q, UsersErasedFor(p), UNCHANGED users, UNCHANGED refresh,
           \A u \in DOMAIN users : Leaving(p, u) => Leaving(q, u)
    PROVE  UsersErasedFor(q)'
BY DEF UsersErasedFor, Erased, ByAdminOnly, Closed, Leaving

\* A call: it finds the sessions of erased accounts revoked.
LEMMA BeginErased ==
    ASSUME TypeInv, UsersErased, NEW r \in Requests, Begin(r), Quiet
    PROVE  ErasedInv'
<1>0. /\ req \in [Requests -> Request] /\ Alone(r) /\ req[r] = Idle /\ UsersErasedFor(Idle)
      /\ refresh \in Seq(RefreshRow)
      /\ \A k \in DOMAIN refresh : refresh[k].user \in 0..Len(users) /\ refresh[k] \in RefreshRow
      /\ DOMAIN users = 1..Len(users) /\ Len(users) \in Nat
  <2>1. Alone(r) /\ req[r] = Idle
    BY DEF Quiet, Running, Alone
  <2>2. users \in Seq(UserRow) /\ refresh \in Seq(RefreshRow)
    BY DEF TypeInv, TablesOK
  <2> QED
    BY <2>1, <2>2, ErasedForOne, RowsTyped DEF TypeInv, TokensRefer, RequestsHold
<1>1. ASSUME NEW q, BeginsWith(r, q)
      PROVE  ErasedInv'
  <2>1. /\ req' = [req EXCEPT ![r] = q] /\ q.pc \in StartPlaces
        /\ StartsSession(q) /\ StartsDelete(q) /\ StartsSave(q) /\ StartsUser(q)
        /\ users' = users /\ refresh' = refresh /\ customers' = customers
    BY <1>1 DEF BeginsWith, Call, tables, Starts
  <2>2. UsersErasedFor(q)'
    BY <1>0, <2>1, IdleKeepsErased, UsersStayErased
  <2>3. q.pc = "user" => ~Erased(q.user)
    <3> SUFFICES ASSUME q.pc = "user", Erased(q.user)
                 PROVE  FALSE
      OBVIOUS
    <3>1. CASE q.token = 0
      BY <2>1, <3>1 DEF StartsSession, Erased
    <3>2. CASE q.token # 0
      <4>1. q.token \in DOMAIN refresh /\ q.user = refresh[q.token].user /\ ~refresh[q.token].revoked
        BY <2>1, <3>2 DEF StartsSession, Presentable
      <4>2. q.user \in DOMAIN users
        BY <1>0, <4>1 DEF Erased
      <4>3. Closed(q.user)
        BY <1>0, <4>2, IdleKeepsErased DEF UsersErasedFor
      <4> QED
        BY <4>1, <4>3 DEF Closed
    <3> QED
      BY <3>1, <3>2
  <2>4. KeepsErased(q)
    <3>1. q.pc = "saveUser" =>
         /\ users[q.user].here /\ q.ent.email = users[q.user].email
         /\ IF q.op = "update" THEN q.ent.by = "admin" ELSE q.ent.email # "gone"
      BY <2>1 DEF StartsSave
    <3>2. q.pc \in {"customers", "removeCustomers"} => CustomersOf(q.ent.email) \subseteq q.list
      BY <2>1 DEF StartsDelete
    <3>3. q.pc \in {"erase", "revokeAll"} \/ (q.pc = "removeUser" /\ q.op = "delete")
            => CustomersOf(q.ent.email) = {}
      BY <2>1 DEF StartsDelete, StartPlaces
    <3>4. /\ q.pc \notin {"revoke", "issue", "accept", "store"}
          /\ q.pc = "insertVerified" => q.ent.email = q.email
      BY <2>1 DEF StartPlaces, StartsUser
    <3> QED
      BY <2>3, <3>1, <3>2, <3>3, <3>4 DEF KeepsErased
  <2>5. KeepsErased(q)'
    BY <2>1, <2>4 DEF KeepsErased, Erased, CustomersOf
  <2> QED
    BY <1>0, <2>1, <2>2, <2>5, ErasedAfter
<1>2. ASSUME NEW k \in DOMAIN refresh, Logout(r, k)
      PROVE  ErasedInv'
  <2>1. /\ refresh' = [refresh EXCEPT ![k].revoked = TRUE] /\ users' = users
        /\ req' = [req EXCEPT ![r] = Idle]
    BY <1>2 DEF Logout, Call
  <2>2. \A u : Closed(u) => Closed(u)'
    BY <1>0, <2>1 DEF Closed, RefreshRow
  <2>3. UsersErasedFor(Idle)'
    BY <1>0, <2>1, <2>2, IdleKeepsErased DEF UsersErasedFor, Erased, ByAdminOnly, Leaving
  <2>4. KeepsErased(Idle)'
    BY DEF KeepsErased, Idle
  <2> QED
    BY <1>0, <2>1, <2>3, <2>4, ErasedAfter
<1>3. ASSUME NEW k, ExpireInvite(r, k)
      PROVE  ErasedInv'
  <2>1. refresh' = refresh /\ users' = users /\ req' = [req EXCEPT ![r] = Idle]
    BY <1>3 DEF ExpireInvite, Call
  <2>2. UsersErasedFor(Idle)'
    BY <1>0, <2>1, IdleKeepsErased, UsersStayErased
  <2>3. KeepsErased(Idle)'
    BY DEF KeepsErased, Idle
  <2> QED
    BY <1>0, <2>1, <2>2, <2>3, ErasedAfter
<1> QED
  BY <1>1, <1>2, <1>3, BeginsOrDone

\* The statements of deleteMyAccount.
LEMMA DeletionErased ==
    ASSUME TypeInv, UsersErased, NEW r \in Requests, Alone(r), KeepsErased(req[r]),
           EraseCustomer(r) \/ EraseUser(r) \/ RemoveCustomers(r) \/ RemoveUser(r) \/ RevokeAll(r)
    PROVE  ErasedInv'
<1>p. PICK p : p = req[r]
  OBVIOUS
<1>0. /\ req \in [Requests -> Request] /\ p \in Request /\ UsersErasedFor(p)
      /\ refresh \in Seq(RefreshRow) /\ users \in Seq(UserRow) /\ customers \in Seq(CustomerRow)
      /\ \A k \in DOMAIN refresh : refresh[k] \in RefreshRow
      /\ \A u \in DOMAIN users : users[u] \in UserRow
      /\ \A c \in DOMAIN customers : customers[c] \in CustomerRow
      /\ p.ent \in UserRow /\ Holding(p, Sizes) /\ KeepsErased(p)
  <2>1. p \in Request /\ Holding(p, Sizes)
    BY <1>p, RowsTyped
  <2>2. p.ent \in UserRow
    BY <2>1 DEF Request
  <2> QED
    BY <1>p, <2>1, <2>2, ErasedForOne, RowsTyped DEF TypeInv, RequestsHold, TablesOK
<1>a. ASSUME NEW q, req' = [req EXCEPT ![r] = q], users' = users, refresh' = refresh,
             p.pc # "revokeAll", KeepsErased(q)'
      PROVE  ErasedInv'
  <2>1. UsersErasedFor(q)'
    BY <1>0, <1>a, UsersStayErased DEF Leaving
  <2> QED
    BY <1>a, <2>1, ErasedAfter
<1>b. KeepsErased(Idle)' /\ \A u : ~Leaving(Idle, u)
  BY DEF KeepsErased, Leaving, Idle
<1>1. CASE EraseCustomer(r)
  <2>1. p.pc = "customers" /\ users' = users /\ refresh' = refresh
    BY <1>p, <1>1 DEF EraseCustomer
  <2>2. PICK c \in p.list :
          /\ customers' = [customers EXCEPT ![c].email = "gone", ![c].here = TRUE]
          /\ req' = [req EXCEPT ![r] = [p EXCEPT !.list = @ \ {c},
                                               !.pc = IF p.list = {c} THEN "erase" ELSE @]]
    BY <1>p, <1>1 DEF EraseCustomer, Goto
  <2>3. PICK q : q = [p EXCEPT !.list = @ \ {c}, !.pc = IF p.list = {c} THEN "erase" ELSE @]
    OBVIOUS
  <2>4. q.list = p.list \ {c} /\ q.ent = p.ent /\ q.pc = IF p.list = {c} THEN "erase" ELSE "customers"
    BY <1>0, <2>1, <2>3 DEF Request
  <2>5. CustomersOf(p.ent.email)' \subseteq CustomersOf(p.ent.email) \ {c}
    <3>1. DOMAIN customers' = DOMAIN customers /\ \A d \in DOMAIN customers \ {c} : customers'[d] = customers[d]
      BY <1>0, <2>2
    <3>2. c \in DOMAIN customers => customers'[c].email = "gone"
      BY <1>0, <2>2 DEF CustomerRow
    <3> QED
      BY <3>1, <3>2 DEF CustomersOf
  <2>6. CustomersOf(p.ent.email)' \subseteq q.list
    BY <1>0, <2>1, <2>4, <2>5 DEF KeepsErased
  <2>7. KeepsErased(q)'
    BY <2>4, <2>6 DEF KeepsErased
  <2> QED
    BY <1>a, <2>1, <2>2, <2>3, <2>7
<1>2. CASE RemoveCustomers(r)
  <2>1. p.pc = "removeCustomers" /\ users' = users /\ refresh' = refresh
    BY <1>p, <1>2 DEF RemoveCustomers, Throw, tables
  <2>2. CASE req' = [req EXCEPT ![r] = Idle]
    BY <1>a, <1>b, <2>1, <2>2
  <2>3. CASE /\ customers' = [c \in DOMAIN customers |->
                                IF c \in p.list THEN [customers[c] EXCEPT !.here = FALSE]
                                ELSE customers[c]]
             /\ req' = [req EXCEPT ![r] = [p EXCEPT !.pc = "removeUser"]]
    <3>1. PICK q : q = [p EXCEPT !.pc = "removeUser"]
      OBVIOUS
    <3>2. q.ent = p.ent /\ q.pc = "removeUser"
      BY <1>0, <3>1 DEF Request
    <3>3. CustomersOf(p.ent.email)' = {}
      <4>1. CustomersOf(p.ent.email) \subseteq p.list
        BY <1>0, <2>1 DEF KeepsErased
      <4>2. \A c \in DOMAIN customers' : customers'[c].here => c \notin p.list /\ customers'[c] = customers[c]
        BY <1>0, <2>3 DEF CustomerRow
      <4> QED
        BY <2>3, <4>1, <4>2 DEF CustomersOf
    <3>4. KeepsErased(q)'
      BY <3>2, <3>3 DEF KeepsErased
    <3> QED
      BY <1>a, <2>1, <2>3, <3>1, <3>4
  <2> QED
    BY <1>p, <1>2, <2>2, <2>3 DEF RemoveCustomers, Throw, Goto
<1>3. CASE EraseUser(r)
  <2>1. /\ users' = [users EXCEPT ![p.user] = [p.ent EXCEPT !.email = "gone", !.verified = FALSE]]
        /\ req' = [req EXCEPT ![r] = [p EXCEPT !.pc = "revokeAll"]]
        /\ refresh' = refresh /\ customers' = customers /\ p.pc = "erase"
    BY <1>p, <1>3 DEF EraseUser, Goto
  <2>2. PICK q : q = [p EXCEPT !.pc = "revokeAll"]
    OBVIOUS
  <2>3. q.ent = p.ent /\ q.pc = "revokeAll" /\ q.user = p.user
    BY <1>0, <2>2 DEF Request
  <2>4. KeepsErased(q)'
    BY <1>0, <2>1, <2>3 DEF KeepsErased, CustomersOf
  <2>5. DOMAIN users' = DOMAIN users /\ \A u \in DOMAIN users \ {p.user} : users'[u] = users[u]
    BY <1>0, <2>1
  <2>6. p.user \in DOMAIN users => ~users'[p.user].verified
    BY <1>0, <2>1 DEF UserRow
  <2>7. UsersErasedFor(q)'
    BY <1>0, <2>1, <2>3, <2>5, <2>6 DEF UsersErasedFor, Erased, ByAdminOnly, Closed, Leaving
  <2> QED
    BY <2>1, <2>2, <2>4, <2>7, ErasedAfter
<1>4. CASE RemoveUser(r)
  <2>1. p.pc = "removeUser" /\ refresh' = refresh /\ customers' = customers
    BY <1>p, <1>4 DEF RemoveUser, Throw, tables
  <2>2. CASE users' = users /\ req' = [req EXCEPT ![r] = Idle]
    BY <1>a, <1>b, <2>1, <2>2
  <2>3. ASSUME NEW q, users' = [users EXCEPT ![p.user].here = FALSE], req' = [req EXCEPT ![r] = q],
               KeepsErased(q)'
        PROVE  ErasedInv'
    <3>1. \A u \in DOMAIN users' : u \in DOMAIN users /\ (users'[u] = users[u] \/ ~users'[u].here)
      BY <1>0, <2>3 DEF UserRow
    <3>2. UsersErasedFor(q)'
      BY <1>0, <2>1, <3>1 DEF UsersErasedFor, Erased, ByAdminOnly, Closed, Leaving
    <3> QED
      BY <2>3, <3>2, ErasedAfter
  <2>4. CASE p.op = "delete" /\ req' = [req EXCEPT ![r] = [p EXCEPT !.pc = "revokeAll"]]
             /\ users' = [users EXCEPT ![p.user].here = FALSE]
    <3>1. PICK q : q = [p EXCEPT !.pc = "revokeAll"]
      OBVIOUS
    <3>2. q.ent = p.ent /\ q.pc = "revokeAll"
      BY <1>0, <3>1 DEF Request
    <3>3. KeepsErased(q)'
      BY <1>0, <2>1, <2>4, <3>2 DEF KeepsErased, CustomersOf
    <3> QED
      BY <2>3, <2>4, <3>1, <3>3
  <2> QED
    BY <1>p, <1>4, <1>b, <2>2, <2>3, <2>4 DEF RemoveUser, Throw, Goto, tables
<1>5. CASE RevokeAll(r)
  <2>1. /\ refresh' = [k \in DOMAIN refresh |->
                         IF k \in SessionsOf(p.user) THEN [refresh[k] EXCEPT !.revoked = TRUE]
                         ELSE refresh[k]]
        /\ req' = [req EXCEPT ![r] = Idle] /\ users' = users
    BY <1>p, <1>5 DEF RevokeAll, Goto
  <2>2. \A u : Closed(u) \/ u = p.user => Closed(u)'
    BY <1>0, <2>1 DEF Closed, SessionsOf, RefreshRow
  <2>3. UsersErasedFor(Idle)'
    BY <1>0, <2>1, <2>2 DEF UsersErasedFor, Erased, ByAdminOnly, Leaving
  <2> QED
    BY <1>b, <2>1, <2>3, ErasedAfter
<1> QED
  BY <1>1, <1>2, <1>3, <1>4, <1>5

\* The other statements: a session is issued to an account that is not erased, and what is
\* saved over an erased account comes from an administrator.
LEMMA RunErased ==
    ASSUME TypeInv, UsersErased, NEW r \in Requests, Alone(r), KeepsErased(req[r]), Run(r)
    PROVE  ErasedInv'
<1>p. PICK p : p = req[r]
  OBVIOUS
<1>q. PICK q : req' = [req EXCEPT ![r] = q] /\ (q = Idle \/ Continues(p, q))
  BY <1>p, RunFlows DEF GoesTo
<1>0. /\ req \in [Requests -> Request] /\ p \in Request /\ UsersErasedFor(p)
      /\ refresh \in Seq(RefreshRow) /\ users \in Seq(UserRow)
      /\ \A k \in DOMAIN refresh : refresh[k] \in RefreshRow
      /\ \A u \in DOMAIN users : users[u] \in UserRow
      /\ DOMAIN users = 1..Len(users) /\ Len(users) \in Nat
      /\ p.ent \in UserRow /\ Holding(p, Sizes) /\ KeepsErased(p)
  <2>1. p \in Request /\ Holding(p, Sizes)
    BY <1>p, RowsTyped
  <2>2. p.ent \in UserRow
    BY <2>1 DEF Request
  <2> QED
    BY <1>p, <2>1, <2>2, ErasedForOne, RowsTyped DEF TypeInv, RequestsHold, TablesOK
<1>a. ASSUME UsersErasedFor(q)', KeepsErased(q)'
      PROVE  ErasedInv'
  BY <1>a, <1>q, ErasedAfter
<1>i. KeepsErased(Idle)' /\ \A u : ~Leaving(Idle, u)
  BY DEF KeepsErased, Leaving, Idle
\* A place where nothing is kept.
<1>k. ASSUME q = Idle \/ q.pc \notin {"user", "revoke", "issue", "accept", "store", "saveUser",
                                      "insertVerified", "customers", "removeCustomers",
                                      "erase", "revokeAll", "removeUser"}
      PROVE  KeepsErased(q)'
  BY <1>i, <1>k DEF KeepsErased
\* The accounts that are erased were erased before.
<1>b. ASSUME refresh' = refresh, p.pc # "revokeAll", KeepsErased(q)',
             \A u \in DOMAIN users' :
               Erased(u)' => u \in DOMAIN users /\ Erased(u) /\ (ByAdminOnly(u) => ByAdminOnly(u)')
      PROVE  ErasedInv'
  <2>1. UsersErasedFor(q)'
    BY <1>0, <1>b DEF UsersErasedFor, Closed, Leaving
  <2> QED
    BY <1>a, <1>b, <2>1
<1>1. CASE FindUser(r)
  <2>1. p.pc = "user" /\ users' = users /\ refresh' = refresh /\ ~Erased(p.user)
    BY <1>p, <1>0, <1>1 DEF FindUser, Throw, tables, KeepsErased
  <2>2. req'[r] = q
    BY <1>0, <1>q
  <2>3. q = Idle \/ (q.user \in {0, p.user} /\ q.pc \in {"revoke", "issue"})
    <3>1. \/ q = Idle
          \/ q = [p EXCEPT !.pc = "revoke"]
          \/ q = [p EXCEPT !.pc = "issue", !.user = p.user]
          \/ q = [p EXCEPT !.pc = "issue", !.user = 0]
      BY <1>p, <1>0, <1>1, <2>2 DEF FindUser, Throw, Goto
    <3> QED
      BY <1>0, <3>1 DEF Request
  <2>4. KeepsErased(q)'
    <3>1. CASE q = Idle
      BY <1>i, <3>1
    <3>2. CASE q.user \in {0, p.user} /\ q.pc \in {"revoke", "issue"}
      BY <2>1, <3>2 DEF KeepsErased, Erased
    <3> QED
      BY <2>3, <3>1, <3>2
  <2> QED
    BY <1>b, <2>1, <2>4 DEF Erased, ByAdminOnly
<1>2. CASE RevokePresented(r)
  <2>1. /\ p.pc = "revoke" /\ users' = users /\ refresh' = [refresh EXCEPT ![p.token].revoked = TRUE]
    BY <1>p, <1>2 DEF RevokePresented
  <2>2. req'[r] = q /\ q = [p EXCEPT !.pc = "issue"]
    BY <1>0, <1>q, <1>p, <1>2 DEF RevokePresented, Goto
  <2>3. q.pc = "issue" /\ q.user = p.user
    BY <1>0, <2>2 DEF Request
  <2>4. KeepsErased(q)'
    BY <1>0, <2>1, <2>3 DEF KeepsErased, Erased
  <2>5. \A u : Closed(u) => Closed(u)'
    BY <1>0, <2>1 DEF Closed, RefreshRow
  <2>6. UsersErasedFor(q)'
    BY <1>0, <2>1, <2>5 DEF UsersErasedFor, Erased, ByAdminOnly, Leaving
  <2> QED
    BY <1>a, <2>4, <2>6
<1>3. CASE Issue(r)
  <2>1. /\ p.pc = "issue" /\ users' = users /\ ~Erased(p.user)
        /\ refresh' = Append(refresh, [user |-> p.user, parent |-> p.token, revoked |-> FALSE,
                                       expired |-> FALSE])
    BY <1>p, <1>0, <1>3 DEF Issue, KeepsErased
  <2>2. req'[r] = q /\ q = Idle
    BY <1>0, <1>q, <1>3 DEF Issue, Goto
  <2>3. \A k \in DOMAIN refresh' : (k \in DOMAIN refresh /\ refresh'[k] = refresh[k])
                                   \/ refresh'[k].user = p.user
    BY <1>0, <2>1
  <2>4. \A u : Closed(u) /\ u # p.user => Closed(u)'
    BY <2>3 DEF Closed
  <2>5. UsersErasedFor(q)'
    <3>1. \A u : ~Leaving(p, u)
      BY <2>1 DEF Leaving
    <3> QED
      BY <1>0, <2>1, <2>4, <3>1 DEF UsersErasedFor, Erased, ByAdminOnly
  <2> QED
    BY <1>a, <1>i, <2>2, <2>5
<1>4. CASE SaveUser(r)
  <2>1. p.pc = "saveUser" /\ refresh' = refresh
    BY <1>p, <1>4 DEF SaveUser, Throw, tables
  <2>2. q = Idle \/ q.pc = "saveCode"
    BY <1>q, <2>1 DEF Continues, Flow
  <2>3. KeepsErased(q)'
    BY <1>k, <2>2
  <2>4. CASE users' = users
    BY <1>b, <2>1, <2>3, <2>4 DEF Erased, ByAdminOnly
  <2>5. CASE users' = [users EXCEPT ![p.user] = p.ent]
    <3>1. p.user \in DOMAIN users /\ p.user # 0
      BY <1>0, <2>1 DEF Holding, HoldsUser, Sizes
    <3>2. /\ DOMAIN users' = DOMAIN users /\ users'[p.user] = p.ent
          /\ \A u \in DOMAIN users \ {p.user} : users'[u] = users[u]
      BY <1>0, <2>5, <3>1
    <3>3. Erased(p.user)' => Erased(p.user) /\ p.ent.by = "admin"
      BY <1>0, <2>1, <3>1, <3>2 DEF KeepsErased, Erased
    <3>4. \A u \in DOMAIN users' :
               Erased(u)' => u \in DOMAIN users /\ Erased(u) /\ (ByAdminOnly(u) => ByAdminOnly(u)')
      BY <3>2, <3>3 DEF Erased, ByAdminOnly
    <3> QED
      BY <1>b, <2>1, <2>3, <3>4
  <2> QED
    BY <1>p, <1>4, <2>4, <2>5 DEF SaveUser, Throw, tables
<1>5. CASE CommitUser(r)
  <2>1. p.pc = "commit" /\ refresh' = refresh
    BY <1>p, <1>5 DEF CommitUser
  <2>2. PICK by, verified : users' = Append(users, NewUser(p.email, verified, by, p.invite))
    BY <1>p, <1>5 DEF CommitUser
  <2>3. PICK row : row = NewUser(p.email, verified, by, p.invite)
    OBVIOUS
  <2>4. row.email # "gone"
    BY <1>0, <2>3, AccountsAssumption DEF NewUser, Request
  <2>5. \A u \in DOMAIN users' : (u \in DOMAIN users /\ users'[u] = users[u]) \/ users'[u] = row
    BY <1>0, <2>2, <2>3
  <2>6. users'[Len(users) + 1] = row
    BY <1>0, <2>2, <2>3
  <2>7. req'[r] = q
    BY <1>0, <1>q
  <2>8. q.user = Len(users) + 1 /\ q.pc \in {"accept", "mail"}
    <3>1. \E pc \in {"accept", "mail"} : \E code :
            q = [p EXCEPT !.user = Len(users) + 1, !.pc = pc, !.code = code]
      BY <1>p, <1>5, <2>7, <1>0 DEF CommitUser, Goto
    <3> QED
      BY <1>0, <3>1 DEF Request
  <2>9. KeepsErased(q)'
    BY <2>4, <2>6, <2>8 DEF KeepsErased, Erased
  <2> QED
    BY <1>b, <2>1, <2>4, <2>5, <2>9 DEF Erased, ByAdminOnly
<1>6. CASE InsertVerified(r)
  <2>1. p.pc = "insertVerified" /\ refresh' = refresh
    BY <1>p, <1>6 DEF InsertVerified
  <2>2. q = Idle
    BY <1>q, <2>1 DEF Continues, Flow
  <2>3. KeepsErased(q)'
    BY <1>k, <2>2
  <2>4. p.ent.email # "gone"
    <3>1. p.ent.email = p.email /\ p.email \in Emails
      BY <1>0, <2>1 DEF KeepsErased, Request
    <3> QED
      BY <3>1, AccountsAssumption
  <2>5. users' = users \/ users' = Append(users, p.ent)
    BY <1>p, <1>6 DEF InsertVerified
  <2>6. \A u \in DOMAIN users' : (u \in DOMAIN users /\ users'[u] = users[u]) \/ users'[u] = p.ent
    BY <1>0, <2>5
  <2> QED
    BY <1>b, <2>1, <2>3, <2>4, <2>6 DEF Erased, ByAdminOnly
<1>7. CASE Undo(r)
  <2>1. p.pc = "undo" /\ refresh' = refresh /\ users' = [users EXCEPT ![p.user].here = FALSE]
    BY <1>p, <1>7 DEF Undo
  <2>2. q = Idle
    BY <1>q, <2>1 DEF Continues, Flow
  <2>3. KeepsErased(q)'
    BY <1>k, <2>2
  <2>4. \A u \in DOMAIN users' : u \in DOMAIN users /\ (users'[u] = users[u] \/ ~users'[u].here)
    BY <1>0, <2>1 DEF UserRow
  <2> QED
    BY <1>b, <2>1, <2>3, <2>4 DEF Erased, ByAdminOnly
<1>8. CASE MarkAccepted(r) \/ OpenStore(r)
  <2>1. /\ p.pc \in {"accept", "store"} /\ refresh' = refresh /\ users' = users
    BY <1>p, <1>8 DEF MarkAccepted, OpenStore
  <2>2. ~Erased(p.user)
    BY <1>0, <2>1 DEF KeepsErased
  <2>3. q = Idle \/ (q.user = p.user /\ q.pc \in {"store", "issue"})
    BY <1>q, <2>1 DEF Continues, Flow
  <2>4. KeepsErased(q)'
    <3>1. CASE q = Idle
      BY <1>i, <3>1
    <3>2. CASE q.user = p.user /\ q.pc \in {"store", "issue"}
      BY <2>1, <2>2, <3>2 DEF KeepsErased, Erased
    <3> QED
      BY <2>3, <3>1, <3>2
  <2> QED
    BY <1>b, <2>1, <2>4 DEF Erased, ByAdminOnly
<1>9. CASE p.pc \in {"insertUser", "deactivate", "mail", "saveCode", "insertCode", "expireOld",
                     "insertInvite", "sync", "discard"}
  <2>1. users' = users /\ refresh' = refresh
    BY <1>p, <1>9, Writes
  <2>2. q = Idle \/ q.pc \in {"commit", "deactivate", "insertCode", "undo", "insertInvite"}
    BY <1>q, <1>9 DEF Continues, Flow
  <2>3. KeepsErased(q)'
    BY <1>k, <2>2
  <2> QED
    BY <1>b, <1>9, <2>1, <2>3 DEF Erased, ByAdminOnly
<1>10. CASE EraseCustomer(r) \/ EraseUser(r) \/ RemoveCustomers(r) \/ RemoveUser(r) \/ RevokeAll(r)
  BY <1>10, DeletionErased
<1> QED
  BY <1>p, <1>1, <1>2, <1>3, <1>4, <1>5, <1>6, <1>7, <1>8, <1>9, <1>10, Places DEF Run

\* Every step.
LEMMA NextErased ==
    ASSUME TypeInv, TypeInv', RunningInv, ErasedInv, [Next]_vars
    PROVE  ErasedInv'
<1> SUFFICES ASSUME Clean'
             PROVE  ErasedInv'
  BY DEF ErasedInv
<1>1. UsersErased /\ \A r \in Requests : KeepsErased(req[r])
  BY CleanSteps DEF ErasedInv
<1>2. ASSUME NEW r \in Requests, Begin(r)
      PROVE  ErasedInv'
  BY <1>1, <1>2, CleanSteps, BeginErased
<1>3. ASSUME NEW r \in Requests, Running(r), Run(r)
      PROVE  ErasedInv'
  BY <1>1, <1>3, CleanSteps, RunErased
<1>4. CASE Lapse \/ UNCHANGED vars
  <2>1. req' = req /\ users' = users /\ customers' = customers
    BY <1>4 DEF Lapse, vars
  <2>2. \A u : Closed(u) => Closed(u)'
    <3>1. refresh' = refresh \/ \E k \in DOMAIN refresh : refresh' = [refresh EXCEPT ![k].expired = TRUE]
      BY <1>4 DEF Lapse, vars
    <3>2. \A k \in DOMAIN refresh : refresh[k] \in RefreshRow
      BY RowsTyped
    <3>3. DOMAIN refresh' = DOMAIN refresh /\ \A k \in DOMAIN refresh :
            refresh'[k].user = refresh[k].user /\ refresh'[k].revoked = refresh[k].revoked
      <4>1. CASE refresh' = refresh
        BY <4>1
      <4>2. ASSUME NEW k \in DOMAIN refresh, refresh' = [refresh EXCEPT ![k].expired = TRUE]
            PROVE  DOMAIN refresh' = DOMAIN refresh /\ \A j \in DOMAIN refresh :
                     refresh'[j].user = refresh[j].user /\ refresh'[j].revoked = refresh[j].revoked
        <5>1. refresh' = [refresh EXCEPT ![k] = [refresh[k] EXCEPT !.expired = TRUE]]
          BY <4>2
        <5>2. DOMAIN refresh' = DOMAIN refresh
          BY <4>2
        <5> QED
          BY <3>2, <5>1, <5>2 DEF RefreshRow
      <4> QED
        BY <3>1, <4>1, <4>2
    <3> QED
      BY <3>3 DEF Closed
  <2>3. UsersErased'
    BY <1>1, <2>1, <2>2 DEF UsersErased, Erased, ByAdminOnly
  <2>4. \A r \in Requests : KeepsErased(req[r])'
    BY <1>1, <2>1 DEF KeepsErased, Erased, CustomersOf
  <2> QED
    BY <2>3, <2>4 DEF ErasedInv
<1> QED
  BY <1>2, <1>3, <1>4, CleanSteps DEF Next

\* Where requests do not overlap, an account with orders that was erased is not verified and
\* has no session, and no customer has its address.
THEOREM ErasedHolds == Spec => []ErasedIsGone
<1>1. Init /\ TypeInv => RunningInv /\ ErasedInv
  <2> SUFFICES ASSUME Init, TypeInv
               PROVE  RunningInv /\ ErasedInv
    OBVIOUS
  <2>1. users = << NewUser(Known, TRUE, "customer", 0) >> /\ \A r \in Requests : req[r] = Idle
    BY DEF Init
  <2>2. RunningInv
    BY InitInvited DEF PendingInv
  <2>3. \A u \in DOMAIN users : ~Erased(u)
    <3>1. DOMAIN users = {1} /\ users[1] = NewUser(Known, TRUE, "customer", 0)
      BY <2>1
    <3>2. NewUser(Known, TRUE, "customer", 0).email # "gone"
      BY AccountsAssumption DEF NewUser
    <3> QED
      BY <3>1, <3>2 DEF Erased
  <2>4. UsersErased
    BY <2>3 DEF UsersErased
  <2>5. \A r \in Requests : KeepsErased(req[r])
    BY <2>1, IdleKeepsErased
  <2> QED
    BY <2>2, <2>4, <2>5 DEF ErasedInv
<1>2. TypeInv /\ TypeInv' /\ RunningInv /\ ErasedInv /\ [Next]_vars => RunningInv' /\ ErasedInv'
  BY RunningCounted, NextErased
<1>3. TypeInv /\ ErasedInv => ErasedIsGone
  <2> SUFFICES ASSUME TypeInv, ErasedInv, Clean
               PROVE  ErasedIsGone
    BY DEF ErasedIsGone
  <2>1. UsersErased /\ \A r \in Requests : KeepsErased(req[r])
    BY DEF ErasedInv
  <2>2. \A r \in Requests : req[r].pc = "revokeAll" => CustomersOf(req[r].ent.email) = {}
    BY <2>1 DEF KeepsErased
  <2>3. ASSUME Quiet, NEW u \in DOMAIN users, users[u].here, users[u].email = "gone"
        PROVE  (users[u].verified => users[u].by = "admin") /\ Closed(u)
    <3>1. Erased(u)
      BY <2>3, RowsTyped DEF Erased
    <3>2. \A r \in Requests : ~Leaving(req[r], u)
      BY <2>3, IdleKeepsErased DEF Quiet, Running
    <3> QED
      BY <2>1, <3>1, <3>2 DEF UsersErased, ByAdminOnly
  <2> QED
    BY <2>2, <2>3 DEF ErasedIsGone, Closed
<1> QED
  BY <1>1, <1>2, <1>3, TypesAlways, PTL DEF Spec

-----------------------------------------------------------------------------
(* An account that registerCustomer left unverified was sent a link that works or can be   *)
(* renewed, or the request that sends it or takes the account back is still running.       *)

Waiting(u) ==
    users[u].here /\ ~users[u].verified /\ users[u].by = "customer" /\ users[u].email # "gone"
IsLink(k, e) ==
    /\ codes[k].here /\ codes[k].email = e /\ codes[k].purpose = "verification"
    /\ codes[k].mailed /\ (Live(k) \/ codes[k].expired)
HasLink(u) == \E k \in DOMAIN codes : IsLink(k, users[u].email)
Sending(q, u) == q.pc \in {"mail", "undo"} /\ q.user = u
UsersLinked ==
    \A u \in DOMAIN users :
      Waiting(u) => HasLink(u) \/ \E r \in Requests : Sending(req[r], u)

\* What a request that registers, verifies or changes a user keeps until it writes it.
KeepsNewUser(q) ==
    /\ q.pc \in {"mail", "undo"} => users[q.user].here /\ users[q.user].email = q.email
    /\ q.pc = "mail" =>
         /\ users[q.user].by = q.op
         /\ codes[q.code].here /\ codes[q.code].email = q.email
         /\ codes[q.code].purpose = "verification" /\ Live(q.code)
    /\ q.pc = "insertVerified" => q.ent.verified
KeepsSavedUser(q) ==
    q.pc = "saveUser" =>
      /\ users[q.user].here /\ q.ent.email = users[q.user].email
      /\ IF q.op = "update" THEN q.ent.by = "admin"
         ELSE q.ent.by = users[q.user].by /\ (users[q.user].verified => q.ent.verified)
KeepsSavedCode(q) ==
    WritesCode(q) =>
      /\ SameLink(q.row, q.code)
      /\ q.row.purpose = "verification" =>
           IF q.pc = "saveUser" THEN q.ent.verified /\ q.ent.email = q.row.email
           ELSE q.row.expired \/ \A u \in UsersOf(q.row.email) : users[u].verified
KeepsLink(q) == KeepsNewUser(q) /\ KeepsSavedUser(q) /\ KeepsSavedCode(q)
LinkedInv == Clean => UsersLinked /\ \A r \in Requests : KeepsLink(req[r])

UsersLinkedFor(q) == \A u \in DOMAIN users : Waiting(u) => HasLink(u) \/ Sending(q, u)

\* A request at another place keeps nothing.
LEMMA KeepsNoLink ==
    ASSUME NEW q, q.pc \notin {"mail", "undo", "insertVerified", "saveUser", "saveCode"}
    PROVE  KeepsLink(q) /\ KeepsLink(q)' /\ \A u : ~Sending(q, u)
BY DEF KeepsLink, KeepsNewUser, KeepsSavedUser, KeepsSavedCode, WritesCode, Sending

\* With one request that may be running, the links are a matter of that one.
LEMMA LinkedForOne ==
    ASSUME NEW r \in Requests, Alone(r)
    PROVE  UsersLinked <=> UsersLinkedFor(req[r])
<1>1. \A s \in Requests \ {r} : \A u : ~Sending(req[s], u)
  BY DEF Alone, Sending, Idle
<1> QED
  BY <1>1 DEF UsersLinked, UsersLinkedFor

\* After a step of the only request that runs: an account that is waiting now has a link,
\* or is about to be sent one, or was waiting before and has kept its link.
LEMMA LinkedAfter ==
    ASSUME TypeInv, NEW r \in Requests, Alone(r), NEW q, req' = [req EXCEPT ![r] = q],
           NEW p, UsersLinkedFor(p), KeepsLink(q)',
           \A u \in DOMAIN users' : Waiting(u)' =>
             \/ HasLink(u)' \/ Sending(q, u)
             \/ u \in DOMAIN users /\ Waiting(u) /\ ~Sending(p, u) /\ (HasLink(u) => HasLink(u)')
    PROVE  LinkedInv'
<1>0. req \in [Requests -> Request]
  BY DEF TypeInv, RequestsHold
<1>1. req'[r] = q /\ \A s \in Requests \ {r} : req'[s] = Idle
  BY <1>0 DEF Alone
<1>2. \A u \in DOMAIN users' : Waiting(u)' => HasLink(u)' \/ Sending(q, u)
  BY DEF UsersLinkedFor
<1>3. UsersLinked'
  BY <1>1, <1>2 DEF UsersLinked, Sending
<1>4. ASSUME NEW s \in Requests
      PROVE  KeepsLink(req[s])'
  <2>1. CASE s = r
    BY <1>1, <2>1
  <2>2. CASE s # r
    <3>1. KeepsLink(Idle)'
      BY KeepsNoLink DEF Idle
    <3> QED
      BY <1>1, <2>2, <3>1
  <2> QED
    BY <2>1, <2>2
<1> QED
  BY <1>3, <1>4 DEF LinkedInv

\* A link stays one while its row and the address of its user stay the same.
LEMMA LinkKept ==
    ASSUME NEW u, users'[u].email = users[u].email,
           \A k \in DOMAIN codes : codes[k].email = users[u].email /\ codes[k].purpose = "verification" =>
             k \in DOMAIN codes' /\ codes'[k] = codes[k]
    PROVE  HasLink(u) => HasLink(u)'
<1> SUFFICES ASSUME HasLink(u)
             PROVE  HasLink(u)'
  OBVIOUS
<1>1. PICK k \in DOMAIN codes : IsLink(k, users[u].email)
  BY DEF HasLink
<1>2. k \in DOMAIN codes' /\ codes'[k] = codes[k]
  BY <1>1 DEF IsLink
<1>3. IsLink(k, users[u].email)'
  BY <1>1, <1>2 DEF IsLink, Live
<1> QED
  BY <1>2, <1>3 DEF HasLink

\* A call has read the code and the user that it will write.
LEMMA BeginLinked ==
    ASSUME TypeInv, UsersLinked, NEW r \in Requests, Begin(r), Quiet
    PROVE  LinkedInv'
<1>0. /\ Alone(r) /\ req[r] = Idle /\ UsersLinkedFor(Idle)
      /\ \A u : ~Sending(Idle, u)
  <2>1. Alone(r) /\ req[r] = Idle
    BY DEF Quiet, Running, Alone
  <2>2. \A u : ~Sending(Idle, u)
    BY DEF Idle, Sending
  <2> QED
    BY <2>1, <2>2, LinkedForOne
<1>a. ASSUME NEW q, req' = [req EXCEPT ![r] = q], users' = users, codes' = codes, KeepsLink(q)'
      PROVE  LinkedInv'
  <2>1. \A u : (Waiting(u)' => Waiting(u)) /\ (HasLink(u) => HasLink(u)')
    BY <1>a DEF Waiting, HasLink, IsLink, Live
  <2> QED
    BY <1>0, <1>a, <2>1, LinkedAfter
<1>1. ASSUME NEW q, BeginsWith(r, q)
      PROVE  LinkedInv'
  <2>1. /\ req' = [req EXCEPT ![r] = q] /\ q.pc \in StartPlaces
        /\ StartsSave(q) /\ StartsUser(q) /\ StartsLink(q)
        /\ users' = users /\ codes' = codes
    BY <1>1 DEF BeginsWith, Call, tables, Starts
  <2>2. KeepsNewUser(q)
    BY <2>1 DEF KeepsNewUser, StartPlaces, StartsUser
  <2>3. KeepsSavedUser(q)
    BY <2>1 DEF KeepsSavedUser, StartsSave
  <2>4. KeepsSavedCode(q)
    BY <2>1 DEF KeepsSavedCode, StartsLink, WritesCode
  <2>5. KeepsLink(q)'
    BY <2>1, <2>2, <2>3, <2>4
    DEF KeepsLink, KeepsNewUser, KeepsSavedUser, KeepsSavedCode, SameLink, UsersOf, Live
  <2> QED
    BY <1>a, <2>1, <2>5
<1>2. ASSUME NEW k, Logout(r, k) \/ ExpireInvite(r, k)
      PROVE  LinkedInv'
  <2>1. users' = users /\ codes' = codes /\ req' = [req EXCEPT ![r] = Idle]
    BY <1>2 DEF Logout, ExpireInvite, Call
  <2>2. KeepsLink(Idle)'
    BY KeepsNoLink DEF Idle
  <2> QED
    BY <1>a, <2>1, <2>2
<1> QED
  BY <1>1, <1>2, BeginsOrDone

\* The saves: what is written was read when nobody else ran.
LEMMA SaveLinked ==
    ASSUME TypeInv, UsersLinked, NEW r \in Requests, Alone(r), KeepsLink(req[r]),
           SaveUser(r) \/ SaveCode(r)
    PROVE  LinkedInv'
<1>p. PICK p : p = req[r]
  OBVIOUS
<1>q. PICK q : req' = [req EXCEPT ![r] = q] /\ (q = Idle \/ Continues(p, q))
  <2>1. Run(r)
    BY DEF Run
  <2> QED
    BY <1>p, <2>1, RunFlows DEF GoesTo
<1>0. /\ req \in [Requests -> Request] /\ p \in Request /\ UsersLinkedFor(p)
      /\ users \in Seq(UserRow) /\ codes \in Seq(CodeRow)
      /\ \A u \in DOMAIN users : users[u] \in UserRow
      /\ \A k \in DOMAIN codes : codes[k] \in CodeRow
      /\ p.ent \in UserRow /\ p.row \in CodeRow /\ Holding(p, Sizes) /\ KeepsLink(p)
  <2>1. p \in Request /\ Holding(p, Sizes)
    BY <1>p, RowsTyped
  <2>2. p.ent \in UserRow /\ p.row \in CodeRow
    BY <2>1 DEF Request
  <2> QED
    BY <1>p, <2>1, <2>2, LinkedForOne, RowsTyped DEF TypeInv, RequestsHold, TablesOK
<1>i. KeepsLink(Idle)'
  BY KeepsNoLink DEF Idle
<1>s. p.pc \in {"saveUser", "saveCode"} /\ \A u : ~Sending(p, u)
  BY <1>p, Places DEF Sending
<1>1. CASE SaveUser(r)
  <2>1. p.pc = "saveUser"
    BY <1>p, <1>1, Places
  <2>2. CASE users' = users /\ codes' = codes /\ req' = [req EXCEPT ![r] = Idle]
    <3>1. \A u : (Waiting(u)' => Waiting(u)) /\ (HasLink(u) => HasLink(u)')
      BY <2>2 DEF Waiting, HasLink, IsLink, Live
    <3> QED
      BY <1>0, <1>i, <1>s, <2>2, <3>1, LinkedAfter
  <2>3. CASE /\ users' = [users EXCEPT ![p.user] = p.ent]
             /\ codes' = IF p.op = "reset" THEN [codes EXCEPT ![p.code].resets = @ + 1] ELSE codes
             /\ p.ent.email # "gone" => UsersOf(p.ent.email) \ {p.user} = {}
             /\ req' = [req EXCEPT ![r] = IF p.op = "update" THEN Idle ELSE [p EXCEPT !.pc = "saveCode"]]
    <3>1. p.user \in DOMAIN users /\ KeepsSavedUser(p) /\ KeepsSavedCode(p)
      BY <1>0, <2>1 DEF Holding, HoldsUser, Sizes, KeepsLink
    <3>2. /\ DOMAIN users' = DOMAIN users /\ users'[p.user] = p.ent
          /\ \A u \in DOMAIN users \ {p.user} : users'[u] = users[u]
      BY <1>0, <2>3, <3>1
    <3>3. \A u \in DOMAIN users : users'[u].email = users[u].email /\ (Waiting(u)' => Waiting(u))
      <4>1. users'[p.user].email = users[p.user].email
        BY <2>1, <3>1, <3>2 DEF KeepsSavedUser
      <4>2. Waiting(p.user)' => Waiting(p.user)
        BY <2>1, <3>1, <3>2 DEF KeepsSavedUser, Waiting
      <4> QED
        BY <3>2, <4>1, <4>2 DEF Waiting
    <3>4. /\ DOMAIN codes' = DOMAIN codes
          /\ \A k \in DOMAIN codes :
               /\ codes'[k].here = codes[k].here /\ codes'[k].email = codes[k].email
               /\ codes'[k].purpose = codes[k].purpose /\ codes'[k].mailed = codes[k].mailed
               /\ codes'[k].active = codes[k].active /\ codes'[k].used = codes[k].used
               /\ codes'[k].expired = codes[k].expired
      BY <1>0, <2>3 DEF CodeRow
    <3>5. \A u \in DOMAIN users : HasLink(u) => HasLink(u)'
      BY <3>3, <3>4 DEF HasLink, IsLink, Live
    <3>6. CASE p.op = "update"
      <4>1. req' = [req EXCEPT ![r] = Idle]
        BY <2>3, <3>6
      <4> QED
        BY <1>0, <1>i, <1>s, <3>2, <3>3, <3>5, <4>1, LinkedAfter
    <3>7. CASE p.op # "update"
      <4>1. PICK n : n = [p EXCEPT !.pc = "saveCode"]
        OBVIOUS
      <4>2. req' = [req EXCEPT ![r] = n]
        BY <2>3, <3>7, <4>1
      <4>3. n.pc = "saveCode" /\ n.row = p.row /\ n.code = p.code
        BY <1>0, <4>1 DEF Request
      <4>4. WritesCode(p) /\ p.code \in DOMAIN codes
        BY <1>0, <2>1, <3>7 DEF WritesCode, Holding, HoldsCode, Sizes
      <4>5. SameLink(p.row, p.code)'
        BY <3>1, <3>4, <4>4 DEF KeepsSavedCode, SameLink
      <4>6. ASSUME p.row.purpose = "verification", NEW u \in UsersOf(p.row.email)'
            PROVE  users'[u].verified
        <5>1. p.ent.verified /\ p.ent.email = p.row.email
          BY <2>1, <3>1, <4>4, <4>6 DEF KeepsSavedCode
        <5>2. p.ent.email # "gone"
          BY <1>0, <5>1, AccountsAssumption DEF CodeRow
        <5>3. u = p.user
          BY <2>3, <3>2, <4>6, <5>1, <5>2 DEF UsersOf
        <5> QED
          BY <3>2, <5>1, <5>3
      <4>7. KeepsLink(n)'
        BY <4>3, <4>5, <4>6 DEF KeepsLink, KeepsNewUser, KeepsSavedUser, KeepsSavedCode, WritesCode
      <4> QED
        BY <1>0, <1>s, <3>2, <3>3, <3>5, <4>2, <4>7, LinkedAfter
    <3> QED
      BY <3>6, <3>7
  <2> QED
    BY <1>p, <1>1, <2>2, <2>3 DEF SaveUser, Throw, Goto, tables
<1>2. CASE SaveCode(r)
  <2>1. p.pc = "saveCode"
    BY <1>p, <1>2, Places
  <2> DEFINE tried == codes[p.code].tried + IF p.op = "wrong" THEN 1 ELSE 0
             row == [p.row EXCEPT !.mailed = codes[p.code].mailed, !.resets = codes[p.code].resets,
                                  !.tried = tried]
  <2>2. /\ codes' = [codes EXCEPT ![p.code] = row]
        /\ req' = [req EXCEPT ![r] = Idle] /\ users' = users
    BY <1>p, <1>2 DEF SaveCode, Goto
  <2>3. /\ p.code \in DOMAIN codes /\ KeepsSavedCode(p) /\ WritesCode(p)
    BY <1>0, <2>1 DEF Holding, HoldsCode, WritesCode, Sizes, KeepsLink
  <2>4. /\ row.here = p.row.here /\ row.email = p.row.email /\ row.purpose = p.row.purpose
        /\ row.mailed = codes[p.code].mailed /\ row.expired = p.row.expired
    BY <1>0 DEF CodeRow
  <2> HIDE DEF row
  <2>5. /\ DOMAIN codes' = DOMAIN codes /\ codes'[p.code] = row
        /\ \A k \in DOMAIN codes \ {p.code} : codes'[k] = codes[k]
    BY <1>0, <2>2, <2>3
  <2>6. ASSUME NEW u \in DOMAIN users, Waiting(u), HasLink(u)
        PROVE  HasLink(u)'
    <3>1. PICK k \in DOMAIN codes : IsLink(k, users[u].email)
      BY <2>6 DEF HasLink
    <3>2. CASE k # p.code
      <4>1. IsLink(k, users[u].email)'
        BY <2>2, <2>5, <3>1, <3>2 DEF IsLink, Live
      <4> QED
        BY <2>5, <3>1, <4>1 DEF HasLink
    <3>3. CASE k = p.code
      <4>1. SameLink(p.row, k) /\ p.row.purpose = "verification" /\ p.row.email = users[u].email
        BY <2>3, <3>1, <3>3 DEF KeepsSavedCode, SameLink, IsLink
      <4>2. p.row.expired \/ \A v \in UsersOf(p.row.email) : users[v].verified
        BY <2>1, <2>3, <4>1 DEF KeepsSavedCode
      <4>3. u \in UsersOf(p.row.email) /\ ~users[u].verified
        BY <2>6, <4>1 DEF Waiting, UsersOf
      <4>4. IsLink(k, users[u].email)'
        BY <2>2, <2>4, <2>5, <3>1, <3>3, <4>1, <4>2, <4>3 DEF IsLink, SameLink
      <4> QED
        BY <2>5, <3>1, <4>4 DEF HasLink
    <3> QED
      BY <3>2, <3>3
  <2>7. \A u \in DOMAIN users' : Waiting(u)' =>
          u \in DOMAIN users /\ Waiting(u) /\ ~Sending(p, u) /\ (HasLink(u) => HasLink(u)')
    BY <1>s, <2>2, <2>6 DEF Waiting
  <2> QED
    BY <1>0, <1>i, <2>2, <2>7, LinkedAfter
<1> QED
  BY <1>1, <1>2

\* A registration: the link is inserted with the user, and then it is sent, or the user is
\* taken back with the links for its address, which no other account has.
LEMMA RegistrationLinked ==
    ASSUME TypeInv, InvitedInv, UsersLinked, NEW r \in Requests, Alone(r), KeepsLink(req[r]),
           Deactivate(r) \/ CommitUser(r) \/ SendLink(r) \/ Undo(r)
    PROVE  LinkedInv'
<1>p. PICK p : p = req[r]
  OBVIOUS
<1>q. PICK q : req' = [req EXCEPT ![r] = q] /\ (q = Idle \/ Continues(p, q))
  <2>1. Run(r)
    BY DEF Run
  <2> QED
    BY <1>p, <2>1, RunFlows DEF GoesTo
<1>0. /\ req \in [Requests -> Request] /\ p \in Request /\ UsersLinkedFor(p)
      /\ users \in Seq(UserRow) /\ codes \in Seq(CodeRow)
      /\ \A u \in DOMAIN users : users[u] \in UserRow
      /\ \A k \in DOMAIN codes : codes[k] \in CodeRow
      /\ DOMAIN users = 1..Len(users) /\ Len(users) \in Nat
      /\ DOMAIN codes = 1..Len(codes) /\ Len(codes) \in Nat
      /\ Holding(p, Sizes) /\ KeepsLink(p) /\ req'[r] = q /\ p.email \in Emails
      /\ OneUser(p.email)
  <2>1. p \in Request /\ Holding(p, Sizes)
    BY <1>p, RowsTyped
  <2>2. p.email \in Emails
    BY <2>1 DEF Request
  <2>3. req \in [Requests -> Request] /\ users \in Seq(UserRow) /\ codes \in Seq(CodeRow)
    BY DEF TypeInv, RequestsHold, TablesOK
  <2>4. OneUser(p.email)
    BY <2>2 DEF InvitedInv
  <2> QED
    BY <1>p, <1>q, <2>1, <2>2, <2>3, <2>4, LinkedForOne, RowsTyped
<1>1. CASE Deactivate(r)
  <2>1. p.pc = "deactivate" /\ users' = users
    BY <1>p, <1>1 DEF Deactivate
  <2>2. codes' = [k \in DOMAIN codes |->
              IF Live(k) /\ codes[k].email = p.email /\ codes[k].purpose = PurposeOf(p)
              THEN [codes[k] EXCEPT !.active = FALSE] ELSE codes[k]]
    BY <1>p, <1>1 DEF Deactivate
  <2>3. q.pc \notin {"mail", "undo", "insertVerified", "saveUser", "saveCode"}
    <3>1. Idle.pc = "idle"
      BY DEF Idle
    <3>2. CASE Continues(p, q)
      <4>1. <<p.pc, q.pc>> \in Flow
        BY <3>2 DEF Continues
      <4> QED
        BY <2>1, <4>1 DEF Flow
    <3> QED
      BY <1>q, <3>1, <3>2
  <2>4. ASSUME NEW u \in DOMAIN users, Waiting(u)
        PROVE  HasLink(u) => HasLink(u)'
    <3>1. CASE PurposeOf(p) = "recovery"
      <4>1. \A k \in DOMAIN codes : codes[k].purpose = "verification" =>
              k \in DOMAIN codes' /\ codes'[k] = codes[k]
        BY <2>2, <3>1
      <4> QED
        BY <2>1, <4>1, LinkKept
    <3>2. CASE p.op # "recover"
      <4>1. r \in Inserting(p.email)
        BY <1>p, <1>0, <2>1, <3>2 DEF Inserting, Holding, HoldsOp, Registering
      <4>2. users[u].email # p.email
        BY <1>0, <2>4, <4>1 DEF OneUser, UsersOf, Waiting
      <4>3. \A k \in DOMAIN codes : codes[k].email = users[u].email =>
              k \in DOMAIN codes' /\ codes'[k] = codes[k]
        BY <2>2, <4>2
      <4> QED
        BY <2>1, <4>3, LinkKept
    <3> QED
      BY <3>1, <3>2 DEF PurposeOf
  <2>5. \A u \in DOMAIN users' : Waiting(u)' =>
          u \in DOMAIN users /\ Waiting(u) /\ ~Sending(p, u) /\ (HasLink(u) => HasLink(u)')
    BY <2>1, <2>4 DEF Waiting, Sending
  <2> QED
    BY <1>q, <1>0, <2>3, <2>5, KeepsNoLink, LinkedAfter
<1>2. CASE CommitUser(r)
  <2>1. p.pc = "commit"
    BY <1>p, <1>2, Places
  <2> DEFINE invited == p.op = "invited"
  <2>2. PICK row : row = NewUser(p.email, invited, IF invited THEN "invite" ELSE p.op, p.invite)
    OBVIOUS
  <2>3. PICK code : code = NewCode(p.email, "verification")
    OBVIOUS
  <2>4. /\ users' = Append(users, row) /\ codes' = IF invited THEN codes ELSE Append(codes, code)
        /\ q = [p EXCEPT !.user = Len(users) + 1, !.pc = IF invited THEN "accept" ELSE "mail",
                         !.code = IF invited THEN 0 ELSE Len(codes) + 1]
    BY <1>p, <1>0, <1>2, <2>2, <2>3 DEF CommitUser, Goto
  <2>5. /\ q.user = Len(users) + 1 /\ q.email = p.email /\ q.op = p.op
        /\ q.pc = IF invited THEN "accept" ELSE "mail"
        /\ q.code = IF invited THEN 0 ELSE Len(codes) + 1
    BY <1>0, <2>4 DEF Request
  <2>6. /\ row.here /\ row.email = p.email /\ (invited => row.verified)
        /\ (~invited => row.by = p.op)
    BY <2>2 DEF NewUser
  <2>7. /\ code.here /\ code.email = p.email /\ code.purpose = "verification" /\ code.active
        /\ ~code.used
    BY <2>3 DEF NewCode
  <2>8. /\ DOMAIN users' = DOMAIN users \cup {Len(users) + 1} /\ users'[Len(users) + 1] = row
        /\ \A u \in DOMAIN users : users'[u] = users[u]
    BY <1>0, <2>4
  <2>9. \A k \in DOMAIN codes : k \in DOMAIN codes' /\ codes'[k] = codes[k]
    BY <1>0, <2>4
  <2>10. ~invited => codes'[Len(codes) + 1] = code
    BY <1>0, <2>4
  <2>11. KeepsLink(q)'
    <3>1. CASE invited
      BY <2>5, <3>1, KeepsNoLink
    <3>2. CASE ~invited
      <4>1. KeepsNewUser(q)'
        BY <2>5, <2>6, <2>7, <2>8, <2>10, <3>2 DEF KeepsNewUser, Live
      <4> QED
        BY <2>5, <3>2, <4>1 DEF KeepsLink, KeepsSavedUser, KeepsSavedCode, WritesCode
    <3> QED
      BY <3>1, <3>2
  <2>12. ASSUME NEW u \in DOMAIN users', Waiting(u)'
         PROVE  \/ Sending(q, u)
                \/ u \in DOMAIN users /\ Waiting(u) /\ ~Sending(p, u) /\ (HasLink(u) => HasLink(u)')
    <3>1. CASE u = Len(users) + 1
      BY <2>5, <2>6, <2>8, <2>12, <3>1 DEF Waiting, Sending
    <3>2. CASE u \in DOMAIN users
      <4>1. Waiting(u) /\ users'[u].email = users[u].email
        BY <2>8, <2>12, <3>2 DEF Waiting
      <4>2. HasLink(u) => HasLink(u)'
        BY <2>9, <4>1, LinkKept
      <4> QED
        BY <2>1, <3>2, <4>1, <4>2 DEF Sending
    <3> QED
      BY <2>8, <3>1, <3>2
  <2> QED
    BY <1>q, <1>0, <2>11, <2>12, LinkedAfter
<1>3. CASE SendLink(r)
  <2>1. /\ p.pc = "mail" /\ users' = users /\ KeepsNewUser(p) /\ p.code \in DOMAIN codes
    BY <1>p, <1>0, <1>3 DEF SendLink, Holding, HoldsCode, Sizes, KeepsLink
  <2>2. CASE codes' = [codes EXCEPT ![p.code].mailed = TRUE] /\ q = Idle
    <3>1. /\ DOMAIN codes' = DOMAIN codes
          /\ \A k \in DOMAIN codes :
               /\ codes'[k].here = codes[k].here /\ codes'[k].email = codes[k].email
               /\ codes'[k].purpose = codes[k].purpose
               /\ codes'[k].active = codes[k].active /\ codes'[k].used = codes[k].used
               /\ codes'[k].expired = codes[k].expired
               /\ codes'[k].mailed = (codes[k].mailed \/ k = p.code)
      BY <1>0, <2>1, <2>2 DEF CodeRow
    <3>2. ASSUME NEW u \in DOMAIN users, HasLink(u)
          PROVE  HasLink(u)'
      <4>1. PICK k \in DOMAIN codes : IsLink(k, users[u].email)
        BY <3>2 DEF HasLink
      <4>2. IsLink(k, users[u].email)'
        BY <2>1, <3>1, <4>1 DEF IsLink, Live
      <4> QED
        BY <3>1, <4>1, <4>2 DEF HasLink
    <3>3. HasLink(p.user)'
      <4>1. IsLink(p.code, users[p.user].email)'
        BY <2>1, <3>1 DEF KeepsNewUser, IsLink, Live
      <4> QED
        BY <2>1, <3>1, <4>1 DEF HasLink
    <3>4. \A u \in DOMAIN users' : Waiting(u)' =>
            HasLink(u)' \/ (u \in DOMAIN users /\ Waiting(u) /\ ~Sending(p, u) /\ (HasLink(u) => HasLink(u)'))
      BY <2>1, <3>2, <3>3 DEF Waiting, Sending
    <3>5. KeepsLink(q)'
      BY <2>2, KeepsNoLink DEF Idle
    <3> QED
      BY <1>q, <1>0, <3>4, <3>5, LinkedAfter
  <2>3. CASE codes' = codes /\ q = AfterFailedMail(p)
    <3>1. \A u : (Waiting(u)' => Waiting(u)) /\ (HasLink(u) => HasLink(u)')
      BY <2>1, <2>3 DEF Waiting, HasLink, IsLink, Live
    <3>2. CASE p.op = "customer"
      <4>1. q = [p EXCEPT !.pc = "undo"]
        BY <2>3, <3>2 DEF AfterFailedMail
      <4>2. q.pc = "undo" /\ q.user = p.user /\ q.email = p.email
        BY <1>0, <4>1 DEF Request
      <4>3. KeepsLink(q)'
        BY <2>1, <4>2 DEF KeepsLink, KeepsNewUser, KeepsSavedUser, KeepsSavedCode, WritesCode
      <4>4. \A u \in DOMAIN users' : Waiting(u)' =>
              Sending(q, u) \/ (u \in DOMAIN users /\ Waiting(u) /\ ~Sending(p, u) /\ (HasLink(u) => HasLink(u)'))
        BY <2>1, <3>1, <4>2 DEF Sending
      <4> QED
        BY <1>q, <1>0, <4>3, <4>4, LinkedAfter
    <3>3. CASE p.op # "customer"
      <4>1. q = Idle
        BY <2>3, <3>3 DEF AfterFailedMail
      <4>2. KeepsLink(q)'
        BY <4>1, KeepsNoLink DEF Idle
      <4>3. ~Waiting(p.user)
        BY <2>1, <3>3 DEF KeepsNewUser, Waiting
      <4>4. \A u \in DOMAIN users' : Waiting(u)' =>
              u \in DOMAIN users /\ Waiting(u) /\ ~Sending(p, u) /\ (HasLink(u) => HasLink(u)')
        BY <2>1, <3>1, <4>3 DEF Sending
      <4> QED
        BY <1>q, <1>0, <4>2, <4>4, LinkedAfter
    <3> QED
      BY <3>2, <3>3
  <2> QED
    BY <1>p, <1>0, <1>3, <2>2, <2>3 DEF SendLink, Goto
<1>4. CASE Undo(r)
  <2>1. /\ p.pc = "undo" /\ users' = [users EXCEPT ![p.user].here = FALSE]
        /\ codes' = [k \in DOMAIN codes |->
              IF codes[k].email = p.email /\ codes[k].purpose = "verification"
              THEN [codes[k] EXCEPT !.here = FALSE] ELSE codes[k]]
    BY <1>p, <1>4 DEF Undo
  <2>2. q = Idle
    BY <1>q, <2>1 DEF Continues, Flow
  <2>3. KeepsLink(q)'
    BY <2>2, KeepsNoLink DEF Idle
  <2>4. /\ p.user \in UsersOf(p.email) /\ p.user \in DOMAIN users
    <3>1. p.user \in DOMAIN users
      BY <1>0, <2>1 DEF Holding, HoldsUser, Sizes
    <3> QED
      BY <1>0, <2>1, <3>1 DEF KeepsLink, KeepsNewUser, UsersOf
  <2>5. /\ DOMAIN users' = DOMAIN users /\ ~users'[p.user].here
        /\ \A u \in DOMAIN users \ {p.user} : users'[u] = users[u]
    BY <1>0, <2>1, <2>4 DEF UserRow
  <2>6. ASSUME NEW u \in DOMAIN users', Waiting(u)'
        PROVE  u \in DOMAIN users /\ Waiting(u) /\ ~Sending(p, u) /\ (HasLink(u) => HasLink(u)')
    <3>1. u \in DOMAIN users /\ u # p.user /\ users'[u] = users[u]
      BY <2>5, <2>6 DEF Waiting
    <3>2. Waiting(u)
      BY <2>6, <3>1 DEF Waiting
    <3>3. users[u].email # p.email
      BY <1>0, <2>4, <3>1, <3>2 DEF OneUser, UsersOf, Waiting
    <3>4. \A k \in DOMAIN codes : codes[k].email = users[u].email =>
            k \in DOMAIN codes' /\ codes'[k] = codes[k]
      BY <2>1, <3>3
    <3> QED
      BY <3>1, <3>2, <3>4, LinkKept DEF Sending
  <2> QED
    BY <1>q, <1>0, <2>3, <2>6, LinkedAfter
<1> QED
  BY <1>1, <1>2, <1>3, <1>4

\* The other statements.
LEMMA RunLinked ==
    ASSUME TypeInv, InvitedInv, UsersLinked, NEW r \in Requests, Alone(r), KeepsLink(req[r]), Run(r)
    PROVE  LinkedInv'
<1>p. PICK p : p = req[r]
  OBVIOUS
<1>q. PICK q : req' = [req EXCEPT ![r] = q] /\ (q = Idle \/ Continues(p, q))
  BY <1>p, RunFlows DEF GoesTo
<1>0. /\ p \in Request /\ UsersLinkedFor(p) /\ Holding(p, Sizes) /\ KeepsLink(p)
      /\ users \in Seq(UserRow) /\ \A u \in DOMAIN users : users[u] \in UserRow
      /\ DOMAIN users = 1..Len(users) /\ Len(users) \in Nat
      /\ codes \in Seq(CodeRow) /\ DOMAIN codes = 1..Len(codes)
      /\ p.ent \in UserRow
  <2>1. p \in Request /\ Holding(p, Sizes)
    BY <1>p, RowsTyped
  <2>2. p.ent \in UserRow
    BY <2>1 DEF Request
  <2>3. users \in Seq(UserRow) /\ codes \in Seq(CodeRow)
    BY DEF TypeInv, TablesOK
  <2> QED
    BY <1>p, <2>1, <2>2, <2>3, LinkedForOne, RowsTyped
<1>1. CASE SaveUser(r) \/ SaveCode(r)
  BY <1>1, SaveLinked
<1>2. CASE Deactivate(r) \/ CommitUser(r) \/ SendLink(r) \/ Undo(r)
  BY <1>2, RegistrationLinked
<1>3. ASSUME p.pc \notin {"mail", "undo", "saveUser", "saveCode", "deactivate", "commit"}
      PROVE  /\ KeepsLink(q)' /\ \A u : ~Sending(p, u)
  <2>1. Idle.pc = "idle"
    BY DEF Idle
  <2>2. q.pc \notin {"mail", "undo", "insertVerified", "saveUser", "saveCode"}
    <3>1. CASE Continues(p, q)
      <4>1. <<p.pc, q.pc>> \in Flow
        BY <3>1 DEF Continues
      <4> QED
        BY <1>3, <4>1 DEF Flow
    <3> QED
      BY <1>q, <2>1, <3>1
  <2> QED
    BY <1>3, <2>2, KeepsNoLink DEF Sending
<1>a. ASSUME p.pc \notin {"mail", "undo", "saveUser", "saveCode", "deactivate", "commit"},
             \A k \in DOMAIN codes : k \in DOMAIN codes' /\ codes'[k] = codes[k],
             \A u \in DOMAIN users' :
               \/ u \in DOMAIN users /\ users'[u] = users[u]
               \/ ~users'[u].here \/ users'[u].email = "gone" \/ users'[u].verified
      PROVE  LinkedInv'
  <2>1. ASSUME NEW u \in DOMAIN users', Waiting(u)'
        PROVE  u \in DOMAIN users /\ Waiting(u) /\ ~Sending(p, u) /\ (HasLink(u) => HasLink(u)')
    <3>1. u \in DOMAIN users /\ users'[u] = users[u]
      BY <1>a, <2>1 DEF Waiting
    <3>2. Waiting(u)
      BY <2>1, <3>1 DEF Waiting
    <3>3. HasLink(u) => HasLink(u)'
      BY <1>a, <3>1, LinkKept
    <3> QED
      BY <1>a, <1>3, <3>1, <3>2, <3>3
  <2> QED
    BY <1>0, <1>q, <1>a, <1>3, <2>1, LinkedAfter
<1>4. CASE EraseUser(r)
  <2>1. /\ users' = [users EXCEPT ![p.user] = [p.ent EXCEPT !.email = "gone", !.verified = FALSE]]
        /\ codes' = codes /\ p.pc = "erase"
    BY <1>p, <1>4 DEF EraseUser
  <2>2. \A u \in DOMAIN users' :
          (u \in DOMAIN users /\ users'[u] = users[u]) \/ users'[u].email = "gone"
    BY <1>0, <2>1 DEF UserRow
  <2> QED
    BY <1>a, <2>1, <2>2
<1>5. CASE RemoveUser(r)
  <2>1. p.pc = "removeUser" /\ codes' = codes
    BY <1>p, <1>5 DEF RemoveUser, Throw, tables
  <2>2. users' = users \/ users' = [users EXCEPT ![p.user].here = FALSE]
    BY <1>p, <1>5 DEF RemoveUser, Throw, tables
  <2>3. \A u \in DOMAIN users' : u \in DOMAIN users /\ (users'[u] = users[u] \/ ~users'[u].here)
    BY <1>0, <2>2 DEF UserRow
  <2> QED
    BY <1>a, <2>1, <2>3
<1>6. CASE InsertVerified(r)
  <2>1. p.pc = "insertVerified" /\ codes' = codes
    BY <1>p, <1>6 DEF InsertVerified
  <2>2. users' = users \/ users' = Append(users, p.ent)
    BY <1>p, <1>6 DEF InsertVerified
  <2>3. p.ent.verified
    BY <1>0, <2>1 DEF KeepsLink, KeepsNewUser
  <2>4. \A u \in DOMAIN users' : (u \in DOMAIN users /\ users'[u] = users[u]) \/ users'[u].verified
    BY <1>0, <2>2, <2>3
  <2> QED
    BY <1>a, <2>1, <2>4
<1>7. CASE InsertCode(r)
  <2>1. p.pc = "insertCode" /\ users' = users /\ codes' = Append(codes, NewCode(p.email, "recovery"))
    BY <1>p, <1>7 DEF InsertCode
  <2>2. \A k \in DOMAIN codes : k \in DOMAIN codes' /\ codes'[k] = codes[k]
    BY <1>0, <2>1
  <2> QED
    BY <1>a, <2>1, <2>2
<1>8. CASE p.pc \notin {"mail", "undo", "saveUser", "saveCode", "deactivate", "commit", "erase",
                        "removeUser", "insertVerified", "insertCode"}
  <2>1. users' = users /\ codes' = codes
    BY <1>p, <1>8, Writes
  <2> QED
    BY <1>a, <1>8, <2>1
<1> QED
  BY <1>p, <1>1, <1>2, <1>4, <1>5, <1>6, <1>7, <1>8, Places DEF Run

\* Every step.
LEMMA NextLinked ==
    ASSUME TypeInv, TypeInv', RunningInv, InvitedInv, LinkedInv, [Next]_vars
    PROVE  LinkedInv'
<1> SUFFICES ASSUME Clean'
             PROVE  LinkedInv'
  BY DEF LinkedInv
<1>1. UsersLinked /\ \A r \in Requests : KeepsLink(req[r])
  BY CleanSteps DEF LinkedInv
<1>2. ASSUME NEW r \in Requests, Begin(r)
      PROVE  LinkedInv'
  BY <1>1, <1>2, CleanSteps, BeginLinked
<1>3. ASSUME NEW r \in Requests, Running(r), Run(r)
      PROVE  LinkedInv'
  BY <1>1, <1>3, CleanSteps, RunLinked
<1>4. CASE Lapse \/ UNCHANGED vars
  <2>1. req' = req /\ users' = users
    BY <1>4 DEF Lapse, vars
  <2>2. codes' = codes \/ \E k \in DOMAIN codes : codes' = [codes EXCEPT ![k].expired = TRUE]
    BY <1>4 DEF Lapse, vars
  <2>3. codes \in Seq(CodeRow) /\ \A k \in DOMAIN codes : codes[k] \in CodeRow
    BY RowsTyped DEF TypeInv, TablesOK
  <2>4. /\ DOMAIN codes' = DOMAIN codes
        /\ \A k \in DOMAIN codes :
             /\ codes'[k].here = codes[k].here /\ codes'[k].email = codes[k].email
             /\ codes'[k].purpose = codes[k].purpose /\ codes'[k].mailed = codes[k].mailed
             /\ codes'[k].active = codes[k].active /\ codes'[k].used = codes[k].used
             /\ codes[k].expired => codes'[k].expired
    <3>1. /\ DOMAIN codes' = DOMAIN codes
          /\ \A k \in DOMAIN codes :
               codes'[k] = codes[k] \/ codes'[k] = [codes[k] EXCEPT !.expired = TRUE]
      BY <2>2, <2>3
    <3>2. ASSUME NEW k \in DOMAIN codes
          PROVE  /\ codes'[k].here = codes[k].here /\ codes'[k].email = codes[k].email
                 /\ codes'[k].purpose = codes[k].purpose /\ codes'[k].mailed = codes[k].mailed
                 /\ codes'[k].active = codes[k].active /\ codes'[k].used = codes[k].used
                 /\ codes[k].expired => codes'[k].expired
      BY <2>3, <3>1 DEF CodeRow
    <3> QED
      BY <3>1, <3>2
  <2>5. ASSUME NEW u, HasLink(u)
        PROVE  HasLink(u)'
    <3>1. PICK k \in DOMAIN codes : IsLink(k, users[u].email)
      BY <2>5 DEF HasLink
    <3>2. IsLink(k, users[u].email)'
      BY <2>1, <2>4, <3>1 DEF IsLink, Live
    <3> QED
      BY <2>4, <3>1, <3>2 DEF HasLink
  <2>6. UsersLinked'
    BY <1>1, <2>1, <2>5 DEF UsersLinked, Waiting
  <2>7. ASSUME NEW r \in Requests
        PROVE  KeepsLink(req[r])'
    <3>1. PICK p : p = req[r] /\ p = req'[r]
      BY <2>1
    <3>2. KeepsLink(p) /\ Holding(p, Sizes)
      BY <1>1, <3>1, RowsTyped
    <3>3. WritesCode(p) \/ p.pc = "mail" => p.code \in DOMAIN codes
      BY <2>3, <3>2 DEF Holding, HoldsCode, Sizes
    <3>4. KeepsNewUser(p)'
      BY <2>1, <2>4, <3>2, <3>3 DEF KeepsLink, KeepsNewUser, Live
    <3>5. KeepsSavedUser(p)' /\ KeepsSavedCode(p)'
      BY <2>1, <2>4, <3>2, <3>3 DEF KeepsLink, KeepsSavedUser, KeepsSavedCode, SameLink, UsersOf
    <3> QED
      BY <3>1, <3>4, <3>5 DEF KeepsLink
  <2> QED
    BY <2>6, <2>7 DEF LinkedInv
<1> QED
  BY <1>2, <1>3, <1>4, CleanSteps DEF Next

\* Where requests do not overlap, registerCustomer leaves no address taken by an account
\* without a link that works.
THEOREM LinksHold == Spec => []NoStrandedAccount
<1>1. Init /\ TypeInv => LinkedInv
  <2> SUFFICES ASSUME Init, TypeInv
               PROVE  LinkedInv
    OBVIOUS
  <2>1. users = << NewUser(Known, TRUE, "customer", 0) >> /\ \A r \in Requests : req[r] = Idle
    BY DEF Init
  <2>2. \A u \in DOMAIN users : ~Waiting(u)
    <3>1. DOMAIN users = {1} /\ users[1] = NewUser(Known, TRUE, "customer", 0)
      BY <2>1
    <3>2. NewUser(Known, TRUE, "customer", 0).verified
      BY DEF NewUser
    <3> QED
      BY <3>1, <3>2 DEF Waiting
  <2>3. UsersLinked
    BY <2>2 DEF UsersLinked
  <2>4. \A r \in Requests : KeepsLink(req[r])
    BY <2>1, KeepsNoLink DEF Idle
  <2> QED
    BY <2>3, <2>4 DEF LinkedInv
<1>2. Init /\ TypeInv => RunningInv /\ InvitedInv
  BY InitInvited DEF PendingInv
<1>3. /\ TypeInv /\ TypeInv' /\ RunningInv /\ InvitedInv /\ LinkedInv /\ [Next]_vars
           => RunningInv' /\ InvitedInv' /\ LinkedInv'
  BY RunningCounted, NextInvited, NextLinked
<1>4. TypeInv /\ LinkedInv => NoStrandedAccount
  <2> SUFFICES ASSUME TypeInv, LinkedInv, Clean, Quiet
               PROVE  NoStrandedAccount
    BY DEF NoStrandedAccount
  <2>1. ASSUME NEW u \in DOMAIN users, Waiting(u)
        PROVE  HasLink(u)
    <3>1. \A r \in Requests : ~Sending(req[r], u)
      BY KeepsNoLink DEF Quiet, Running, Idle
    <3> QED
      BY <2>1, <3>1 DEF LinkedInv, UsersLinked
  <2> QED
    BY <2>1 DEF NoStrandedAccount, Waiting, HasLink, IsLink
<1> QED
  BY <1>1, <1>2, <1>3, <1>4, TypesAlways, PTL DEF Spec
=============================================================================
