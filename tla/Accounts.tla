------------------------------ MODULE Accounts ------------------------------
(***************************************************************************)
(* Who may act on the platform: AuthService, InvitationsService and        *)
(* UserService over users, customers, refresh_tokens, recoverTokens and    *)
(* store_invitations.                                                      *)
(*                                                                         *)
(* A request is a sequence of database statements; reads that follow each  *)
(* other with no write in between are one step, and so are the SELECT and  *)
(* the UPDATE of a save().  save() writes every column in which the entity *)
(* differs from the row: afterwards the row is the entity, however old,    *)
(* and a row that was deleted meanwhile is inserted again.  Passwords and  *)
(* roles are not modelled, only who gets to change a password.  NODE_ENV   *)
(* is production.                                                          *)
(***************************************************************************)
EXTENDS Integers, Sequences, FiniteSets

CONSTANTS
    Requests,      \* slots in which a handler may be running
    Emails,
    Known,         \* the address of the account that exists at first
    Invited,       \* the address of the invitation that exists at first
    MaxAttempts,   \* maxOtpAttempts
    MaxUsers,      \* bound: rows of users
    MaxCalls,      \* bound: HTTP calls in a behaviour
    MaxOverlaps,   \* bound: calls that begin while another one is running
    MaxFaults,     \* bound: requests that die midway
    MaxLapses      \* bound: tokens and invitations that expire

ASSUME AccountsAssumption ==
    /\ IsFiniteSet(Requests)
    /\ Known \in Emails /\ Invited \in Emails /\ "gone" \notin Emails
    /\ MaxAttempts \in Nat \ {0} /\ MaxUsers \in Nat \ {0}
    /\ MaxCalls \in Nat /\ MaxOverlaps \in Nat /\ MaxFaults \in Nat /\ MaxLapses \in Nat

VARIABLES
    users,      \* users, in order of insertion
    stores,     \* the users who own a store
    customers,  \* customers
    refresh,    \* refresh_tokens
    codes,      \* recoverTokens: verification links and recovery codes
    invites,    \* store_invitations
    req,        \* the local variables of the request in each slot
    used        \* how much of the bounds is used up

tables == <<users, stores, customers, refresh, codes, invites>>
vars == <<users, stores, customers, refresh, codes, invites, req, used>>

-----------------------------------------------------------------------------
(* Rows and the local state of a request *)

\* here: the row exists; email "gone": eliminado-<id>@merku.invalid.  How the account
\* came about and the invitation it used are remembered, not stored.
UserRow ==
    [here : BOOLEAN, email : Emails \cup {"gone"}, verified : BOOLEAN,
     by : {"register", "customer", "invite", "admin"}, invite : Nat]
CustomerRow == [here : BOOLEAN, email : Emails \cup {"gone"}, user : Nat, orders : BOOLEAN]
\* parent: the token whose use issued this one; not stored
RefreshRow == [user : Nat, parent : Nat, revoked : BOOLEAN, expired : BOOLEAN]
\* mailed, tried, resets: whether it was sent, how many wrong answers were judged by
\* it and how many passwords it set; not stored
CodeRow ==
    [here : BOOLEAN, email : Emails, purpose : {"verification", "recovery"},
     active : BOOLEAN, used : BOOLEAN, attempts : 0..MaxAttempts, expired : BOOLEAN,
     mailed : BOOLEAN, tried : Nat, resets : Nat]
InviteRow ==
    [here : BOOLEAN, email : Emails, status : {"PENDING", "ACCEPTED", "EXPIRED"},
     expired : BOOLEAN]

NewUser(e, verified, by, k) ==
    [here |-> TRUE, email |-> e, verified |-> verified, by |-> by, invite |-> k]
NewCode(e, purpose) ==
    [here |-> TRUE, email |-> e, purpose |-> purpose, active |-> TRUE, used |-> FALSE,
     attempts |-> 0, expired |-> FALSE, mailed |-> FALSE, tried |-> 0, resets |-> 0]
NewInvite(e) == [here |-> TRUE, email |-> e, status |-> "PENDING", expired |-> FALSE]

Request ==
    [op : {"none", "login", "refresh", "delete", "register", "customer", "invited", "verify",
           "recover", "wrong", "reset", "create", "update", "remove", "invite", "sync",
           "discard"},
     pc : {"idle", "user", "revoke", "issue", "customers", "erase", "removeCustomers",
           "removeUser", "revokeAll", "insertUser", "deactivate", "commit", "mail", "undo",
           "accept", "store", "saveUser", "saveCode", "insertCode", "insertVerified",
           "expireOld", "insertInvite", "sync", "discard"},
     email : Emails, user : Nat, ent : UserRow,   \* user entity in hand
     token : Nat, code : Nat, row : CodeRow,      \* code entity in hand
     invite : Nat, list : SUBSET Nat]             \* customers or invitations to write

Idle ==
    [op |-> "none", pc |-> "idle", email |-> Known, user |-> 0,
     ent |-> NewUser(Known, FALSE, "admin", 0), token |-> 0, code |-> 0,
     row |-> NewCode(Known, "recovery"), invite |-> 0, list |-> {}]

UsersOf(e) == {u \in DOMAIN users : users[u].here /\ users[u].email = e}
\* No two erased rows have the same address.
CustomersOf(e) ==
    {c \in DOMAIN customers : customers[c].here /\ customers[c].email = e /\ e # "gone"}
Taken(e) == UsersOf(e) # {}
HasOrders(u) ==
    \E c \in DOMAIN customers : customers[c].here /\ customers[c].user = u /\ customers[c].orders

\* Transactions that have inserted a user with address e and are not committed: the
\* unique index makes an insert of the same address wait.
Inserting(e) == {r \in Requests : req[r].pc \in {"deactivate", "commit"}
                                  /\ req[r].op \in {"register", "customer", "invited"}
                                  /\ req[r].email = e}

-----------------------------------------------------------------------------
(* A request begins *)

Init ==
    /\ users = << NewUser(Known, TRUE, "customer", 0) >>
    /\ stores = {}
    /\ \E own, other \in BOOLEAN :
         customers = << [here |-> TRUE, email |-> Known, user |-> 1, orders |-> own],
                        [here |-> TRUE, email |-> Known, user |-> 0, orders |-> other] >>
    /\ refresh = << [user |-> 1, parent |-> 0, revoked |-> FALSE, expired |-> FALSE] >>
    /\ codes = << [NewCode(Known, "recovery") EXCEPT !.mailed = TRUE] >>
    /\ invites = << NewInvite(Invited) >>
    /\ req = [r \in Requests |-> Idle]
    /\ used = [calls |-> 0, overlaps |-> 0, faults |-> 0, lapses |-> 0]

Running(r) == req[r] # Idle
Overlaps(r) == \E s \in Requests \ {r} : Running(s)

\* A slot in which another call may begin.
Free(r) ==
    /\ ~Running(r) /\ used.calls < MaxCalls
    /\ Overlaps(r) => used.overlaps < MaxOverlaps

Call(r, q) ==
    /\ used' = [used EXCEPT !.calls = @ + 1,
                            !.overlaps = IF Overlaps(r) THEN @ + 1 ELSE @]
    /\ req' = [req EXCEPT ![r] = q]

\* login, with the right password, which an erased account does not have: the user is
\* read, and read again for the answer.
BeginLogin(r, u) ==
    /\ users[u].here /\ users[u].verified /\ users[u].email # "gone"
    /\ Call(r, [Idle EXCEPT !.op = "login", !.pc = "user", !.user = u])
    /\ UNCHANGED tables

\* Mutant of Presentable: a token that was used is accepted until it expires.
PresentableUsed(k) == ~refresh[k].expired
Presentable(k) == ~refresh[k].revoked /\ ~refresh[k].expired

BeginRefresh(r, k) ==
    /\ Presentable(k)
    /\ Call(r, [Idle EXCEPT !.op = "refresh", !.pc = "user", !.user = refresh[k].user,
                            !.token = k])
    /\ UNCHANGED tables

Logout(r, k) ==
    /\ ~refresh[k].revoked
    /\ refresh' = [refresh EXCEPT ![k].revoked = TRUE]
    /\ Call(r, Idle)
    /\ UNCHANGED <<users, stores, customers, codes, invites>>

\* deleteMyAccount: the guard lets verified users through; stores, orders and the
\* customers with the user's address are read.
BeginDelete(r, u) ==
    LET list == CustomersOf(users[u].email)
    IN  /\ users[u].here /\ users[u].verified /\ u \notin stores
        /\ Call(r, [Idle EXCEPT !.op = "delete", !.user = u, !.ent = users[u], !.list = list,
                      !.pc = CASE HasOrders(u) /\ list # {}  -> "customers"
                               [] HasOrders(u) /\ list = {}  -> "erase"
                               [] ~HasOrders(u) /\ list # {} -> "removeCustomers"
                               [] ~HasOrders(u) /\ list = {} -> "removeUser"])
        /\ UNCHANGED tables

\* Rows of users there are and may come to be.
MayInsert ==
    Len(users) + Cardinality({r \in Requests : req[r].op \in
                   {"register", "customer", "invited", "create"}}) < MaxUsers

\* register and registerCustomer without an invitation.
BeginRegister(r, op, e) ==
    /\ MayInsert /\ ~Taken(e)
    /\ Call(r, [Idle EXCEPT !.op = op, !.pc = "insertUser", !.email = e])
    /\ UNCHANGED tables

IsPending(k) == invites[k].here /\ invites[k].status = "PENDING"

\* registerCustomer with an invitation, which must be for the same address.
BeginInvited(r, k) ==
    /\ MayInsert /\ IsPending(k) /\ ~invites[k].expired /\ ~Taken(invites[k].email)
    /\ Call(r, [Idle EXCEPT !.op = "invited", !.pc = "insertUser", !.email = invites[k].email,
                            !.invite = k])
    /\ UNCHANGED tables

\* validateToken finds the invitation expired.
ExpireInvite(r, k) ==
    /\ IsPending(k) /\ invites[k].expired
    /\ invites' = [invites EXCEPT ![k].status = "EXPIRED"]
    /\ Call(r, Idle)
    /\ UNCHANGED <<users, stores, customers, refresh, codes>>

Live(k) == codes[k].here /\ codes[k].active /\ ~codes[k].used

\* verifyEmail: of an expired link only the row is closed.
BeginVerify(r, k) ==
    /\ Live(k) /\ codes[k].purpose = "verification"
    /\ \/ /\ codes[k].expired
          /\ Call(r, [Idle EXCEPT !.op = "verify", !.pc = "saveCode", !.code = k,
                                  !.row = [codes[k] EXCEPT !.active = FALSE]])
       \/ /\ ~codes[k].expired
          /\ \E u \in UsersOf(codes[k].email) :
               Call(r, [Idle EXCEPT !.op = "verify", !.pc = "saveUser", !.user = u,
                          !.ent = [users[u] EXCEPT !.verified = TRUE], !.code = k,
                          !.row = [codes[k] EXCEPT !.active = FALSE, !.used = TRUE]])
    /\ UNCHANGED tables

\* createToken, for an address that has an account.
BeginRecover(r, e) ==
    /\ Taken(e)
    /\ Call(r, [Idle EXCEPT !.op = "recover", !.pc = "deactivate", !.email = e])
    /\ UNCHANGED tables

\* Mutant of Exhausted: one attempt more.
ExhaustedLater(attempts) == attempts > MaxAttempts
Exhausted(attempts) == attempts >= MaxAttempts

Newest(S) == {k \in S : \A j \in S : j <= k}
CurrentCodes(e) ==
    Newest({k \in DOMAIN codes : Live(k) /\ codes[k].purpose = "recovery" /\ codes[k].email = e})

\* validateRecoveryOtp for verifyRecoveryOtp and resetPassword: the code that is judged
\* is the newest live one of the address.
BeginAnswer(r, e, right) ==
    /\ \E k \in CurrentCodes(e) :
         LET row == codes[k]
             closed == [row EXCEPT !.active = FALSE]
             judged == [Idle EXCEPT !.op = "wrong", !.pc = "saveCode", !.code = k]
             missed == [row EXCEPT !.attempts = @ + 1, !.active = ~Exhausted(row.attempts + 1)]
         IN  \/ /\ row.expired \/ Exhausted(row.attempts)
                /\ Call(r, [judged EXCEPT !.op = "verify", !.row = closed])
             \/ /\ ~row.expired /\ ~Exhausted(row.attempts) /\ ~right
                /\ Call(r, [judged EXCEPT !.row = missed])
             \/ /\ ~row.expired /\ ~Exhausted(row.attempts) /\ right
                /\ \E u \in UsersOf(e) :
                     Call(r, [judged EXCEPT !.op = "reset", !.pc = "saveUser", !.user = u,
                                !.ent = users[u], !.row = [closed EXCEPT !.used = TRUE]])
    /\ UNCHANGED tables

\* UserService: an administrator creates, changes or removes an account.
BeginCreate(r, e) ==
    /\ MayInsert /\ ~Taken(e)
    /\ Call(r, [Idle EXCEPT !.op = "create", !.pc = "insertVerified", !.email = e,
                            !.ent = NewUser(e, TRUE, "admin", 0)])
    /\ UNCHANGED tables

BeginUpdate(r, u, verified) ==
    /\ users[u].here
    /\ Call(r, [Idle EXCEPT !.op = "update", !.pc = "saveUser", !.user = u,
                  !.ent = [users[u] EXCEPT !.verified = verified, !.by = "admin"]])
    /\ UNCHANGED tables

BeginRemove(r, u) ==
    /\ users[u].here /\ u \notin stores /\ ~HasOrders(u)
    /\ Call(r, [Idle EXCEPT !.op = "remove", !.pc = "removeUser", !.user = u])
    /\ UNCHANGED tables

\* InvitationsService.create: not for the address of a verified user.
BeginInvite(r, e) ==
    /\ \A u \in UsersOf(e) : ~users[u].verified
    /\ Call(r, [Idle EXCEPT !.op = "invite", !.pc = "expireOld", !.email = e])
    /\ UNCHANGED tables

Resend(r, k) ==
    /\ invites[k].here /\ invites[k].status # "ACCEPTED"
    /\ BeginInvite(r, invites[k].email)

\* findAll: pending invitations of verified users.
ToSync ==
    {k \in DOMAIN invites : IsPending(k) /\ \E u \in UsersOf(invites[k].email) : users[u].verified}
BeginSync(r) ==
    /\ ToSync # {}
    /\ Call(r, [Idle EXCEPT !.op = "sync", !.pc = "sync", !.list = ToSync])
    /\ UNCHANGED tables

BeginDiscard(r, k) ==
    /\ invites[k].here /\ invites[k].status # "ACCEPTED"
    /\ Call(r, [Idle EXCEPT !.op = "discard", !.pc = "discard", !.invite = k])
    /\ UNCHANGED tables

-----------------------------------------------------------------------------
(* Statements of a running request *)

Goto(r, q) == req' = [req EXCEPT ![r] = q]
Throw(r) == Goto(r, Idle) /\ UNCHANGED tables

\* login and refreshAccessToken look the user up; a login goes on without one (id -1).
FindUser(r) ==
    LET q == req[r]
        found == q.user # 0 /\ users[q.user].here
    IN  /\ q.pc = "user"
        /\ IF q.op = "refresh" /\ ~found THEN Throw(r)
           ELSE /\ Goto(r, IF q.op = "refresh" THEN [q EXCEPT !.pc = "revoke"]
                           ELSE [q EXCEPT !.pc = "issue", !.user = IF found THEN q.user ELSE 0])
                /\ UNCHANGED tables
        /\ UNCHANGED used

RevokePresented(r) ==
    /\ req[r].pc = "revoke"
    /\ refresh' = [refresh EXCEPT ![req[r].token].revoked = TRUE]
    /\ Goto(r, [req[r] EXCEPT !.pc = "issue"])
    /\ UNCHANGED <<users, stores, customers, codes, invites, used>>

\* issueRefreshToken, the last statement of login, refresh and an invited registration.
Issue(r) ==
    /\ req[r].pc = "issue"
    /\ refresh' = Append(refresh, [user |-> req[r].user, parent |-> req[r].token,
                                   revoked |-> FALSE, expired |-> FALSE])
    /\ Goto(r, Idle)
    /\ UNCHANGED <<users, stores, customers, codes, invites, used>>

\* deleteMyAccount with orders: customer by customer, then the user.
EraseCustomer(r) ==
    LET q == req[r]
    IN  /\ q.pc = "customers"
        /\ \E c \in q.list :
             /\ customers' = [customers EXCEPT ![c].email = "gone", ![c].here = TRUE]
             /\ Goto(r, [q EXCEPT !.list = @ \ {c},
                                  !.pc = IF q.list = {c} THEN "erase" ELSE @])
        /\ UNCHANGED <<users, stores, refresh, codes, invites, used>>

EraseUser(r) ==
    LET q == req[r]
    IN  /\ q.pc = "erase"
        /\ users' = [users EXCEPT ![q.user] =
                       [q.ent EXCEPT !.email = "gone", !.verified = FALSE]]
        /\ Goto(r, [q EXCEPT !.pc = "revokeAll"])
        /\ UNCHANGED <<stores, customers, refresh, codes, invites, used>>

\* Without orders the rows go; orders.customer_id and customers.user_id are foreign keys.
RemoveCustomers(r) ==
    LET q == req[r]
    IN  /\ q.pc = "removeCustomers"
        /\ IF \E c \in q.list : customers[c].orders THEN Throw(r)
           ELSE /\ customers' = [c \in DOMAIN customers |->
                                   IF c \in q.list THEN [customers[c] EXCEPT !.here = FALSE]
                                   ELSE customers[c]]
                /\ Goto(r, [q EXCEPT !.pc = "removeUser"])
                /\ UNCHANGED <<users, stores, refresh, codes, invites>>
        /\ UNCHANGED used

RemoveUser(r) ==
    LET q == req[r]
    IN  /\ q.pc = "removeUser"
        /\ IF \E c \in DOMAIN customers : customers[c].here /\ customers[c].user = q.user
           THEN Throw(r)
           ELSE /\ users' = [users EXCEPT ![q.user].here = FALSE]
                /\ Goto(r, IF q.op = "delete" THEN [q EXCEPT !.pc = "revokeAll"] ELSE Idle)
                /\ UNCHANGED <<stores, customers, refresh, codes, invites>>
        /\ UNCHANGED used

\* Mutant of SessionsOf: only the sessions that began with a login.
SessionsOfLogin(u) == {k \in DOMAIN refresh : refresh[k].user = u /\ refresh[k].parent = 0}
SessionsOf(u) == {k \in DOMAIN refresh : refresh[k].user = u}

RevokeAll(r) ==
    /\ req[r].pc = "revokeAll"
    /\ refresh' = [k \in DOMAIN refresh |->
                     IF k \in SessionsOf(req[r].user) THEN [refresh[k] EXCEPT !.revoked = TRUE]
                     ELSE refresh[k]]
    /\ Goto(r, Idle)
    /\ UNCHANGED <<users, stores, customers, codes, invites, used>>

\* The transaction of a registration inserts the user: the unique index decides.
InsertUser(r) ==
    LET q == req[r]
    IN  /\ q.pc = "insertUser" /\ Inserting(q.email) = {}
        /\ IF Taken(q.email) THEN Throw(r)
           ELSE /\ Goto(r, [q EXCEPT !.pc = IF q.op = "invited" THEN "commit" ELSE "deactivate"])
                /\ UNCHANGED tables
        /\ UNCHANGED used

PurposeOf(q) == IF q.op = "recover" THEN "recovery" ELSE "verification"

\* deactivateActiveTokens, on a connection of its own.
Deactivate(r) ==
    LET q == req[r]
    IN  /\ q.pc = "deactivate"
        /\ codes' = [k \in DOMAIN codes |->
              IF Live(k) /\ codes[k].email = q.email /\ codes[k].purpose = PurposeOf(q)
              THEN [codes[k] EXCEPT !.active = FALSE] ELSE codes[k]]
        /\ Goto(r, [q EXCEPT !.pc = IF q.op = "recover" THEN "insertCode" ELSE "commit"])
        /\ UNCHANGED <<users, stores, customers, refresh, invites, used>>

\* User, verification link and customer become visible together.
CommitUser(r) ==
    LET q == req[r]
        invited == q.op = "invited"
        u == Len(users) + 1
    IN  /\ q.pc = "commit"
        /\ users' = Append(users, NewUser(q.email, invited, IF invited THEN "invite" ELSE q.op, q.invite))
        /\ codes' = IF invited THEN codes ELSE Append(codes, NewCode(q.email, "verification"))
        /\ customers' = IF q.op = "register" THEN customers
                        ELSE Append(customers, [here |-> TRUE, email |-> q.email, user |-> u,
                                                orders |-> FALSE])
        /\ Goto(r, [q EXCEPT !.user = u, !.pc = IF invited THEN "accept" ELSE "mail",
                             !.code = IF invited THEN 0 ELSE Len(codes) + 1])
        /\ UNCHANGED <<stores, refresh, invites, used>>

\* Mutant of AfterFailedMail: the account stays although its link was never sent.
AfterFailedMailKept(q) == Idle
AfterFailedMail(q) == IF q.op = "customer" THEN [q EXCEPT !.pc = "undo"] ELSE Idle

SendLink(r) ==
    /\ req[r].pc = "mail"
    /\ \/ /\ codes' = [codes EXCEPT ![req[r].code].mailed = TRUE]
          /\ Goto(r, Idle)
       \/ Goto(r, AfterFailedMail(req[r])) /\ UNCHANGED codes
    /\ UNCHANGED <<users, stores, customers, refresh, invites, used>>

\* registerCustomer takes the registration back in a second transaction.
Undo(r) ==
    LET q == req[r]
    IN  /\ q.pc = "undo"
        /\ customers' = [c \in DOMAIN customers |->
              IF customers[c].user = q.user THEN [customers[c] EXCEPT !.here = FALSE]
              ELSE customers[c]]
        /\ codes' = [k \in DOMAIN codes |->
              IF codes[k].email = q.email /\ codes[k].purpose = "verification"
              THEN [codes[k] EXCEPT !.here = FALSE] ELSE codes[k]]
        /\ users' = [users EXCEPT ![q.user].here = FALSE]
        /\ Goto(r, Idle)
        /\ UNCHANGED <<stores, refresh, invites, used>>

MarkAccepted(r) ==
    LET q == req[r]
    IN  /\ q.pc = "accept"
        /\ invites' = [invites EXCEPT ![q.invite].status =
                         IF IsPending(q.invite) THEN "ACCEPTED" ELSE @]
        /\ Goto(r, [q EXCEPT !.pc = "store"])
        /\ UNCHANGED <<users, stores, customers, refresh, codes, used>>

\* The seller's store, best effort.
OpenStore(r) ==
    /\ req[r].pc = "store"
    /\ stores' = stores \cup {req[r].user} \/ stores' = stores
    /\ Goto(r, [req[r] EXCEPT !.pc = "issue"])
    /\ UNCHANGED <<users, customers, refresh, codes, invites, used>>

\* save(user); the unique index applies to a row that comes back, too.
SaveUser(r) ==
    LET q == req[r]
    IN  /\ q.pc = "saveUser" /\ Inserting(q.ent.email) = {}
        /\ IF q.ent.email # "gone" /\ UsersOf(q.ent.email) \ {q.user} # {} THEN Throw(r)
           ELSE /\ users' = [users EXCEPT ![q.user] = q.ent]
                /\ codes' = IF q.op = "reset" THEN [codes EXCEPT ![q.code].resets = @ + 1]
                            ELSE codes
                /\ Goto(r, IF q.op = "update" THEN Idle ELSE [q EXCEPT !.pc = "saveCode"])
                /\ UNCHANGED <<stores, customers, refresh, invites>>
        /\ UNCHANGED used

SaveCode(r) ==
    LET q == req[r]
    IN  /\ q.pc = "saveCode"
        /\ codes' = [codes EXCEPT ![q.code] =
              [q.row EXCEPT !.mailed = codes[q.code].mailed, !.resets = codes[q.code].resets,
                 !.tried = codes[q.code].tried + IF q.op = "wrong" THEN 1 ELSE 0]]
        /\ Goto(r, Idle)
        /\ UNCHANGED <<users, stores, customers, refresh, invites, used>>

InsertCode(r) ==
    /\ req[r].pc = "insertCode"
    /\ codes' = Append(codes, NewCode(req[r].email, "recovery"))
    /\ Goto(r, Idle)
    /\ UNCHANGED <<users, stores, customers, refresh, invites, used>>

InsertVerified(r) ==
    LET q == req[r]
    IN  /\ q.pc = "insertVerified" /\ Inserting(q.email) = {}
        /\ users' = IF Taken(q.email) THEN users ELSE Append(users, q.ent)
        /\ Goto(r, Idle)
        /\ UNCHANGED <<stores, customers, refresh, codes, invites, used>>

\* Mutant of OldPending: an invitation that was sent stays valid beside the new one.
OldPendingNone(e) == {}
OldPending(e) == {k \in DOMAIN invites : IsPending(k) /\ invites[k].email = e}

ExpireOld(r) ==
    LET q == req[r]
    IN  /\ q.pc = "expireOld"
        /\ invites' = [k \in DOMAIN invites |->
              IF k \in OldPending(q.email) THEN [invites[k] EXCEPT !.status = "EXPIRED"]
              ELSE invites[k]]
        /\ Goto(r, [q EXCEPT !.pc = "insertInvite"])
        /\ UNCHANGED <<users, stores, customers, refresh, codes, used>>

InsertInvite(r) ==
    /\ req[r].pc = "insertInvite"
    /\ invites' = Append(invites, NewInvite(req[r].email))
    /\ Goto(r, Idle)
    /\ UNCHANGED <<users, stores, customers, refresh, codes, used>>

\* findAll updates by id, whatever has become of the status.
Sync(r) ==
    /\ req[r].pc = "sync"
    /\ invites' = [k \in DOMAIN invites |->
          IF k \in req[r].list THEN [invites[k] EXCEPT !.status = "ACCEPTED"] ELSE invites[k]]
    /\ Goto(r, Idle)
    /\ UNCHANGED <<users, stores, customers, refresh, codes, used>>

Discard(r) ==
    /\ req[r].pc = "discard"
    /\ invites' = [invites EXCEPT ![req[r].invite].here = FALSE]
    /\ Goto(r, Idle)
    /\ UNCHANGED <<users, stores, customers, refresh, codes, used>>

\* The process or the connection fails; an open transaction is rolled back.
Die(r) ==
    /\ Running(r) /\ used.faults < MaxFaults
    /\ used' = [used EXCEPT !.faults = @ + 1]
    /\ Throw(r)

\* A token or an invitation reaches its expires_at.
Lapse ==
    /\ used.lapses < MaxLapses
    /\ used' = [used EXCEPT !.lapses = @ + 1]
    /\ \/ /\ \E k \in DOMAIN refresh : refresh' = [refresh EXCEPT ![k].expired = TRUE]
          /\ UNCHANGED <<codes, invites>>
       \/ /\ \E k \in DOMAIN codes : codes' = [codes EXCEPT ![k].expired = TRUE]
          /\ UNCHANGED <<refresh, invites>>
       \/ /\ \E k \in DOMAIN invites : invites' = [invites EXCEPT ![k].expired = TRUE]
          /\ UNCHANGED <<refresh, codes>>
    /\ UNCHANGED <<users, stores, customers, req>>

\* The routes of the controllers that change state, whoever may call them.
AuthController(r) ==
    \/ \E u \in DOMAIN users : BeginLogin(r, u) \/ BeginDelete(r, u)
    \/ \E k \in DOMAIN refresh : BeginRefresh(r, k) \/ Logout(r, k)
    \/ \E e \in Emails :
         \/ BeginRegister(r, "register", e) \/ BeginRegister(r, "customer", e)
         \/ BeginRecover(r, e)
         \/ \E right \in BOOLEAN : BeginAnswer(r, e, right)
    \/ \E k \in DOMAIN invites : BeginInvited(r, k)
    \/ \E k \in DOMAIN codes : BeginVerify(r, k)

InvitationsController(r) ==
    \/ \E e \in Emails : BeginInvite(r, e)
    \/ \E k \in DOMAIN invites : ExpireInvite(r, k) \/ Resend(r, k) \/ BeginDiscard(r, k)
    \/ BeginSync(r)

AdminUsersController(r) ==
    \/ \E e \in Emails : BeginCreate(r, e)
    \/ \E u \in DOMAIN users :
         BeginRemove(r, u) \/ \E verified \in BOOLEAN : BeginUpdate(r, u, verified)

Begin(r) ==
    Free(r) /\ (AuthController(r) \/ InvitationsController(r) \/ AdminUsersController(r))

Run(r) ==
    \/ FindUser(r) \/ RevokePresented(r) \/ Issue(r)
    \/ EraseCustomer(r) \/ EraseUser(r) \/ RemoveCustomers(r) \/ RemoveUser(r) \/ RevokeAll(r)
    \/ InsertUser(r) \/ Deactivate(r) \/ CommitUser(r) \/ SendLink(r) \/ Undo(r)
    \/ MarkAccepted(r) \/ OpenStore(r) \/ SaveUser(r) \/ SaveCode(r) \/ InsertCode(r)
    \/ InsertVerified(r) \/ ExpireOld(r) \/ InsertInvite(r) \/ Sync(r) \/ Discard(r)

Next == (\E r \in Requests : Begin(r) \/ (Running(r) /\ Run(r)) \/ Die(r)) \/ Lapse
Spec == Init /\ [][Next]_vars

-----------------------------------------------------------------------------
(* Properties of every interleaving *)

\* The types of the tables and of the handlers' variables; no code counts more wrong
\* answers than maxOtpAttempts.
TypeOK ==
    /\ users \in Seq(UserRow) /\ Len(users) <= MaxUsers
    /\ stores \subseteq DOMAIN users
    /\ customers \in Seq(CustomerRow) /\ refresh \in Seq(RefreshRow)
    /\ codes \in Seq(CodeRow) /\ invites \in Seq(InviteRow)
    /\ req \in [Requests -> Request]
    /\ used \in [calls : 0..MaxCalls, overlaps : 0..MaxOverlaps, faults : 0..MaxFaults,
                 lapses : 0..MaxLapses]

\* Rotation: the use of a refresh token issues one successor.  The token is checked
\* and revoked in two statements, so each request that overlaps another may add one
\* more, and nothing else does: not a crash between revoking and issuing, not a login,
\* not a deleted account.
RotatedOnce ==
    \A k \in DOMAIN refresh :
      Cardinality({j \in DOMAIN refresh : refresh[j].parent = k}) <= 1 + used.overlaps

\* A recovery code judges at most maxOtpAttempts wrong answers and sets one password:
\* every save may bring back an older state of the row, but at most once for each
\* request that overlaps another, and a request that dies between saving the user and
\* the code leaves the code for one more use.
CodesHoldOut ==
    \A k \in DOMAIN codes :
      /\ codes[k].tried <= MaxAttempts + used.overlaps
      /\ codes[k].resets <= 1 + used.overlaps + used.faults

\* An invitation makes one seller, however often it is presented, and an address has one
\* invitation that is pending (find-then-insert: one more for each overlap).
InvitationsAreSingle ==
    /\ \A k \in DOMAIN invites :
         Cardinality({u \in DOMAIN users : users[u].here /\ users[u].invite = k}) <= 1
    /\ \A e \in Emails :
         Cardinality({k \in DOMAIN invites : IsPending(k) /\ invites[k].email = e})
           <= 1 + used.overlaps

-----------------------------------------------------------------------------
(* Properties of requests that do not overlap *)

Quiet == \A r \in Requests : ~Running(r)
Clean == used.overlaps = 0 /\ used.faults = 0

\* Once deleteMyAccount is through with the rows, no customer of any store has the
\* address any more; when it is done with an account that had orders nobody can act as
\* it again: it is not verified and no session of it is left.
ErasedIsGone ==
    Clean =>
      /\ \A r \in Requests : req[r].pc = "revokeAll" => CustomersOf(req[r].ent.email) = {}
      /\ Quiet => \A u \in DOMAIN users : users[u].here /\ users[u].email = "gone" =>
           /\ users[u].verified => users[u].by = "admin"
           /\ \A k \in DOMAIN refresh : refresh[k].user = u => refresh[k].revoked

\* registerCustomer leaves no address taken by an account whose owner was not sent a
\* link that works: there is no other way to get one.
NoStrandedAccount ==
    Clean /\ Quiet =>
      \A u \in DOMAIN users :
        users[u].here /\ ~users[u].verified /\ users[u].by = "customer"
          /\ users[u].email # "gone" =>
        \E k \in DOMAIN codes :
          /\ codes[k].here /\ codes[k].email = users[u].email
          /\ codes[k].purpose = "verification" /\ codes[k].mailed
          /\ Live(k) \/ codes[k].expired
=============================================================================
