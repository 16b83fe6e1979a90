--------------------------------- MODULE Live ---------------------------------
(***************************************************************************)
(* Who hears of an event: NotificationsService keeps the open event        *)
(* streams of each user in memory, PushService the browsers that asked for *)
(* Web Push in push_subscriptions, whose endpoint has no unique index.     *)
(***************************************************************************)
EXTENDS Storefront

CONSTANTS
    Tabs,        \* connections to the stream endpoint
    Endpoints,   \* browsers, by the endpoint their push service gave them
    RoleOf       \* the role in the tokens of each user

ASSUME LiveAssumption ==
    "none" \notin Tabs \cup Endpoints /\ RoleOf \in [Buyers -> {"admin", "seller"}]

VARIABLES
    tab,       \* the user of each connection, or "none" when it is closed
    stream,    \* the Map streams: subjects and role of each user, or NoStream
    push       \* push_subscriptions

live == <<tab, stream, push>>

NoStream == [subjects |-> {}, role |-> "none"]
PushRow == [endpoint : Endpoints, user : Buyers, here : BOOLEAN]

-----------------------------------------------------------------------------
(* Event streams *)

\* subscribe: the entry of the user takes the role in the token of its newest connection.
Subscribe(r, t, u) ==
    /\ tab[t] = "none"
    /\ tab' = [tab EXCEPT ![t] = u]
    /\ stream' = [stream EXCEPT ![u] = [subjects |-> @.subjects \cup {t}, role |-> RoleOf[u]]]
    /\ Call(r, Idle)
    /\ UNCHANGED <<shared, push>>

\* Mutant of LeftOpen: the entry is dropped with the first of its connections.
LeftOpenNone(u, t) == {}
LeftOpen(u, t) == stream[u].subjects \ {t}

\* finalize: the connection is closed, by either side.
Finalize(t) ==
    LET u == tab[t]
    IN  /\ u # "none" /\ Happens
        /\ tab' = [tab EXCEPT ![t] = "none"]
        /\ stream' = [stream EXCEPT ![u] = IF LeftOpen(u, t) = {} THEN NoStream
                                           ELSE [@ EXCEPT !.subjects = LeftOpen(u, t)]]
        /\ UNCHANGED <<shared, push, req>>

\* The connections that notifyUser and notifyAdmins write to.
ReachedOf(u) == stream[u].subjects
ReachedAdmins == UNION {stream[u].subjects : u \in {v \in Buyers : stream[v].role = "admin"}}

-----------------------------------------------------------------------------
(* Web Push *)

RowsOf(e) == {k \in DOMAIN push : push[k].here /\ push[k].endpoint = e}
RowsFor(u) == {k \in DOMAIN push : push[k].here /\ push[k].user = u}

\* subscribe: findOne by endpoint, any row of it, then an update or an insert.
BeginSubscribe(r, e, u) ==
    /\ \E k \in IF RowsOf(e) = {} THEN {0} ELSE RowsOf(e) :
         Call(r, [Idle EXCEPT !.pc = "savePush", !.key = e, !.buyer = u, !.id = k])
    /\ UNCHANGED <<shared, live>>

SavePush(r) ==
    LET q == req[r]
        row == [endpoint |-> q.key, user |-> q.buyer, here |-> TRUE]
    IN  /\ q.pc = "savePush"
        /\ push' = IF q.id = 0 THEN Append(push, row) ELSE [push EXCEPT ![q.id] = row]
        /\ Return(r)
        /\ UNCHANGED <<shared, tab, stream>>

Unsubscribe(r, e) ==
    /\ RowsOf(e) # {}
    /\ push' = [k \in DOMAIN push |-> IF k \in RowsOf(e) THEN [push[k] EXCEPT !.here = FALSE]
                                      ELSE push[k]]
    /\ Call(r, Idle)
    /\ UNCHANGED <<shared, tab, stream>>

\* sendToUser reads the rows of the user and sends to one after another.
BeginSend(r, u) ==
    /\ RowsFor(u) # {}
    /\ Call(r, [Idle EXCEPT !.pc = "send", !.list = RowsFor(u)])
    /\ UNCHANGED <<shared, live>>

\* A send goes through, fails and is logged, or finds the endpoint gone (404, 410).
Send(r) ==
    LET q == req[r]
    IN  /\ q.pc = "send"
        /\ \E k \in q.list :
             \/ Goto(r, [q EXCEPT !.pc = "drop", !.id = k])
             \/ Goto(r, IF q.list = {k} THEN Idle ELSE [q EXCEPT !.list = @ \ {k}])
        /\ UNCHANGED <<shared, live>>

Drop(r) ==
    LET q == req[r]
    IN  /\ q.pc = "drop"
        /\ push' = [push EXCEPT ![q.id].here = FALSE]
        /\ Goto(r, IF q.list = {q.id} THEN Idle
                   ELSE [q EXCEPT !.pc = "send", !.id = 0, !.list = @ \ {q.id}])
        /\ UNCHANGED <<shared, tab, stream>>

NotificationsController(r) == \E t \in Tabs, u \in Buyers : Subscribe(r, t, u)

PushController(r) ==
    \E e \in Endpoints : Unsubscribe(r, e) \/ \E u \in Buyers : BeginSubscribe(r, e, u)

LiveBegin(r) ==
    NotificationsController(r) \/ PushController(r) \/ \E u \in Buyers : BeginSend(r, u)
LiveRun(r) == SavePush(r) \/ Send(r) \/ Drop(r)

-----------------------------------------------------------------------------
(* Properties *)

\* An event for a user is written to the connections that are open for that user and to
\* no other, one for administrators to those of all administrators and to no other, and
\* no entry outlives its connections.
StreamsMatchTabs ==
    /\ \A u \in Buyers : /\ ReachedOf(u) = {t \in Tabs : tab[t] = u}
                         /\ ReachedOf(u) = {} <=> stream[u] = NoStream
    /\ ReachedAdmins = {t \in Tabs : tab[t] # "none" /\ RoleOf[tab[t]] = "admin"}
=============================================================================
