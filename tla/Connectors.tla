----------------------------- MODULE Connectors -----------------------------
(***************************************************************************)
(* The connectors that hold things for instances, behind the one           *)
(* Dispatcher of crates/drt-connector: socket, net and ws.  Their tables   *)
(* never meet, so a behaviour wires one of them (Registry::wire), and what *)
(* every one of them promises about handles, offers and vital resources is *)
(* stated here once.                                                       *)
(***************************************************************************)
EXTENDS Owners

CONSTANTS Wired,                             \* the connectors a deployment may wire
          MaxUnread, MaxListeners, ACCEPT_SWEEP,           \* socket
          RECV_BACKLOG, ACCEPT_BACKLOG, MaxData, Early, MaxOpens, MaxConns, MaxEvents, MaxPushes,  \* net
          INBOX_MAX, OUTBOX_MAX, MaxFrames, MaxTasks   \* ws

ASSUME ConnectorsAssumption ==
    /\ Wired \subseteq {"socket", "net", "ws"}
    /\ {MaxUnread, MaxListeners, ACCEPT_SWEEP, RECV_BACKLOG, ACCEPT_BACKLOG, MaxData, Early, MaxEvents, MaxPushes,
        INBOX_MAX, OUTBOX_MAX, MaxFrames} \subseteq Nat \ {0}
    /\ {MaxOpens, MaxConns, MaxTasks} \subseteq Handle

VARIABLES wired, conns, events, pushes, tasks

vars == <<swarmVars, heldVars, wired, conns, events, pushes, tasks>>

S == INSTANCE Sockets
N == INSTANCE Net
W == INSTANCE Ws

Init == wired \in Wired /\ N!NetInit /\ W!WsInit

Next ==
    /\ UNCHANGED wired
    /\ \/ wired = "socket" /\ S!Next /\ UNCHANGED <<conns, events, pushes, tasks>>
       \/ wired = "net" /\ N!Next /\ UNCHANGED tasks
       \/ wired = "ws" /\ W!Next /\ UNCHANGED <<conns, events, pushes>>

Spec == Init /\ [][Next]_vars

\* On net: the steps of the driver keep coming, and each polls the calls in
\* flight of those who live.
NetHooks   == wired = "net" /\ (N!Ended \/ N!Notices) /\ UNCHANGED <<wired, tasks>>
NetSettles == wired = "net" /\ UNCHANGED <<wired, tasks>> /\ \E n \in Inst, k \in DOMAIN conns : N!Settle(n, k)

FairSpec == Spec /\ WF_vars(NetHooks) /\ SF_vars(NetSettles)

\* No step and no property tells one instance from another but by what it
\* holds and offers.
Symmetric == Permutations(Inst)
-----------------------------------------------------------------------------
TypeOK ==
    /\ gone \subseteq Inst /\ pc \in {"hooks", "drive"} /\ next \in 1..(MaxHandle + 1) /\ ended \subseteq Inst
    /\ DOMAIN table \subseteq Handle
    /\ wired = "socket" => S!SockTypeOK
    /\ wired = "net" => N!NetTypeOK
    /\ wired = "ws" => W!WsTypeOK

\* Each offer names a handle its maker still holds, once, through closes,
\* claims and deaths in any order (SocketConnector::offers).  On net an open
\* that is refused leaves the offer of its handle, which then names nothing.
OffersTrue ==
    \A i \in DOMAIN offers :
        /\ Holds(offers[i][1], offers[i][3]) \/ (wired = "net" /\ offers[i][3] \notin DOMAIN table)
        /\ \A j \in DOMAIN offers : offers[j][1] = offers[i][1] /\ offers[j][3] = offers[i][3] => i = j

\* Nothing outlives its owner: a gone instance holds no handle and has made
\* no offer, and the transport carries no connection nobody can reach, but
\* what it was opening for an owner that died first (Connector::release,
\* Handles::release, close_all, and settle, which then never runs).
NothingOfTheDead ==
    /\ OwnedBy(gone) = {} /\ \A i \in DOMAIN offers : offers[i][1] \notin gone
    /\ wired = "net" => N!NoneForgotten

\* What an owner was told of is still there for it, on socket and ws, and a
\* ws task never waits for room in an inbox that has been emptied.
ToldTrue == (wired = "socket" => S!ToldTrue) /\ (wired = "ws" => W!ToldTrue /\ W!NoLostDrain)

\* Messages of a connection stay in order on their way to the owner.
InOrder == wired = "net" => N!InOrder

\* A vital resource does not go without its owner: when its entry leaves the
\* table, or on net is found over, the owner is gone with it or is reported
\* at the next ask (the ended hook, close, sweep).  A failed connect of ws
\* removes its own entry and answers instead.
VitalEnds ==
    [][\A h \in DOMAIN table :
         LET n == table[h].owner
             over == \/ h \notin DOMAIN table'
                     \/ wired = "net" /\ ~table[h].gone /\ table'[h].gone /\ table'[h].owner = n
             refused == \/ wired = "ws" /\ tasks[h].st = "failed"
                        \/ wired = "net" /\ conns[table[h].key].st = "refused"
         IN  table[h].vital /\ over /\ ~refused => n \in gone' \cup ended']_vars

\* "an answer for an entry that is gone (the owner died while it waited) is
\* closed at once" (settle): what is up for such an owner does not stay up.
AnswersTheDead ==
    \A k \in 1..MaxOpens :
        (wired = "net" /\ k \in DOMAIN conns /\ conns[k].st = "up" /\ N!Abandoned(k))
        ~> (k \in DOMAIN conns /\ conns[k].st # "up")
=============================================================================
