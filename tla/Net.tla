-------------------------------- MODULE Net --------------------------------
(***************************************************************************)
(* The net connector (connectors/net): connections to opaque addresses     *)
(* over a transport of the host's.  The transport reports what happens as  *)
(* events in one list; a sweep puts each where it belongs: a push to an    *)
(* owner that named a queue, the buffer of one that did not, an ending for *)
(* an owner whose vital connection went.                                   *)
(***************************************************************************)
EXTENDS Owners

CONSTANTS RECV_BACKLOG,    \* unread messages a buffered handle is held to
          ACCEPT_BACKLOG,  \* connections that may wait under a listener
          MaxData,         \* bound: messages the far end sends per connection
          Early,           \* messages that arrive before an open is settled
          MaxOpens,        \* bound: opens and listens of a behaviour
          MaxConns,        \* bound: those and the connections that arrive
          MaxEvents,       \* bound: reports no sweep has read
          MaxPushes        \* bound: pushes past which no handle is claimed

VARIABLES conns,   \* key -> the transport's side of it
          events,  \* what the transport reported and no sweep has read
          pushes   \* <<owner, notice>>: what a sweep produced for notices

netVars == <<conns, events, pushes>>

Key   == 1..MaxConns
Entry == [owner : Inst, key : Key, conn : BOOLEAN, listener : BOOLEAN, queue : BOOLEAN,
          vital : BOOLEAN, inbound : Seq(1..MaxData), waiting : 0..MaxHandle, gone : BOOLEAN]

\* asker is who asked for an open or a listen whose answer is not settled.
Conn  == [st : {"opening", "up", "refused", "down"}, listener : BOOLEAN,
          sent : 0..MaxData, asker : SUBSET Inst]

NewEntry(n, key, listener, vital, queue) ==
    [owner |-> n, key |-> key, conn |-> FALSE, listener |-> listener, queue |-> queue,
     vital |-> vital, inbound |-> <<>>, waiting |-> 0, gone |-> FALSE]

NextKey == Len(conns) + 1

\* A notice is what the program reads: a message (its number), the close or
\* a new connection (0).
Notice(e, h, data) == <<e.owner, <<h, data>>>>

\* Entry::flush: what a buffered entry holds, now that its owner has a queue.
Flush(e, h) ==
    IF ~e.queue THEN <<>>
    ELSE [i \in DOMAIN e.inbound |-> Notice(e, h, e.inbound[i])] \o (IF e.gone THEN <<Notice(e, h, 0)>> ELSE <<>>)
\* Mutant: what was pushed stays buffered too.
FlushedTwice(e) == e

Flushed(e) == [e EXCEPT !.inbound = IF e.queue THEN <<>> ELSE @]
-----------------------------------------------------------------------------
\* NetConnector::sweep.  The state it carries from event to event.

Swept0 == [table |-> table, next |-> next, pushes |-> pushes, ended |-> ended, close |-> {}]

\* The entry an event is for, if it is there and not over.
For(s, key) == {h \in DOMAIN s.table : s.table[h].key = key /\ ~s.table[h].gone}

OnData(s, h, data) ==
    LET e == s.table[h] IN
    IF e.queue THEN [s EXCEPT !.pushes = Append(@, Notice(e, h, data))]
    ELSE IF Len(e.inbound) < RECV_BACKLOG THEN [s EXCEPT !.table[h].inbound = Append(@, data)]
    ELSE [s EXCEPT !.table[h].gone = TRUE, !.close = @ \cup {k \in {e.key} : e.conn},
                   !.ended = @ \cup {n \in {e.owner} : e.vital}]

OnClosed(s, h) ==
    LET e == s.table[h] IN
    [s EXCEPT !.table[h].gone = TRUE, !.ended = @ \cup {n \in {e.owner} : e.vital},
              !.pushes = @ \o (IF e.queue THEN <<Notice(e, h, 0)>> ELSE <<>>)]

WaitingUnder(t, n, l) == {h \in DOMAIN t : t[h].owner = n /\ t[h].waiting = l}

OnAccepted(s, l, key) ==
    LET e   == s.table[l]
        new == [NewEntry(e.owner, key, FALSE, FALSE, e.queue)
                    EXCEPT !.conn = TRUE, !.waiting = IF e.queue THEN 0 ELSE l]
    IN  IF ~e.queue /\ Cardinality(WaitingUnder(s.table, e.owner, l)) >= ACCEPT_BACKLOG
        THEN [s EXCEPT !.close = @ \cup {key}]
        ELSE [s EXCEPT !.table = With(@, s.next, new), !.next = @ + 1,
                       !.pushes = @ \o (IF e.queue THEN <<Notice(e, l, 0)>> ELSE <<>>)]

OnEvent(s, ev) ==
    LET to == For(s, IF ev.kind = "accepted" THEN ev.on ELSE ev.key) IN
    IF to = {} THEN [s EXCEPT !.close = @ \cup {k \in {ev.key} : ev.kind = "accepted"}]
    ELSE LET h == CHOOSE k \in to : TRUE IN
         CASE ev.kind = "data"     -> OnData(s, h, ev.data)
           [] ev.kind = "closed"   -> OnClosed(s, h)
           [] ev.kind = "accepted" -> OnAccepted(s, h, ev.key)

\* Event by event: swept[i] is what the first i of them leave.
Sweep ==
    LET swept[i \in 0..Len(events)] == IF i = 0 THEN Swept0 ELSE OnEvent(swept[i - 1], events[i])
    IN  swept[Len(events)]

Down(keys) == [k \in DOMAIN conns |-> IF k \in keys THEN [conns[k] EXCEPT !.st = "down"] ELSE conns[k]]
-----------------------------------------------------------------------------
\* The hooks of a step.

\* close_all: the transport connections of entries that are not over.
Cut(t, hs) == {t[h].key : h \in {k \in hs : t[k].conn /\ ~t[k].gone}}

\* The call went with its caller, so nobody settles its answer (pump.rs,
\* forget): release knows no connection to close, and the transport goes on.
Abandoned(k) == conns[k].asker \cap gone # {}

ReleaseNet(s, dead) ==
    LET theirs == {h \in DOMAIN s.table : s.table[h].owner \in dead}
        cut    == s.close \cup Cut(s.table, theirs)
    IN  /\ table' = [h \in DOMAIN s.table \ theirs |-> s.table[h]] /\ next' = s.next
        /\ offers' = Living(dead)
        /\ conns' = Down(cut)

Ended ==
    LET s == Sweep IN
    /\ Doomed(s.ended) /\ ReleaseNet(s, s.ended)
    /\ pushes' = s.pushes /\ ended' = {} /\ events' = <<>>

Notices ==
    LET s == Sweep IN
    /\ Told /\ table' = s.table /\ next' = s.next /\ ended' = s.ended /\ conns' = Down(s.close)
    /\ pushes' = <<>> /\ events' = <<>> /\ UNCHANGED offers

Released(n) ==
    /\ Dies(n) /\ ReleaseNet(Swept0, {n})
    /\ ended' = ended \ {n} /\ UNCHANGED <<pushes, events>>
-----------------------------------------------------------------------------
\* The verbs.  An entry that waits for accept reads as no such handle.

Mine(n, h) == Holds(n, h) /\ table[h].waiting = 0

\* open and listen: the entry exists before the transport answers.
Open(n, listener, vital, queue) ==
    /\ Calls(n) /\ NextKey <= MaxOpens /\ Insert(NewEntry(n, NextKey, listener, vital, queue))
    /\ conns' = Append(conns, [st |-> "opening", listener |-> listener, sent |-> 0, asker |-> {n}])
    /\ UNCHANGED <<offers, ended, events, pushes>>

\* Mutant: an answer nobody waits for is dropped, not closed.
SettleDrops(n, k) ==
    LET mine == {h \in OwnedBy({n}) : table[h].key = k}
    IN  /\ Calls(n) /\ n \in conns[k].asker /\ conns[k].st # "opening"
        /\ table' = [h \in DOMAIN table |-> [table[h] EXCEPT !.conn = @ \/ h \in mine]]
        /\ conns' = [conns EXCEPT ![k].asker = {}]
        /\ UNCHANGED <<next, offers, ended, events, pushes>>

\* settle: the answer goes into the entry if the caller still holds it.
Settle(n, k) ==
    LET mine == {h \in OwnedBy({n}) : table[h].key = k}
        up   == conns[k].st # "refused"
        answered == [conns EXCEPT ![k].asker = {}]
    IN  /\ Calls(n) /\ n \in conns[k].asker /\ conns[k].st # "opening"
        /\ table' = IF up THEN [h \in DOMAIN table |-> [table[h] EXCEPT !.conn = @ \/ h \in mine]]
                          ELSE Without(mine)
        /\ conns' = IF up /\ mine = {} THEN [answered EXCEPT ![k].st = "down"] ELSE answered
        /\ UNCHANGED <<next, offers, ended, events, pushes>>

Close(n, h) ==
    /\ Calls(n) /\ Mine(n, h)
    /\ LET taken == {h} \cup WaitingUnder(table, n, h)
       IN  table' = Without(taken) /\ conns' = Down(Cut(table, taken))
    /\ offers' = Withdrawn(n, h) /\ ended' = IF table[h].vital THEN ended \cup {n} ELSE ended
    /\ UNCHANGED <<next, events, pushes>>

Offer(n, to, h) ==
    Calls(n) /\ Mine(n, h) /\ Transfer(n, to, h) /\ UNCHANGED <<table, next, ended, netVars>>

\* What a poll that sweeps leaves, besides the table and the pushes.
Rest(s) ==
    next' = s.next /\ ended' = s.ended /\ conns' = Down(s.close) /\ events' = <<>> /\ UNCHANGED offers

\* The handle is the caller's, of this kind, and does not push.
Looks(s, n, h, listener) ==
    /\ h \in DOMAIN s.table
    /\ LET e == s.table[h] IN e.owner = n /\ e.waiting = 0 /\ e.listener = listener /\ ~e.queue

\* accept takes the connection that waits longest: handles only grow.
Accept(n, l, vital, queue) ==
    LET s == Sweep
        wait == WaitingUnder(s.table, n, l)
        h    == CHOOSE k \in wait : \A j \in wait : k <= j
        e    == [s.table[h] EXCEPT !.waiting = 0, !.vital = vital, !.queue = queue]
    IN  /\ Calls(n) /\ Looks(s, n, l, TRUE) /\ wait # {} /\ Rest(s)
        /\ table' = [s.table EXCEPT ![h] = Flushed(e)] /\ pushes' = s.pushes \o Flush(e, h)

Recv(n, h) ==
    LET s == Sweep
    IN  /\ Calls(n) /\ Looks(s, n, h, FALSE) /\ s.table[h].inbound # <<>> /\ Rest(s)
        /\ table' = [s.table EXCEPT ![h].inbound = Tail(@)] /\ pushes' = s.pushes

\* A poll of accept or recv that finds nothing has swept all the same.
Polls(n) ==
    LET s == Sweep
    IN  Calls(n) /\ events # <<>> /\ Rest(s) /\ table' = s.table /\ pushes' = s.pushes

\* The claimant's own queue and flag, and what was buffered for it.
Claim(n, named, vital, queue) ==
    LET i == Oldest(n, named)
        h == offers[i][3]
        e == [table[h] EXCEPT !.owner = n, !.vital = vital, !.queue = queue]
        held == Holds(offers[i][1], h)
    IN  /\ Calls(n) /\ Addressed(n, named) # {} /\ Len(pushes) < MaxPushes /\ offers' = Taken(i)
        /\ table'  = IF held THEN [table EXCEPT ![h] = Flushed(e)] ELSE table
        /\ pushes' = IF held THEN pushes \o Flush(e, h) ELSE pushes
        /\ UNCHANGED <<next, ended, conns, events>>
-----------------------------------------------------------------------------
\* The transport (the host's): it answers, reports and is told to close.

Report(ev) == Len(events) < MaxEvents /\ events' = Append(events, ev) /\ UNCHANGED <<swarmVars, heldVars, pushes>>

Answers(k, how) ==
    /\ conns[k].st = "opening" /\ conns' = [conns EXCEPT ![k].st = how]
    /\ UNCHANGED <<swarmVars, heldVars, events, pushes>>

\* It may deliver before it answers, and before the answer is settled.
Delivers(k) ==
    /\ conns[k].st \in {"opening", "up"} /\ ~conns[k].listener
    /\ conns[k].sent < IF conns[k].asker = {} THEN MaxData ELSE Early
    /\ conns' = [conns EXCEPT ![k].sent = @ + 1]
    /\ Report([kind |-> "data", key |-> k, data |-> conns[k].sent + 1])

Closes(k) ==
    /\ conns[k].st = "up" /\ conns' = [conns EXCEPT ![k].st = "down"]
    /\ Report([kind |-> "closed", key |-> k])

\* What it was opening for a caller that is gone, it may let go of: the ws
\* transport does so with a dial, and keeps a listener.
LetsGo(k) ==
    /\ Abandoned(k) /\ conns[k].st \in {"opening", "up"}
    /\ conns' = [conns EXCEPT ![k].st = "down"]
    /\ UNCHANGED <<swarmVars, heldVars, events, pushes>>

Connects(k) ==
    /\ conns[k].st = "up" /\ conns[k].listener /\ NextKey \in Key
    /\ conns' = Append(conns, [st |-> "up", listener |-> FALSE, sent |-> 0, asker |-> {}])
    /\ Report([kind |-> "accepted", key |-> NextKey, on |-> k])

NetInit == OwnersInit /\ conns = <<>> /\ events = <<>> /\ pushes = <<>>

Next ==
    \/ Ended \/ Notices \/ \E n \in Inst : Released(n) \/ Polls(n)
    \/ \E n \in Inst, v, q \in BOOLEAN : Open(n, FALSE, v, q) \/ Open(n, TRUE, FALSE, q)
    \/ \E n \in Inst, h \in Handle :
         \/ Close(n, h) \/ Recv(n, h)
         \/ \E m \in Inst : Offer(n, m, h)
         \/ \E v, q \in BOOLEAN : Accept(n, h, v, q)
    \/ \E n \in Inst, h \in 0..MaxHandle, v, q \in BOOLEAN : Claim(n, h, v, q)
    \/ \E n \in Inst, k \in DOMAIN conns : Settle(n, k)
    \/ \E k \in DOMAIN conns :
         \/ Answers(k, "up") \/ Answers(k, "refused") \/ Delivers(k)
         \/ Closes(k) \/ LetsGo(k) \/ Connects(k)
-----------------------------------------------------------------------------
NetTypeOK ==
    /\ \A h \in DOMAIN table : table[h] \in Entry
    /\ DOMAIN conns \subseteq Key /\ \A k \in DOMAIN conns : conns[k] \in Conn

\* A connection the transport still carries is one somebody can reach: an
\* entry that is not over, an accept report no sweep has read, or an open
\* that waits for its answer (settle, close_all, the two refusals of sweep).
\* One is forgotten, and only that one: the connection or listener of a caller
\* that died before its answer was settled.  The rest needs opens to be
\* settled before their entries overflow: sweep has no connection to close
\* for an entry that overflows sooner, and settle gives the connection to
\* that entry, which is over.
NoneForgotten ==
    \A k \in DOMAIN conns : Early <= RECV_BACKLOG /\ conns[k].st = "up" =>
        \/ conns[k].asker \ gone # {} \/ Abandoned(k)
        \/ \E h \in DOMAIN table : table[h].key = k /\ ~table[h].gone
        \/ \E i \in DOMAIN events : events[i].kind = "accepted" /\ events[i].key = k

\* "a buffered handle is held to RECV_BACKLOG unread messages, past which
\* the connection is closed": not if they come before the open is settled.
ClosedPast ==
    \A h \in DOMAIN table : table[h].gone /\ table[h].conn => conns[table[h].key].st # "up"

\* The messages of a connection that wait for its owner, in the order the
\* owner will get them: pushed, buffered, and reported but not swept.
Pending(h) ==
    LET k == table[h].key
        said == Only(pushes, {i \in DOMAIN pushes : pushes[i][2][1] = h /\ pushes[i][2][2] # 0})
        news == Only(events, {i \in DOMAIN events : events[i].kind = "data" /\ events[i].key = k})
    IN  [i \in DOMAIN said |-> said[i][2][2]] \o table[h].inbound \o [i \in DOMAIN news |-> news[i].data]

\* Messages reach the owner whole and in the order the far end sent them,
\* whichever way the handle takes them and whenever that changes (sweep,
\* Entry::flush in accept and claim).
InOrder ==
    \A h \in DOMAIN table : \A i, j \in DOMAIN Pending(h) : i < j => Pending(h)[i] < Pending(h)[j]
=============================================================================
