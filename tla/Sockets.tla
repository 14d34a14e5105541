------------------------------ MODULE Sockets ------------------------------
(***************************************************************************)
(* The socket connector (connectors/socket): listeners and connections     *)
(* held by handle.  The kernel's side of a socket is part of its record:   *)
(* connections or bytes that wait unread, and whether the far end is done. *)
(* Bytes are counted; addresses and the report's sentences are left out.   *)
(***************************************************************************)
EXTENDS Owners, SequencesExt

CONSTANTS MaxUnread,    \* bound: what waits unread in the kernel per socket
          MaxListeners, \* bound: listeners at a time
          ACCEPT_SWEEP  \* connections a readiness sweep keeps in a backlog

\* wake is off, armed, or told: said and not used since.
Socket == [owner : Inst, kind : {"listener", "stream"}, vital : BOOLEAN,
           wake : {"off", "armed", "told"}, eof : BOOLEAN,
           back : 0..ACCEPT_SWEEP, unread : 0..MaxUnread, fin : BOOLEAN]

Opened(n, kind, vital, wake) ==
    [owner |-> n, kind |-> kind, vital |-> vital, wake |-> wake, eof |-> FALSE,
     back |-> 0, unread |-> 0, fin |-> FALSE]

Is(n, h, kind) == Holds(n, h) /\ table[h].kind = kind

\* Room for what waits to become a handle (a bound on the environment).
Listeners == {h \in DOMAIN table : table[h].kind = "listener"}
Room == next + MapThenSumSet(LAMBDA h : table[h].back + table[h].unread, Listeners) <= MaxHandle

\* The peeks: bytes come before the end.
AtEnd(s)    == s.unread = 0 /\ s.fin
HasEnded(s) == s.kind = "stream" /\ (s.eof \/ AtEnd(s))

\* Mutant: the readiness sweep takes every connection that waits.
SweptAll(s) ==
    IF s.wake # "armed" \/ s.eof \/ s.kind = "stream" THEN s
    ELSE [s EXCEPT !.wake = "told", !.back = @ + s.unread, !.unread = 0]

\* became_ready, on one socket: what it is afterwards.
Least(a, b) == IF a < b THEN a ELSE b
Swept(s) ==
    LET taken == Least(ACCEPT_SWEEP - s.back, s.unread) IN
    IF s.wake # "armed" \/ s.eof THEN s
    ELSE IF s.kind = "stream"
    THEN [s EXCEPT !.wake = IF s.unread > 0 \/ s.fin THEN "told" ELSE @, !.eof = AtEnd(s)]
    ELSE [s EXCEPT !.wake = IF s.back + taken > 0 THEN "told" ELSE @, !.back = @ + taken, !.unread = @ - taken]

\* Mutant: using a handle leaves it told.
NotRearmed(wake) == wake

\* Using a handle re-arms its readiness.
Rearmed(wake) == IF wake = "told" THEN "armed" ELSE wake
-----------------------------------------------------------------------------
\* The hooks of a step.

Ended ==
    LET dead == ended \cup {table[h].owner : h \in {k \in DOMAIN table : table[k].vital /\ HasEnded(table[k])}}
    IN  Doomed(dead) /\ Release(dead) /\ ended' = {} /\ UNCHANGED next

Notices == Told /\ table' = [h \in DOMAIN table |-> Swept(table[h])] /\ UNCHANGED <<next, offers, ended>>

Released(n) == Dies(n) /\ Release({n}) /\ ended' = ended \ {n} /\ UNCHANGED next
-----------------------------------------------------------------------------
\* The verbs.

Listen(n, vital, wake) ==
    /\ Calls(n) /\ Room /\ Cardinality(Listeners) < MaxListeners
    /\ Insert(Opened(n, "listener", vital, wake)) /\ UNCHANGED <<offers, ended>>

\* The backlog first, then the kernel's queue.
Accept(n, h, vital, wake) ==
    /\ Calls(n) /\ Is(n, h, "listener") /\ table[h].back + table[h].unread > 0
    /\ LET s == table[h]
           left == [s EXCEPT !.wake = Rearmed(@), !.back = @ - Least(s.back, 1),
                             !.unread = IF s.back > 0 THEN @ ELSE @ - 1]
       IN  table' = With([table EXCEPT ![h] = left], next, Opened(n, "stream", vital, wake))
    /\ next' = next + 1 /\ UNCHANGED <<offers, ended>>

Read(n, h) ==
    /\ Calls(n) /\ Is(n, h, "stream") /\ (table[h].unread > 0 \/ table[h].fin)
    /\ table' = [table EXCEPT ![h].unread = @ - Least(@, 1), ![h].eof = AtEnd(table[h]), ![h].wake = Rearmed(@)]
    /\ UNCHANGED <<next, offers, ended>>

\* Mutant: close leaves the offer of what it closed.
CloseOffered(n, h) ==
    /\ Calls(n) /\ Holds(n, h) /\ table' = Without({h})
    /\ ended' = IF table[h].vital THEN ended \cup {n} ELSE ended
    /\ UNCHANGED <<next, offers>>

\* Mutant: close does not report the owner of a vital handle.
CloseQuiet(n, h) ==
    /\ Calls(n) /\ Holds(n, h) /\ table' = Without({h}) /\ offers' = Withdrawn(n, h)
    /\ UNCHANGED <<next, ended>>

Close(n, h) ==
    /\ Calls(n) /\ Holds(n, h)
    /\ table' = Without({h}) /\ offers' = Withdrawn(n, h)
    /\ ended' = IF table[h].vital THEN ended \cup {n} ELSE ended
    /\ UNCHANGED next

Offer(n, to, h) == Calls(n) /\ Transfer(n, to, h) /\ UNCHANGED <<table, next, ended>>

\* The claimant's own flags, fresh, on a handle that keeps its number.
Claimed(s, n, vital, wake) == [s EXCEPT !.owner = n, !.vital = vital, !.wake = wake]
Claim(n, named, vital, wake) ==
    /\ Calls(n) /\ Addressed(n, named) # {}
    /\ LET i == Oldest(n, named)
           h == offers[i][3]
       IN  /\ offers' = Taken(i)
           /\ table' = IF Holds(offers[i][1], h) THEN [table EXCEPT ![h] = Claimed(@, n, vital, wake)] ELSE table
    /\ UNCHANGED <<next, ended>>
-----------------------------------------------------------------------------
\* The far end and the kernel.

Stays == UNCHANGED <<swarmVars, next, offers, ended>>

Arrives(h) ==
    /\ h \in DOMAIN table /\ ~table[h].fin /\ table[h].unread < MaxUnread
    /\ table[h].kind = "listener" => Room
    /\ table' = [table EXCEPT ![h].unread = @ + 1] /\ Stays

HangsUp(h) ==
    /\ h \in DOMAIN table /\ table[h].kind = "stream" /\ ~table[h].fin
    /\ table' = [table EXCEPT ![h].fin = TRUE] /\ Stays

Flags == BOOLEAN \X {"off", "armed"}
Next ==
    \/ Ended \/ Notices \/ \E n \in Inst : Released(n)
    \/ \E n \in Inst, f \in Flags : Listen(n, f[1], f[2])
    \/ \E n \in Inst, h \in Handle :
         \/ Read(n, h) \/ Close(n, h)
         \/ \E m \in Inst : Offer(n, m, h)
         \/ \E f \in Flags : Accept(n, h, f[1], f[2])
    \/ \E n \in Inst, h \in 0..MaxHandle, f \in Flags : Claim(n, h, f[1], f[2])
    \/ \E h \in Handle : Arrives(h) \/ HangsUp(h)
-----------------------------------------------------------------------------
SockTypeOK == \A h \in DOMAIN table : table[h] \in Socket

\* A handle its owner was told of and has not used since still has something
\* for it: a connection to accept, bytes to read or the end to see
\* (Socket::became_ready, and the re-arming in accept, read and claim).
ToldTrue ==
    \A h \in DOMAIN table : table[h].wake = "told" =>
        IF table[h].kind = "listener" THEN table[h].back > 0 ELSE table[h].unread > 0 \/ table[h].fin
=============================================================================
