------------------------------- MODULE Serve -------------------------------
(***************************************************************************)
(* The drive loop of `drt start` with listeners (serve_with_observer in    *)
(* crates/drt/src/start.rs): step the swarm, pump the replies, retry what  *)
(* is held for a queue that does not exist yet, take the operator's        *)
(* orders, then wait for requests.  The root program runs only inside the  *)
(* step.  There is one listener.                                           *)
(***************************************************************************)
EXTENDS Listen

CONSTANTS QueueCap,   \* the request queue's limit, and bound: replies in the guest
          MaxOwed     \* bound: replies on their way to one connection

ASSUME ServeAssumption == {QueueCap, MaxOwed} \subseteq Nat \ {0}

VARIABLES pc,       \* where the loop is
          left,     \* entries of held this pass has yet to look at
          held,     \* requests whose queue does not exist yet
          root,     \* the root: booting (no queue), serving, or gone
          queue,    \* the request queue
          replies   \* the reply queue

loopVars == <<pc, left, held>>
rootVars == <<root, queue, replies>>
connVars == <<conn, ingress, clock>>
vars == <<loopVars, rootVars, connVars, rt, down>>

Goto(p) == pc' = p
-----------------------------------------------------------------------------
\* The step: what the root program may do in it.

InStep == pc = "step" /\ UNCHANGED <<loopVars, connVars, down>>

Declare == InStep /\ root = "booting" /\ root' = "serving" /\ UNCHANGED <<queue, replies>>

Pop ==
    /\ pc = "step" /\ queue # <<>> /\ queue' = Tail(queue) /\ UNCHANGED <<loopVars, root, replies, ingress, clock, down>>
    /\ Goes(Head(queue).conn, [conn[Head(queue).conn] EXCEPT
                                 !.prog = IF Head(queue).what = "closed" THEN "told" ELSE "asked"])

OnItsWay(c) == Len(conn[c].owed) + Cardinality({i \in DOMAIN replies : replies[i][1] = c})

Reply(c, o) ==
    /\ InStep /\ root = "serving" /\ conn[c].prog # "new"
    /\ Len(replies) < QueueCap /\ OnItsWay(c) < MaxOwed
    /\ replies' = Append(replies, <<c, o>>) /\ UNCHANGED <<root, queue>>

Exit == InStep /\ root # "gone" /\ root' = "gone" /\ queue' = <<>> /\ replies' = <<>>

StepDone == pc = "step" /\ Goto("replies") /\ UNCHANGED <<left, held, rootVars, connVars, down>>
-----------------------------------------------------------------------------
\* pump_replies: a reply that names nobody is consumed all the same.

PumpReply ==
    /\ pc = "replies" /\ replies # <<>> /\ replies' = Tail(replies)
    /\ Answer(Head(replies)[1], Head(replies)[2])
    /\ UNCHANGED <<loopVars, root, queue, down>>

Pumped ==
    /\ pc = "replies" /\ replies = <<>> /\ Goto("held") /\ left' = Len(held)
    /\ UNCHANGED <<held, rootVars, connVars, down>>
-----------------------------------------------------------------------------
\* deliver: onto the root's queue, or refused on the program's behalf; a
\* queue that does not exist yet is neither.

Unknown   == root = "booting"
Refuse(c) == Goes(c, Answered(c, "whole")) /\ UNCHANGED rootVars
Deliver(m) ==
    IF root = "serving" /\ Len(queue) < QueueCap
    THEN queue' = Append(queue, m) /\ UNCHANGED <<root, replies, conn>>
    ELSE Refuse(m.conn)

Reg(h) == conn[h.m.conn].reg

\* Mutant: what is due is put back like the rest.
RetryForever(h) ==
    \/ ~Reg(h) /\ held' = Tail(held) /\ UNCHANGED <<rootVars, conn>>
    \/ Reg(h) /\ ~Unknown /\ held' = Tail(held) /\ Deliver(h.m)
    \/ Reg(h) /\ Unknown /\ held' = Append(Tail(held), h) /\ UNCHANGED <<rootVars, conn>>

\* retry_held, oldest first: a request whose connection has given up is
\* dropped, one that can be delivered is, and one that is due is refused.
RetryOne(h) ==
    \/ ~Reg(h) /\ held' = Tail(held) /\ UNCHANGED <<rootVars, conn>>
    \/ Reg(h) /\ ~Unknown /\ held' = Tail(held) /\ Deliver(h.m)
    \/ Reg(h) /\ Unknown /\ h.due /\ held' = Tail(held) /\ Refuse(h.m.conn)
    \/ Reg(h) /\ Unknown /\ ~h.due /\ held' = Append(Tail(held), h) /\ UNCHANGED <<rootVars, conn>>

Retry   == pc = "held" /\ left > 0 /\ left' = left - 1 /\ RetryOne(Head(held)) /\ Quiet /\ UNCHANGED <<pc, down>>
Retried == pc = "held" /\ left = 0 /\ Goto("orders") /\ UNCHANGED <<left, held, rootVars, connVars, down>>

\* Time passes: the grace of a held request is over.
GraceOver(i) ==
    /\ i \in DOMAIN held /\ ~held[i].due /\ held' = [held EXCEPT ![i].due = TRUE]
    /\ UNCHANGED <<pc, left, rootVars, connVars, down>>
-----------------------------------------------------------------------------
\* control::drain, the exit, and the wait for a request.

\* The root has ended or an operator says stop: what is held is answered.
Leave ==
    /\ pc = "orders" /\ Goto("down") /\ down' = TRUE /\ held' = <<>>
    /\ conn' = [c \in Conn |-> IF \E i \in DOMAIN held : held[i].m.conn = c THEN Answered(c, "whole") ELSE conn[c]]
    /\ Quiet /\ UNCHANGED <<left, rootVars>>

Orders == pc = "orders" /\ root # "gone" /\ Goto("wait") /\ UNCHANGED <<left, held, rootVars, connVars, down>>

\* Mutant: the newest is held in front.
HoldFront(m) ==
    IF rt.grace THEN held' = <<[m |-> m, due |-> FALSE]>> \o held /\ UNCHANGED <<rootVars, conn>>
    ELSE UNCHANGED held /\ Refuse(m.conn)

\* hold: with no grace the request is refused on the spot.
Hold(m) ==
    IF rt.grace THEN held' = Append(held, [m |-> m, due |-> FALSE]) /\ UNCHANGED <<rootVars, conn>>
    ELSE UNCHANGED held /\ Refuse(m.conn)

\* next_within, and try_next until there is none.
Admit ==
    /\ pc \in {"wait", "more"} /\ ingress # <<>> /\ Goto("more")
    /\ ingress' = Tail(ingress) /\ UNCHANGED <<left, clock, down>>
    /\ IF Unknown THEN Hold(Head(ingress)) ELSE UNCHANGED held /\ Deliver(Head(ingress))

\* The wait ends with its time; the loop of try_next with an empty channel.
Waited ==
    /\ pc = "wait" \/ (pc = "more" /\ ingress = <<>>)
    /\ Goto("step") /\ UNCHANGED <<left, held, rootVars, connVars, down>>
-----------------------------------------------------------------------------
Init ==
    ListenInit /\ pc = "step" /\ left = 0 /\ held = <<>> /\ root = "booting" /\ queue = <<>> /\ replies = <<>>

Program == Declare \/ Pop \/ Exit \/ \E c \in Conn, o \in Outcome : Reply(c, o)
Loop == StepDone \/ PumpReply \/ Pumped \/ Retry \/ Retried \/ Leave \/ Orders \/ Admit \/ Waited

Next ==
    /\ UNCHANGED rt
    /\ \/ Program \/ Loop \/ \E i \in DOMAIN held : GraceOver(i)
       \/ Connections(pc \in {"wait", "more"}) /\ UNCHANGED <<loopVars, rootVars, down>>

Spec == Init /\ [][Next]_vars

\* The loop is a thread of its own and its waits are bounded; clocks run.
FairSpec ==
    /\ Spec /\ WF_vars(Loop /\ UNCHANGED rt)
    /\ WF_vars(\E i \in DOMAIN held : GraceOver(i) /\ UNCHANGED rt)

\* Both kinds of listener, at a limit of one connection and of two.
SmallRuntimes ==
    LET listener(kind, n, grace) == [kind |-> kind, maxConns |-> n, grace |-> grace] IN
    {listener("threaded", 2, TRUE), listener("polled", 2, TRUE), listener("threaded", 1, FALSE), listener("polled", 1, TRUE)}
-----------------------------------------------------------------------------
\* Types; no more connections are served than max_conns, and the queue stays
\* within its cap (spawn_acceptor, Bound::poll, deliver).
TypeOK ==
    /\ rt \in Runtimes /\ conn \in [Conn -> Record] /\ root \in {"booting", "serving", "gone"}
    /\ pc \in {"step", "replies", "held", "orders", "wait", "more", "down"} /\ left \in 0..Len(held)
    /\ Len(queue) <= QueueCap /\ Cardinality(Counted) <= rt.maxConns

\* A connection gets one response, whole or a head and its chunks, whatever
\* the program, the deadlines and the host send it; and when it is over its
\* token names nobody (serve_conn, Bound::poll, Acceptor::answer).
OneResponse ==
    \A c \in Conn : conn[c].resp # "garbled" /\ (conn[c].st = "done" => ~conn[c].reg)

\* Where the program's notice of c is: on its way, or read.
Notice(m, c) == m.conn = c /\ m.what = "closed"
Notices(c) ==
    {<<"ingress", i>> : i \in {j \in DOMAIN ingress : Notice(ingress[j], c)}}
    \cup {<<"held", i>> : i \in {j \in DOMAIN held : Notice(held[j].m, c)}}
    \cup {<<"queue", i>> : i \in {j \in DOMAIN queue : Notice(queue[j], c)}}
    \cup (IF conn[c].prog = "told" THEN {<<"read", 0>>} ELSE {})

\* The program is told at most once that a stream was closed, never of one
\* whose last chunk was written, and by then nothing it sends finds the
\* connection (closed_message; "Deregister before telling the program").
NoticeTrue ==
    \A c \in Conn : Notices(c) # {} =>
        (\A p, q \in Notices(c) : p = q) /\ ~conn[c].reg /\ conn[c].resp \in {"none", "open"}

\* Requests and notices reach the program in the order they arrived, each
\* once, held or not: nothing older is left behind (retry_held before the
\* wait, "Oldest first, and every pass").
InOrder ==
    [][Len(queue') > Len(queue) =>
         /\ \A i \in DOMAIN held' : held'[i].m.at > queue'[Len(queue')].at
         /\ \A i \in DOMAIN ingress' : ingress'[i].at > queue'[Len(queue')].at
         /\ \A i \in DOMAIN queue : queue[i].at < queue'[Len(queue')].at]_vars

\* What is held is delivered, refused or dropped in the end: nothing is put
\* back for ever (retry_held, Held::until).
HeldSettles ==
    \A c \in Conn : (\E i \in DOMAIN held : held[i].m.conn = c /\ held[i].m.what = "request")
        ~> ~(\E i \in DOMAIN held : held[i].m.conn = c /\ held[i].m.what = "request")
=============================================================================
