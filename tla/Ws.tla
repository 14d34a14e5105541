--------------------------------- MODULE Ws ---------------------------------
(***************************************************************************)
(* The WebSocket connector (connectors/ws): one handle and one task per    *)
(* connection.  The task dials, shakes hands and pumps frames; it and the  *)
(* calls share the state, the inbox and a Notify, and the task outlives    *)
(* the handle until it has closed the connection.                          *)
(***************************************************************************)
EXTENDS Owners

CONSTANTS INBOX_MAX,   \* messages held for the owner before the task stops reading
          OUTBOX_MAX,  \* messages the owner may have waiting for the wire
          MaxFrames,   \* bound: frames the far end sends per connection
          MaxTasks     \* bound: connections of a behaviour

VARIABLE tasks         \* handle -> its connection task and what it shares

Conn == [owner : Inst, vital : BOOLEAN, wake : {"off", "armed", "told"}, seen : BOOLEAN]

\* asked is whether connect waits for its answer; at is where the task is: before the select, or in it with what it saw of
\* the inbox in full.  permit is the Notify; wire the frames not yet read.
Task == [st : {"connecting", "open", "failed", "closed"}, at : {"look", "select"},
         full : BOOLEAN, permit : BOOLEAN, inbox : 0..INBOX_MAX, out : 0..OUTBOX_MAX,
         closing : BOOLEAN, wire : 0..MaxFrames,
         asked : BOOLEAN, sent : 0..MaxFrames, far : {"open", "fin"}]

NewTask == [st |-> "connecting", at |-> "look", full |-> FALSE, permit |-> FALSE, inbox |-> 0,
            out |-> 0, closing |-> FALSE, asked |-> TRUE, wire |-> 0, sent |-> 0, far |-> "open"]

HasEnded(h)  == tasks[h].st \in {"failed", "closed"}
Ready(h)     == tasks[h].inbox > 0 \/ HasEnded(h)
BecomesReady(h) == table[h].wake = "armed" /\ ~table[h].seen /\ Ready(h)
-----------------------------------------------------------------------------
\* The hooks of a step.

Ended ==
    LET dead == ended \cup {table[h].owner : h \in {k \in DOMAIN table : table[k].vital /\ HasEnded(k)}}
    IN  Doomed(dead) /\ Release(dead) /\ ended' = {} /\ UNCHANGED <<next, tasks>>

Notices ==
    /\ Told
    /\ table' = [h \in DOMAIN table |-> [table[h] EXCEPT !.wake = IF BecomesReady(h) THEN "told" ELSE @]]
    /\ UNCHANGED <<next, offers, ended, tasks>>

Released(n) == Dies(n) /\ Release({n}) /\ ended' = ended \ {n} /\ UNCHANGED <<next, tasks>>
-----------------------------------------------------------------------------
\* The verbs.

\* connect spawns the task and has a handle before there is an answer.
Connect(n, vital, wake) ==
    /\ Calls(n) /\ next <= MaxTasks
    /\ Insert([owner |-> n, vital |-> vital, wake |-> wake, seen |-> FALSE])
    /\ tasks' = Append(tasks, NewTask) /\ UNCHANGED <<offers, ended>>

\* A connect that failed leaves nothing behind to close.
Connected(n, h) ==
    /\ Calls(n) /\ Holds(n, h) /\ tasks[h].asked /\ tasks[h].st # "connecting"
    /\ table' = IF tasks[h].st = "failed" THEN Without({h}) ELSE table
    /\ tasks' = [tasks EXCEPT ![h].asked = FALSE] /\ UNCHANGED <<next, offers, ended>>

Send(n, h) ==
    /\ Calls(n) /\ Holds(n, h) /\ tasks[h].st = "open" /\ tasks[h].out < OUTBOX_MAX
    /\ tasks' = [tasks EXCEPT ![h].out = @ + 1] /\ UNCHANGED heldVars

\* Mutant: recv takes the messages and tells nobody.
RecvQuiet(n, h) ==
    /\ Calls(n) /\ Holds(n, h) /\ Ready(h)
    /\ table' = [table EXCEPT ![h].wake = IF @ = "told" THEN "armed" ELSE @, ![h].seen = @ \/ HasEnded(h)]
    /\ tasks' = [tasks EXCEPT ![h].inbox = 0] /\ UNCHANGED <<next, offers, ended>>

\* Re-arms, takes the whole inbox, and tells a task that stopped reading.
Recv(n, h) ==
    /\ Calls(n) /\ Holds(n, h) /\ Ready(h)
    /\ table' = [table EXCEPT ![h].wake = IF @ = "told" THEN "armed" ELSE @, ![h].seen = @ \/ HasEnded(h)]
    /\ tasks' = [tasks EXCEPT ![h].inbox = 0, ![h].permit = @ \/ tasks[h].inbox >= INBOX_MAX]
    /\ UNCHANGED <<next, offers, ended>>

\* A close that finds the outbox full is not sent: dropping the sender then
\* closes the connection as if the owner had let go.
Close(n, h) ==
    /\ Calls(n) /\ Holds(n, h) /\ table' = Without({h})
    /\ ended' = IF table[h].vital THEN ended \cup {n} ELSE ended
    /\ tasks' = [tasks EXCEPT ![h].closing = tasks[h].out < OUTBOX_MAX, ![h].asked = FALSE]
    /\ UNCHANGED <<next, offers>>
-----------------------------------------------------------------------------
\* The connection task: run, handshake, pump.

Stays == UNCHANGED <<swarmVars, heldVars>>
Moves(h, new) == tasks' = [tasks EXCEPT ![h] = new] /\ Stays

Dialled(h, how) == tasks[h].st = "connecting" /\ Moves(h, [tasks[h] EXCEPT !.st = how])

\* The head of pump's loop reads the inbox's length; the select waits on it.
Looks(h) ==
    /\ tasks[h].st = "open" /\ tasks[h].at = "look"
    /\ Moves(h, [tasks[h] EXCEPT !.at = "select", !.full = tasks[h].inbox >= INBOX_MAX])

In(h) == tasks[h].st = "open" /\ tasks[h].at = "select"

ReadsFrame(h) ==
    /\ In(h) /\ ~tasks[h].full /\ tasks[h].wire > 0
    /\ Moves(h, [tasks[h] EXCEPT !.wire = @ - 1, !.inbox = @ + 1, !.at = "look"])

SeesEnd(h) ==
    /\ In(h) /\ ~tasks[h].full /\ tasks[h].wire = 0 /\ tasks[h].far = "fin"
    /\ Moves(h, [tasks[h] EXCEPT !.st = "closed"])

Drained(h) ==
    /\ In(h) /\ tasks[h].full /\ tasks[h].permit
    /\ Moves(h, [tasks[h] EXCEPT !.permit = FALSE, !.at = "look"])

SendsOne(h) ==
    /\ In(h) /\ tasks[h].out > 0
    /\ \/ Moves(h, [tasks[h] EXCEPT !.out = @ - 1, !.at = "look"])
       \/ tasks[h].far = "fin" /\ Moves(h, [tasks[h] EXCEPT !.out = @ - 1, !.st = "closed"])

\* The owner's close, or its sender dropped: behind what it sent before.
LetGo(h) ==
    /\ In(h) /\ tasks[h].out = 0 /\ (tasks[h].closing \/ h \notin DOMAIN table)
    /\ Moves(h, [tasks[h] EXCEPT !.st = "closed"])

\* No frame for idle_ms, for a connection opened with it.
Idle(h) == In(h) /\ Moves(h, [tasks[h] EXCEPT !.st = "closed"])

\* The far end.
Frame(h) ==
    /\ tasks[h].st = "open" /\ tasks[h].far = "open" /\ tasks[h].sent < MaxFrames
    /\ Moves(h, [tasks[h] EXCEPT !.sent = @ + 1, !.wire = @ + 1])
Leaves(h) == tasks[h].st = "open" /\ tasks[h].far = "open" /\ Moves(h, [tasks[h] EXCEPT !.far = "fin"])

WsInit == OwnersInit /\ tasks = <<>>

Runs(h)  == Looks(h) \/ ReadsFrame(h) \/ SeesEnd(h) \/ Drained(h) \/ SendsOne(h) \/ LetGo(h)
Dials(h) == Dialled(h, "open") \/ Dialled(h, "failed")

Next ==
    \/ Ended \/ Notices \/ \E n \in Inst : Released(n)
    \/ \E n \in Inst, v \in BOOLEAN, w \in {"off", "armed"} : Connect(n, v, w)
    \/ \E n \in Inst, h \in Handle : Connected(n, h) \/ Send(n, h) \/ Recv(n, h) \/ Close(n, h)
    \/ \E h \in DOMAIN tasks : Runs(h) \/ Dials(h) \/ Idle(h) \/ Frame(h) \/ Leaves(h)
-----------------------------------------------------------------------------
WsTypeOK ==
    /\ \A h \in DOMAIN table : table[h] \in Conn
    /\ DOMAIN tasks \subseteq Handle /\ \A h \in DOMAIN tasks : tasks[h] \in Task

\* A told handle still has a message or the close for its owner
\* (Conn::became_ready, the re-arming in recv).
ToldTrue == \A h \in DOMAIN table : table[h].wake = "told" => Ready(h)

\* A task that stopped reading because the inbox was full is told when the
\* owner takes the messages, also when that falls between its look at the
\* inbox and its wait: it never waits on a full inbox that is empty with no
\* permit stored (recv's notify_one, pump's select).
NoLostDrain ==
    \A h \in DOMAIN tasks :
        In(h) /\ tasks[h].full /\ tasks[h].inbox = 0 => tasks[h].permit
=============================================================================
