------------------------------ MODULE Forward ------------------------------
(***************************************************************************)
(* Calls made for somebody: the session a call role gets, direct or        *)
(* through a relay or a fallback (session, reach, through and run in       *)
(* p2p/call.rs), the relay's half of it (on_control, on_call, on_wisp and  *)
(* on_internal of a Session with Forward::Relay, drt-rtc/src/host.rs) and  *)
(* the one call a `drt://` forward makes for all of its streams            *)
(* (PeerService in p2p/serve.rs).                                          *)
(*                                                                         *)
(* Wisp packets are numbered in the order the caller sends them.  The      *)
(* relay's loop hears from the task that calls the destination through one *)
(* queue.                                                                  *)
(***************************************************************************)
EXTENDS Integers, Sequences, FiniteSets

CONSTANTS Modes,       \* of {"direct", "relay", "fallback", "serve"}: how the process calls, or that it serves
          Opens,       \* streams that arrive for the forwarded peer
          MaxPackets   \* bound: packets the caller sends, and chunks the far side says

VARIABLES role,     \* the call role: how it is to call, where it stands, how it got through
          wire,     \* what the caller has sent its relay: 0, the call message, or a packet
          relay,    \* the relay's session with the caller
          task,     \* the relay's task that calls the destination, and what it told the loop
          dest,     \* packets the destination was sent
          opens,    \* stream -> its PeerService::open
          lock,     \* the stream that holds PeerInner::call, or "nobody"
          held,     \* the call in it: 0 for none, or its number
          alive     \* numbers of the calls still up

peerVars == <<opens, lock, held, alive>>
relayVars == <<wire, relay, task, dest>>
vars == <<role, wire, relay, task, dest, opens, lock, held, alive>>
-----------------------------------------------------------------------------
\* session and reach.

Goes(st) == role' = [role EXCEPT !.st = st]

\* connect: the answerer's record refused or of another fingerprint, no
\* path, or a session.  A fallback is taken whatever went wrong.
Reach ==
    /\ role.st = "start" /\ role.mode \in {"direct", "fallback"} /\ UNCHANGED <<relayVars, peerVars>>
    /\ \/ role' = [role EXCEPT !.st = "up", !.via = "direct"]
       \/ \E why \in {"refused", "fingerprint", "no_path"} :
            role' = [role EXCEPT !.why = why, !.st = IF role.mode = "fallback" THEN "through" ELSE "failed"]

\* through: the relay is called as any peer; one that forwards is told the
\* destination.
Through ==
    /\ role.st = "through" \/ (role.st = "start" /\ role.mode = "relay")
    /\ UNCHANGED <<task, dest, peerVars>>
    /\ \/ Goes("failed") /\ UNCHANGED <<wire, relay>>
       \/ Goes("naming") /\ wire' = Append(wire, 0) /\ relay' = [relay EXCEPT !.st = "idle"]

\* A caller need not wait to be told: a stream it opens meanwhile waits.
SendPacket ==
    /\ role.st = "naming" \/ (role.via = "carrier" /\ role.st \in {"up", "draining"})
    /\ role.sent < MaxPackets /\ relay.st # "over"
    /\ role' = [role EXCEPT !.sent = @ + 1] /\ wire' = Append(wire, role.sent + 1)
    /\ UNCHANGED <<relay, task, dest, peerVars>>

\* next_control: called, failed, the session's end, or the timeout.
Told ==
    /\ role.st = "naming" /\ UNCHANGED <<wire, task, dest, peerVars>>
    /\ \/ /\ relay.told = "called" /\ role' = [role EXCEPT !.st = "up", !.via = "carrier"] /\ UNCHANGED relay
       \/ /\ relay.told # "called" /\ Goes("failed") /\ relay' = [relay EXCEPT !.st = "over"]
-----------------------------------------------------------------------------
\* The relay: one message of the caller's, or of its own task.

RelayReceives ==
    /\ wire # <<>> /\ wire' = Tail(wire) /\ UNCHANGED <<role, peerVars>>
    /\ LET m == Head(wire) IN
       \/ relay.st = "over" /\ UNCHANGED <<relay, task, dest>>
       \/ /\ relay.st = "idle" /\ m = 0 /\ relay' = [relay EXCEPT !.st = "calling"]
          /\ task' = [task EXCEPT !.st = "calling"] /\ UNCHANGED dest
       \/ /\ relay.st = "calling" /\ m # 0 /\ relay' = [relay EXCEPT !.waiting = Append(@, m)]
          /\ UNCHANGED <<task, dest>>
       \/ relay.st = "up" /\ m # 0 /\ dest' = Append(dest, m) /\ UNCHANGED <<relay, task>>

\* The task: the destination's call, its packets, its end.
Says(m, st) == task' = [task EXCEPT !.st = st, !.said = Append(@, m)]
RelayTask ==
    /\ UNCHANGED <<role, wire, relay, dest, peerVars>>
    /\ \/ task.st = "calling" /\ (Says("failed", "over") \/ Says("up", "up"))
       \/ task.st = "up" /\ Says("done", "over")

\* Mutant: packets that waited are sent after those that come next.
OnRelayUpLate == relay' = [relay EXCEPT !.st = "up", !.told = "called"] /\ UNCHANGED dest

OnRelayUp ==
    /\ relay' = [relay EXCEPT !.st = "up", !.told = "called", !.waiting = <<>>]
    /\ dest' = dest \o relay.waiting

RelayHears ==
    /\ task.said # <<>> /\ task' = [task EXCEPT !.said = Tail(@)] /\ UNCHANGED <<role, wire, peerVars>>
    /\ LET m == Head(task.said) IN
       \/ relay.st = "over" /\ UNCHANGED <<relay, dest>>
       \/ relay.st # "over" /\ m = "up" /\ OnRelayUp
       \/ relay.st # "over" /\ m = "failed" /\ relay' = [relay EXCEPT !.st = "over", !.told = "failed"] /\ UNCHANGED dest
       \/ relay.st # "over" /\ m = "done" /\ relay' = [relay EXCEPT !.st = "over"] /\ UNCHANGED dest
-----------------------------------------------------------------------------
\* run, once the session is up: stdin, stdout and the far side's answer.

FarSays ==
    /\ role.st \in {"up", "draining"} /\ ~role.ended /\ UNCHANGED <<relayVars, peerVars>>
    /\ \/ role.far < MaxPackets /\ role' = [role EXCEPT !.far = @ + 1]
       \/ role' = [role EXCEPT !.ended = TRUE]

StdinEnds == role.st = "up" /\ Goes("draining") /\ UNCHANGED <<relayVars, peerVars>>

Down == /\ role.st \in {"up", "draining"} /\ role.got < role.far
        /\ role' = [role EXCEPT !.got = @ + 1] /\ UNCHANGED <<relayVars, peerVars>>

\* Mutant: stdin's end is given the grace, whatever the far side understands.
ReturnsGrace ==
    /\ UNCHANGED <<relayVars, peerVars>>
    /\ \/ role.st \in {"up", "draining"} /\ role.got = role.far /\ role.ended /\ Goes("done")
       \/ role.st = "draining" /\ Goes("done")

\* The far side's end, and, for one without half-close, EOF_GRACE after
\* stdin's.
Returns ==
    /\ UNCHANGED <<relayVars, peerVars>>
    /\ \/ role.st \in {"up", "draining"} /\ role.got = role.far /\ role.ended /\ Goes("done")
       \/ role.st = "draining" /\ ~role.half /\ Goes("done")
-----------------------------------------------------------------------------
\* PeerService::open: the lock is held across the whole open.

Sets(k, st) == opens' = [opens EXCEPT ![k] = st]
Unlocks(k, st) == Sets(k, st) /\ lock' = "nobody"

TakeLock(k) ==
    /\ role.mode = "serve" /\ opens[k] = "idle" /\ lock = "nobody" /\ lock' = k /\ Sets(k, "first")
    /\ UNCHANGED <<role, relayVars, held, alive>>

\* call::connect, once per attempt that finds no call.
Calling(k) ==
    /\ lock = k /\ held = 0 /\ opens[k] \in {"first", "second"} /\ UNCHANGED <<role, relayVars>>
    /\ \/ Unlocks(k, "failed") /\ UNCHANGED <<held, alive>>
       \/ \E n \in 1..(2 * Cardinality(Opens)) :
            /\ n \notin alive /\ held' = n /\ alive' = alive \cup {n} /\ UNCHANGED <<opens, lock>>

\* Mutant: a call a stream could not be opened on is let go, ended or not.
OpenOnAnyError(k) ==
    /\ lock = k /\ held # 0 /\ UNCHANGED <<role, relayVars, alive>>
    /\ \/ held \in alive /\ Unlocks(k, "open") /\ UNCHANGED held
       \/ opens[k] = "first" /\ held' = 0 /\ Sets(k, "second") /\ UNCHANGED lock

\* current.open: the session may have ended since; called again, once.
OpenOn(k) ==
    /\ lock = k /\ held # 0 /\ UNCHANGED <<role, relayVars, alive>>
    /\ \/ held \in alive /\ Unlocks(k, "open") /\ UNCHANGED held
       \/ held \notin alive /\ opens[k] = "first" /\ held' = 0 /\ Sets(k, "second") /\ UNCHANGED lock
       \/ held \notin alive /\ opens[k] = "second" /\ Unlocks(k, "failed") /\ UNCHANGED held

\* The stream goes while it is being opened: its task is aborted, and the
\* guard it holds with it.
Aborted(k) == lock = k /\ Unlocks(k, "failed") /\ UNCHANGED <<role, relayVars, held, alive>>

CallEnds == (\E n \in alive : alive' = alive \ {n}) /\ UNCHANGED <<role, relayVars, opens, lock, held>>
-----------------------------------------------------------------------------
Init ==
    /\ role \in [mode : Modes, half : BOOLEAN, st : {"start"}, via : {"none"}, why : {"none"},
                 sent : {0}, far : {0}, got : {0}, ended : {FALSE}]
    /\ wire = <<>> /\ relay = [st |-> "none", waiting |-> <<>>, told |-> "nothing"]
    /\ task = [st |-> "none", said |-> <<>>] /\ dest = <<>>
    /\ opens = [k \in Opens |-> "idle"] /\ lock = "nobody" /\ held = 0 /\ alive = {}

CallRole == Reach \/ Through \/ SendPacket \/ Told \/ FarSays \/ StdinEnds \/ Down \/ Returns
Relaying == RelayReceives \/ RelayTask \/ RelayHears
Forwarding == CallEnds \/ \E k \in Opens : TakeLock(k) \/ Calling(k) \/ OpenOn(k) \/ Aborted(k)

Next == CallRole \/ Relaying \/ Forwarding
Spec == Init /\ [][Next]_vars
-----------------------------------------------------------------------------
\* "Two streams arriving at once make one call between them": at most one
\* call of the forwarded peer is up, however calls end (PeerService::open).
OneCall == Cardinality(alive) <= 1

\* The destination is sent the caller's packets, all of them from the first
\* and in order, those that came before it answered too (on_wisp, RelayUp).
Mirrored == \A i \in DOMAIN dest : dest[i] = i

\* A far side that understands half-close is heard to its end after stdin's
\* (run).
AnswerHeard == role.st = "done" /\ role.half => role.ended /\ role.got = role.far

\* "through its fallback once no direct path was found" (session).
FallbackOnNoPath == role.mode = "fallback" /\ role.via = "carrier" => role.why = "no_path"
=============================================================================
