----------------------------- MODULE Wireguard -----------------------------
(***************************************************************************)
(* The WireGuard device's loop (drive in crates/drt/src/wireguard.rs) with *)
(* the TURN allocation its transport may send through (Sender, Receiver).  *)
(*                                                                         *)
(* The loop awaits between taking a command, looking at the allocation and *)
(* reading the device's peers; the device's own tasks run in between:      *)
(* packets move endpoints, handshakes complete, a send through an          *)
(* allocation that fails drops it.  A report is modelled by what the       *)
(* program knows once it has it.                                           *)
(***************************************************************************)
EXTENDS Integers, Sequences, FiniteSets

CONSTANTS Keys,          \* peers' public keys
          Addrs,         \* endpoints, as positive numbers
          MaxCommands,   \* bound: commands the program gives
          MaxAllocs      \* bound: allocations taken

VARIABLES peers,      \* the device's peers: key -> entry
          last,       \* drive's last snapshot
          dev,        \* "up", or "suspended"
          alloc,      \* the allocation installed: 0 or its number
          clones,     \* allocations that senders are sending through
          taken,      \* allocations taken so far
          relaying,   \* was one installed, at the last look
          pc,         \* where the loop stands
          cmd,        \* the command in hand, and how many came
          told        \* what the reports have told the program

vars == <<peers, last, dev, alloc, clones, taken, relaying, pc, cmd, told>>
devVars == <<peers, dev>>

Absent == [in |-> FALSE, ep |-> 0, hs |-> FALSE]
Entry  == [in : BOOLEAN, ep : Addrs \cup {0}, hs : BOOLEAN]
Op     == {"endpoint", "clear", "keepalive", "add", "remove", "relay", "clear_relay", "remap"}
-----------------------------------------------------------------------------
\* The device's own tasks.

\* A packet that authenticates moves its peer's endpoint; a handshake ends.
Packet(k, a) ==
    /\ dev = "up" /\ peers[k].in /\ peers' = [peers EXCEPT ![k].ep = a, ![k].hs = TRUE]
    /\ UNCHANGED <<last, dev, alloc, clones, taken, relaying, pc, cmd, told>>

\* Sender::send_to: the allocation is cloned, then awaited; one that fails
\* clears whatever is installed by then.
SendVia ==
    /\ alloc # 0 /\ alloc \notin clones /\ clones' = clones \cup {alloc}
    /\ UNCHANGED <<devVars, last, alloc, taken, relaying, pc, cmd, told>>
SendDone(g) ==
    /\ g \in clones /\ clones' = clones \ {g} /\ alloc' \in {alloc, 0}
    /\ UNCHANGED <<devVars, last, taken, relaying, pc, cmd, told>>
-----------------------------------------------------------------------------
\* drive: a pass takes a command or the watch's tick.

Tick == /\ pc = "select" /\ pc' = "look" /\ cmd' = [cmd EXCEPT !.asked = FALSE]
        /\ UNCHANGED <<devVars, last, alloc, clones, taken, relaying, told>>

Take(op, k, a) ==
    /\ pc = "select" /\ cmd.n < MaxCommands /\ cmd' = [asked |-> TRUE, op |-> op, k |-> k, a |-> a, n |-> cmd.n + 1]
    /\ pc' = CASE op = "remap" -> "remap" [] op \in {"relay", "clear_relay"} -> "relay" [] OTHER -> "apply"
    /\ UNCHANGED <<devVars, last, alloc, clones, taken, relaying, told>>

\* apply: a peer command done, or refused; a refusal ends the pass.  The
\* first peer has the device rebuild its connection.
Empty == \A k \in Keys : ~peers[k].in

Applied(k) ==
    CASE cmd.op = "endpoint"  -> [peers[k] EXCEPT !.ep = cmd.a]
      [] cmd.op = "clear"     -> [peers[k] EXCEPT !.ep = 0]
      [] cmd.op = "keepalive" -> peers[k]
      [] cmd.op = "add"       -> [peers[k] EXCEPT !.in = TRUE, !.ep = IF cmd.a = 0 THEN @ ELSE cmd.a]
      [] cmd.op = "remove"    -> Absent

Apply ==
    /\ pc = "apply" /\ UNCHANGED <<last, alloc, clones, taken, relaying, cmd>>
    /\ LET k == cmd.k IN
       \/ /\ peers[k].in \/ cmd.op = "add"
          /\ peers' = [peers EXCEPT ![k] = Applied(k)]
          /\ \/ ~(cmd.op = "add" /\ Empty) /\ pc' = "look" /\ UNCHANGED <<dev, told>>
             \/ cmd.op = "add" /\ Empty /\ pc' = "look" /\ dev' = "up" /\ told' = [told EXCEPT !.down = FALSE]
             \/ cmd.op = "add" /\ Empty /\ pc' = "select" /\ dev' = "suspended" /\ told' = [told EXCEPT !.down = TRUE]
       \/ ~peers[k].in /\ cmd.op # "add" /\ pc' = "select" /\ UNCHANGED <<devVars, told>>

\* Mutant: a relay command leaves the loop's idea of the relay behind.
BaselineStays(installed) == UNCHANGED relaying

\* "Take the new state as the baseline before going round again."
Baseline(installed) == relaying' = (installed # 0)

\* relay: allocate, which may be refused, or clear.
Relay ==
    /\ pc = "relay" /\ pc' = "select" /\ UNCHANGED <<devVars, last, clones, cmd>>
    /\ \/ /\ cmd.op = "clear_relay" /\ alloc' = 0 /\ told' = [told EXCEPT !.relay = "direct"] /\ UNCHANGED taken
       \/ /\ cmd.op = "relay" /\ taken < MaxAllocs /\ taken' = taken + 1 /\ alloc' = taken + 1
          /\ told' = [told EXCEPT !.relay = "via"]
       \/ cmd.op = "relay" /\ UNCHANGED <<alloc, taken, told>>
    /\ Baseline(alloc')

\* remap: refused when there is nothing to ask; or the device is suspended
\* while its port is measured, and resumed whatever the measurement did.
RemapSuspends ==
    /\ pc = "remap" /\ UNCHANGED <<peers, last, alloc, clones, taken, relaying, cmd, told>>
    /\ \/ pc' = "select" /\ UNCHANGED dev
       \/ pc' = "measure" /\ dev' = "suspended"

\* Mutant: a measurement that failed is reported at once.
RemapReturnsEarly ==
    /\ pc = "measure" /\ pc' = "select" /\ UNCHANGED <<last, alloc, clones, taken, relaying, cmd>>
    /\ \/ dev' = "up" /\ peers' = [k \in Keys |-> [peers[k] EXCEPT !.hs = FALSE]] /\ told' = [told EXCEPT !.down = FALSE]
       \/ UNCHANGED <<devVars, told>>

RemapResumes ==
    /\ pc = "measure" /\ pc' = "select" /\ UNCHANGED <<last, alloc, clones, taken, relaying, cmd>>
    /\ \/ dev' = "up" /\ peers' = [k \in Keys |-> [peers[k] EXCEPT !.hs = FALSE]] /\ told' = [told EXCEPT !.down = FALSE]
       \/ UNCHANGED devVars /\ told' = [told EXCEPT !.down = TRUE]

\* "did the relay go away without being asked?"
Look ==
    /\ pc = "look" /\ pc' = "report" /\ relaying' = (alloc # 0)
    /\ told' = IF relaying /\ alloc = 0 /\ ~cmd.asked THEN [told EXCEPT !.relay = "lost"] ELSE told
    /\ UNCHANGED <<devVars, last, alloc, clones, taken, cmd>>

\* announce: who moved, and whether anything is worth an early report.
Roamed == {k \in Keys : last[k].in /\ peers[k].in /\ last[k].ep # peers[k].ep}
Count(snap) == Cardinality({k \in Keys : snap[k].in})

\* Mutant: only a first handshake, or another number of peers, is notable.
NotableFew == (\E k \in Keys : last[k].in /\ ~last[k].hs /\ peers[k].hs) \/ Count(peers) # Count(last)

Notable ==
    \/ Roamed # {} \/ (\E k \in Keys : peers[k].in /\ ~last[k].in)
    \/ (\E k \in Keys : last[k].in /\ ~last[k].hs /\ peers[k].hs) \/ Count(peers) # Count(last)

Report ==
    /\ pc = "report" /\ pc' = "select" /\ last' = peers
    /\ \E due \in BOOLEAN :
         told' = IF due \/ (peers # last /\ (Notable \/ cmd.asked)) THEN [told EXCEPT !.peers = peers] ELSE told
    /\ UNCHANGED <<devVars, alloc, clones, taken, relaying, cmd>>
-----------------------------------------------------------------------------
Init ==
    /\ peers = [k \in Keys |-> Absent] /\ last = peers /\ dev = "up"
    /\ alloc = 0 /\ clones = {} /\ taken = 0 /\ relaying = FALSE
    /\ pc = "select" /\ cmd = [asked |-> FALSE, op |-> "remap", k |-> CHOOSE k \in Keys : TRUE, a |-> 0, n |-> 0]
    /\ told = [peers |-> peers, relay |-> "direct", down |-> FALSE]

Drive == \/ Tick \/ \E op \in Op, k \in Keys, a \in Addrs \cup {0} : Take(op, k, a)
         \/ Apply \/ Relay \/ RemapSuspends \/ RemapResumes \/ Look \/ Report
Device == \/ \E k \in Keys, a \in Addrs : Packet(k, a)
          \/ SendVia \/ \E g \in clones : SendDone(g)

Next == Drive \/ Device
Spec == Init /\ [][Next]_vars
-----------------------------------------------------------------------------
\* The program knows where every peer the loop has seen is, and which are
\* there: a change seen between two commands, or made by one, is never
\* swallowed by the snapshot that replaces the last (drive, announce).
ChangeTold ==
    pc # "report" =>
        \A k \in Keys : told.peers[k].in = last[k].in /\ told.peers[k].ep = last[k].ep

\* The program is told that its relay died only when it was relaying, and
\* never of the clear it asked for (the baseline after a relay command).
AlarmStep == told'.relay = "lost" => told.relay \in {"via", "lost"}
AlarmTrue == [][AlarmStep]_vars

\* A device that is not up when the loop waits again is one the program was
\* told is down (remap, apply).
DownTold == pc = "select" /\ dev # "up" => told.down

\* "A program waiting on a rendezvous it published a relayed address to
\* should hear that the address is dead": while the program believes it is
\* relaying, it is, or the next look will tell.
LossHeard == told.relay = "via" => alloc # 0 \/ relaying
=============================================================================
