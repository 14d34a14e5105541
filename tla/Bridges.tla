------------------------------ MODULE Bridges ------------------------------
(***************************************************************************)
(* How a service of `drt start` speaks to the root program: the bridge of  *)
(* each one hands its reports to the drive loop, which pushes them onto    *)
(* the queue the config names (start.rs, and report and collect of         *)
(* wireguard.rs, webrtc.rs, turn.rs, stun.rs, bridge.rs and netcheck.rs).  *)
(*                                                                         *)
(* The program declares the queue when it gets to it; until then, and      *)
(* while the queue is full, a push is refused.  One bridge is modelled at  *)
(* a time: they share nothing but the loop.  Reports said once are         *)
(* numbered; 0 is a snapshot, which the next one supersedes, and a         *)
(* negative number a reading of a counter.  WireGuard's refusals of        *)
(* commands are among its reports.                                         *)
(***************************************************************************)
EXTENDS Integers, Sequences, FiniteSets

CONSTANTS Kinds,      \* of {"wireguard", "webrtc", "turn", "bridge", "stun", "netcheck"}
          HELD_MAX,   \* reports a bridge holds for its queue
          QueueCap,   \* the limit of the queue
          MaxMade     \* bound: reports said once, and changes of a counter

VARIABLES kind,       \* the bridge
          made,       \* reports said once, so far
          channel,    \* what the service has said and no pass has taken
          keep,       \* the bridge's held
          declared,   \* has the program declared the queue
          inbox,      \* the queue
          got,        \* reports said once that the program read, in order
          lost,       \* those dropped
          counter,    \* what a snapshot reads
          sent,       \* the bridge's last snapshot, or -1
          seen        \* the last one the program read, or -1

counterVars == <<counter, sent>>
vars == <<kind, made, channel, keep, declared, inbox, got, lost, counter, sent, seen>>

Room == declared /\ Len(inbox) < QueueCap
-----------------------------------------------------------------------------
\* The services' threads: a closing report, a mapping, a session, a verdict;
\* or a snapshot of a device's peers on its clock; or a counter that moved.
Says ==
    /\ made < MaxMade /\ made' = made + 1 /\ channel' = Append(channel, made + 1) /\ kind # "stun"
    /\ kind = "netcheck" => channel = <<>>
    /\ UNCHANGED <<kind, keep, declared, inbox, got, lost, counterVars, seen>>

Snapshot ==
    /\ kind = "wireguard" /\ channel = <<>> /\ channel' = Append(channel, 0)
    /\ UNCHANGED <<kind, made, keep, declared, inbox, got, lost, counterVars, seen>>

Counts ==
    /\ kind \in {"turn", "stun"} /\ counter < MaxMade /\ counter' = counter + 1
    /\ UNCHANGED <<kind, made, channel, keep, declared, inbox, got, lost, sent, seen>>
-----------------------------------------------------------------------------
\* The drive loop's pass over the bridge.  Nothing else touches the queue
\* meanwhile, so the first refusal of a pass is that of all that follow.

Pushed(msgs) ==
    LET n == IF ~declared THEN 0
             ELSE IF Len(msgs) <= QueueCap - Len(inbox) THEN Len(msgs) ELSE QueueCap - Len(inbox)
    IN  [taken |-> SubSeq(msgs, 1, n), left |-> SubSeq(msgs, n + 1, Len(msgs))]

\* A counter's reading, as a message.
Reading(c) == -1 - c

Ns(s) == {n \in {s[i] : i \in DOMAIN s} : n > 0}

\* The reports of seq said once, less those in dropped.
Once(seq, dropped) ==
    LET kept[i \in 0..Len(seq)] ==
          IF i = 0 THEN <<>>
          ELSE IF seq[i] = 0 \/ seq[i] \in dropped THEN kept[i - 1] ELSE Append(kept[i - 1], seq[i])
    IN  kept[Len(seq)]

\* Mutant: a report refused twice is not held again.
HoldOnce(refused) ==
    LET once == Once(refused, Ns(keep))
        m == IF Len(once) <= HELD_MAX THEN Len(once) ELSE HELD_MAX
    IN  keep' = SubSeq(once, 1, m) /\ lost' = lost \cup Ns(keep) \cup Ns(SubSeq(once, m + 1, Len(once)))

\* push_reports: what was held first; of what is refused, snapshots go and
\* the rest is held, as far as there is room.
HoldReports(refused) ==
    LET once == Once(refused, {})
        m == IF Len(once) <= HELD_MAX THEN Len(once) ELSE HELD_MAX
    IN  keep' = SubSeq(once, 1, m) /\ lost' = lost \cup Ns(SubSeq(once, m + 1, Len(once)))

WireguardReport ==
    /\ kind = "wireguard" /\ channel' = <<>>
    /\ LET p == Pushed(keep \o channel) IN inbox' = inbox \o p.taken /\ HoldReports(p.left)
    /\ UNCHANGED counterVars

\* Mutant: the reports of this pass go ahead of those that were held.
WebrtcNewestFirst ==
    /\ kind = "webrtc" /\ channel' = <<>>
    /\ LET all == channel \o keep
           cut == IF Len(all) > HELD_MAX THEN Len(all) - HELD_MAX ELSE 0
           p == Pushed(SubSeq(all, cut + 1, Len(all)))
       IN  inbox' = inbox \o p.taken /\ keep' = p.left /\ lost' = lost \cup Ns(SubSeq(all, 1, cut))
    /\ UNCHANGED counterVars

\* Everything is held, in order; past HELD_MAX the oldest goes.
WebrtcReport ==
    /\ kind = "webrtc" /\ channel' = <<>>
    /\ LET all == keep \o channel
           cut == IF Len(all) > HELD_MAX THEN Len(all) - HELD_MAX ELSE 0
           p == Pushed(SubSeq(all, cut + 1, Len(all)))
       IN  inbox' = inbox \o p.taken /\ keep' = p.left /\ lost' = lost \cup Ns(SubSeq(all, 1, cut))
    /\ UNCHANGED counterVars

\* Events, closes and verdicts, whose refusal is not looked at; then, when
\* it is due, a counter that changed since last time.
PushedOnce ==
    /\ kind \in {"turn", "bridge", "stun", "netcheck"} /\ channel' = <<>> /\ UNCHANGED <<keep, counter>>
    /\ \E due \in BOOLEAN :
         LET reads == due /\ kind \in {"turn", "stun"} /\ sent # counter
             p == Pushed(channel \o (IF reads THEN <<Reading(counter)>> ELSE <<>>))
         IN  /\ sent' = IF reads THEN counter ELSE sent
             /\ inbox' = inbox \o p.taken /\ lost' = lost \cup Ns(p.left)

Pass == (WireguardReport \/ WebrtcReport \/ PushedOnce) /\ UNCHANGED <<kind, made, declared, got, seen>>
-----------------------------------------------------------------------------
\* The root program.

Declare == ~declared /\ declared' = TRUE /\ UNCHANGED <<kind, made, channel, keep, inbox, got, lost, counterVars, seen>>

Read ==
    /\ inbox # <<>> /\ inbox' = Tail(inbox)
    /\ got' = IF Head(inbox) > 0 THEN Append(got, Head(inbox)) ELSE got
    /\ seen' = IF Head(inbox) < 0 THEN -1 - Head(inbox) ELSE seen
    /\ UNCHANGED <<kind, made, channel, keep, declared, lost, counterVars>>

Init ==
    /\ kind \in Kinds /\ made = 0 /\ channel = <<>> /\ keep = <<>> /\ declared = FALSE /\ inbox = <<>>
    /\ got = <<>> /\ lost = {} /\ counter = 0 /\ sent = -1 /\ seen = -1

Next == Says \/ Snapshot \/ Counts \/ Pass \/ Declare \/ Read
Spec == Init /\ [][Next]_vars

\* The drive loop makes its passes and the program reads what it declared.
FairSpec == Spec /\ WF_vars(Pass) /\ WF_vars(Read)
-----------------------------------------------------------------------------
\* The program hears what a service says once in the order it was said,
\* whatever was refused, held and dropped in between.
HeardInOrder == \A i, j \in DOMAIN got : i < j => got[i] < got[j]

\* A bridge that holds loses nothing before it holds all it may, and what
\* WireGuard says first, the mapping, is never what goes (push_reports).
HeldKept ==
    /\ kind \in {"wireguard", "webrtc"} /\ made <= HELD_MAX => lost = {}
    /\ kind = "wireguard" => 1 \notin lost

\* The mapping is heard, however late the program declares its queue and
\* whatever came after it (WireguardBridge::report).
MappingDue == kind = "wireguard" /\ declared /\ made > 0
MappingGot == 1 \in Ns(got)
MappingHeard == MappingDue ~> MappingGot

\* "a dropped close is a bill that never arrives": no close is dropped.
BillArrives == kind = "turn" => lost = {}
=============================================================================
