------------------------------- MODULE Relay -------------------------------
(***************************************************************************)
(* The rendezvous relay (crates/drt/src/relay.rs), the bridge that asks    *)
(* the deployment about it (RelayBridge in start.rs) and the device that   *)
(* keeps a leg parked (park in tunnel.rs), for one label.                  *)
(*                                                                         *)
(* Each websocket is a task of the relay.  A device's leg waits in the lot *)
(* with two channels of a fixed size; a caller takes the oldest leg and    *)
(* holds the other ends of its channels.  Messages are counted, not named. *)
(* A send that waits for room is `hold`, a write to the websocket that has *)
(* not ended `writes`: a task does nothing else then, and no deadline ends *)
(* a write to a peer that is there and reads nothing.                      *)
(***************************************************************************)
EXTENDS Integers, Sequences, FiniteSets

CONSTANTS Legs,      \* websockets of the device, positive numbers in the order it dials them
          Callers,   \* websockets of callers, other positive numbers
          CHANNEL,   \* messages a channel holds
          QueueCap   \* the limit of the root's relay queue

VARIABLES ws,        \* websocket -> its task
          lot,       \* parked legs, oldest first (Label::parked)
          events,    \* how many events the relay has said and the bridge not delivered
          asks,      \* questions the relay has put to the bridge (Admit)
          pending,   \* questions the bridge has put to the program
          queue,     \* the root's relay queue: a websocket asked about, or 0 for an event
          replies    \* the program's answers: <<websocket, ok>>

bridgeVars == <<asks, pending, queue, replies>>
vars == <<ws, lot, events, bridgeVars>>

Sock == Legs \cup Callers

\* heard is what the oneshot of its question holds; said what the program
\* answered (a history variable); far, for a caller, the leg it took.
Task == [st : {"none", "asking", "let", "listed", "parked", "leaving", "taken", "spliced", "shut", "over"},
         heard : {"nothing", "yes", "no"}, said : {"nothing", "yes", "no"},
         hold : BOOLEAN, writes : BOOLEAN, claimed : BOOLEAN, far : Legs \cup {0},
         toDevice : 0..CHANNEL, fromDevice : 0..CHANNEL]

Fresh == [st |-> "none", heard |-> "nothing", said |-> "nothing", hold |-> FALSE, writes |-> FALSE, claimed |-> FALSE,
          far |-> 0, toDevice |-> 0, fromDevice |-> 0]

At(s, st)  == ws[s].st = st
Sets(s, r) == ws' = [ws EXCEPT ![s] = r]
Moves(s, st) == Sets(s, [ws[s] EXCEPT !.st = st])
Emit == events' = events + 1
-----------------------------------------------------------------------------
\* handle: the handshake, which a wrong key ends, then admitted.

Dial(s) ==
    /\ At(s, "none") /\ UNCHANGED <<lot, events, pending, queue, replies>>
    /\ \/ Moves(s, "asking") /\ asks' = Append(asks, s)
       \/ Moves(s, "shut") /\ UNCHANGED asks

\* The answer, or the deadline; no answer is a refusal.
Admitted(s) ==
    /\ At(s, "asking") /\ UNCHANGED <<lot, events, bridgeVars>>
    /\ \/ ws[s].heard = "yes" /\ Moves(s, "let")
       \/ ws[s].heard # "yes" /\ Moves(s, "shut")

\* Mutant: a question that cannot be put is answered yes.
AskLets(s) ==
    IF Len(queue) < QueueCap
    THEN queue' = Append(queue, s) /\ pending' = pending \cup {s} /\ UNCHANGED ws
    ELSE Sets(s, [ws[s] EXCEPT !.heard = "yes"]) /\ UNCHANGED <<queue, pending>>

\* RelayBridge::deliver: an event may be dropped; a question that cannot be
\* put is dropped with its sender, which the relay reads as no.
Ask(s) ==
    IF Len(queue) < QueueCap
    THEN queue' = Append(queue, s) /\ pending' = pending \cup {s} /\ UNCHANGED ws
    ELSE Sets(s, [ws[s] EXCEPT !.heard = "no"]) /\ UNCHANGED <<queue, pending>>

DeliverEvent ==
    /\ events > 0 /\ events' = events - 1
    /\ queue' = IF Len(queue) < QueueCap THEN Append(queue, 0) ELSE queue
    /\ UNCHANGED <<ws, lot, asks, pending, replies>>

DeliverAsk ==
    events = 0 /\ asks # <<>> /\ asks' = Tail(asks) /\ Ask(Head(asks)) /\ UNCHANGED <<lot, events, replies>>

\* RelayBridge::collect, once a question is pending.
Collect ==
    /\ pending # {} /\ replies # <<>> /\ replies' = Tail(replies)
    /\ LET s == Head(replies)[1] IN
       IF s \in pending
       THEN pending' = pending \ {s} /\ Sets(s, [ws[s] EXCEPT !.heard = Head(replies)[2]])
       ELSE UNCHANGED <<pending, ws>>
    /\ UNCHANGED <<lot, events, asks, queue>>

\* The root program reads its queue and answers what it is asked, or not.
Program ==
    /\ queue # <<>> /\ queue' = Tail(queue) /\ UNCHANGED <<lot, events, asks, pending>>
    /\ \/ UNCHANGED <<ws, replies>>
       \/ \E ok \in {"yes", "no"} :
            /\ Head(queue) # 0 /\ replies' = Append(replies, <<Head(queue), ok>>)
            /\ Sets(Head(queue), [ws[Head(queue)] EXCEPT !.said = ok])
-----------------------------------------------------------------------------
\* park_leg: a device's task.

Claimers(s) == {c \in Callers : ws[c].far = s}
InLot(s)    == \E i \in DOMAIN lot : lot[i] = s

\* The other ends of a leg's channels: in the lot, or with its caller.
HasFar(s) == InLot(s) \/ \E c \in Claimers(s) : ~At(c, "over")

Park(s) == At(s, "let") /\ lot' = Append(lot, s) /\ Moves(s, "listed") /\ UNCHANGED <<events, bridgeVars>>
Announce(s) == At(s, "listed") /\ Moves(s, "parked") /\ Emit /\ UNCHANGED <<lot, bridgeVars>>

Quiet == UNCHANGED <<lot, events, bridgeVars>>
Free(s) == ~ws[s].hold /\ ~ws[s].writes

DeviceByte(s) ==
    At(s, "parked") /\ Free(s) /\ Sets(s, [ws[s] EXCEPT !.claimed = TRUE, !.hold = TRUE]) /\ Quiet

\* Mutant: a send to a caller that is gone waits for room.
DevicePushWaits(s) ==
    /\ At(s, "parked") /\ ws[s].hold /\ ws[s].fromDevice < CHANNEL /\ Quiet
    /\ Sets(s, [ws[s] EXCEPT !.hold = FALSE, !.fromDevice = @ + 1])

DevicePush(s) ==
    /\ At(s, "parked") /\ ws[s].hold /\ Quiet
    /\ \/ HasFar(s) /\ ws[s].fromDevice < CHANNEL /\ Sets(s, [ws[s] EXCEPT !.hold = FALSE, !.fromDevice = @ + 1])
       \/ ~HasFar(s) /\ Moves(s, "leaving")

\* A message for the device, to be written.
ToDevice(s) ==
    /\ At(s, "parked") /\ Free(s) /\ ws[s].toDevice > 0 /\ Quiet
    /\ Sets(s, [ws[s] EXCEPT !.claimed = TRUE, !.toDevice = @ - 1, !.writes = TRUE])

\* A ping of a leg that waits, the answer to one of the peer's.
Pings(s) == ws[s].st \in {"parked", "spliced"} /\ Free(s) /\ Sets(s, [ws[s] EXCEPT !.writes = TRUE]) /\ Quiet

\* The write ended, or failed, which ends the leg.
DeviceTook(s) ==
    /\ At(s, "parked") /\ ws[s].writes /\ Quiet
    /\ \E st \in {"parked", "leaving"} : Sets(s, [ws[s] EXCEPT !.writes = FALSE, !.st = st])

\* The caller hung up, the device did, or nobody came.
HungUp(s)   == At(s, "parked") /\ Free(s) /\ ws[s].toDevice = 0 /\ ~HasFar(s) /\ Moves(s, "leaving") /\ Quiet
DeviceGone(s) == At(s, "parked") /\ Free(s) /\ Moves(s, "leaving") /\ Quiet
ParkIdle(s)   == At(s, "parked") /\ Free(s) /\ ~ws[s].claimed /\ Moves(s, "leaving") /\ Quiet

\* retain: the legs whose receiver is there still.
Living(legs) ==
    LET kept[i \in 0..Len(legs)] ==
          IF i = 0 THEN <<>> ELSE IF At(legs[i], "over") THEN kept[i - 1] ELSE Append(kept[i - 1], legs[i])
    IN  kept[Len(legs)]

\* The sweep looks for legs whose receiver is gone; that of this very leg
\* goes only when the task returns, after the sweep.
Sweep(s) == At(s, "leaving") /\ Moves(s, "over") /\ lot' = Living(lot) /\ UNCHANGED <<events, bridgeVars>>
-----------------------------------------------------------------------------
\* claim_leg: a caller's task.

\* Mutant: the leg a caller takes stays in the lot.
ClaimShares(c) ==
    /\ At(c, "let") /\ UNCHANGED <<lot, events, bridgeVars>>
    /\ IF lot = <<>> THEN Moves(c, "shut") ELSE Sets(c, [ws[c] EXCEPT !.st = "taken", !.far = Head(lot)])

Claim(c) ==
    /\ At(c, "let") /\ UNCHANGED <<events, bridgeVars>>
    /\ IF lot = <<>> THEN Moves(c, "shut") /\ UNCHANGED lot
       ELSE Sets(c, [ws[c] EXCEPT !.st = "taken", !.far = Head(lot)]) /\ lot' = Tail(lot)

Claimed(c) == At(c, "taken") /\ Moves(c, "spliced") /\ Emit /\ UNCHANGED <<lot, bridgeVars>>

Far(c) == ws[ws[c].far]
Ends(c) == Moves(c, "over") /\ Emit /\ UNCHANGED <<lot, bridgeVars>>

CallerByte(c) == At(c, "spliced") /\ Free(c) /\ Sets(c, [ws[c] EXCEPT !.hold = TRUE]) /\ Quiet

CallerPush(c) ==
    /\ At(c, "spliced") /\ ws[c].hold
    /\ \/ /\ Far(c).st # "over" /\ Far(c).toDevice < CHANNEL /\ Quiet
          /\ ws' = [ws EXCEPT ![c].hold = FALSE, ![ws[c].far].toDevice = @ + 1]
       \/ Far(c).st = "over" /\ Ends(c)

ToCaller(c) ==
    /\ At(c, "spliced") /\ Free(c) /\ Far(c).fromDevice > 0
    /\ ws' = [ws EXCEPT ![ws[c].far].fromDevice = @ - 1, ![c].writes = TRUE] /\ Quiet

CallerTook(c) ==
    /\ At(c, "spliced") /\ ws[c].writes
    /\ \/ Sets(c, [ws[c] EXCEPT !.writes = FALSE]) /\ Quiet
       \/ Ends(c)

DeviceLeft(c) == At(c, "spliced") /\ Free(c) /\ Far(c).fromDevice = 0 /\ Far(c).st = "over" /\ Ends(c)
CallerGone(c) == At(c, "spliced") /\ Free(c) /\ Ends(c)
-----------------------------------------------------------------------------
\* tunnel::park: the device dials a leg when the one before it was claimed,
\* which it sees by its first message, dropped or refused.

Seen(s) == ws[s].claimed \/ ws[s].st \in {"shut", "over"}
Device  == \E s \in Legs : (\A r \in Legs : r < s => Seen(r)) /\ Dial(s)

Init ==
    /\ ws = [s \in Sock |-> Fresh] /\ lot = <<>> /\ events = 0
    /\ asks = <<>> /\ pending = {} /\ queue = <<>> /\ replies = <<>>

\* What a task does by itself, whatever the far ends do: it does not end a
\* write, which is for the peer to take.
ParkTask(s)  == Announce(s) \/ DevicePush(s) \/ ToDevice(s) \/ HungUp(s) \/ Sweep(s)
ClaimTask(c) == Claimed(c) \/ CallerPush(c) \/ ToCaller(c) \/ DeviceLeft(c)

Next ==
    \/ Device \/ \E c \in Callers : Dial(c)
    \/ \E s \in Sock : Admitted(s) \/ Pings(s)
    \/ DeliverEvent \/ DeliverAsk \/ Collect \/ Program
    \/ \E s \in Legs : Park(s) \/ ParkTask(s) \/ DeviceTook(s) \/ DeviceByte(s) \/ DeviceGone(s) \/ ParkIdle(s)
    \/ \E c \in Callers : Claim(c) \/ ClaimTask(c) \/ CallerTook(c) \/ CallerByte(c) \/ CallerGone(c)

Spec == Init /\ [][Next]_vars

\* The runtime polls every task whose future is ready, and its select!
\* takes the ready branches in a random order: pings do not starve the rest.
FairSpec == Spec /\ (\A s \in Legs : SF_vars(ParkTask(s))) /\ (\A c \in Callers : SF_vars(ClaimTask(c)))
-----------------------------------------------------------------------------
TypeOK == ws \in [Sock -> Task] /\ pending \subseteq Sock /\ Len(queue) <= QueueCap

\* A leg is in one place: once in the lot, or with the one caller that took
\* it (Label::parked, claim_leg).
OneCaller ==
    \A s \in Legs :
        Cardinality({i \in DOMAIN lot : lot[i] = s}) + Cardinality(Claimers(s)) <= 1

\* Only a leg the deployment said yes to goes on: an answer to another
\* question, a late one and no answer are refusals (Relay::admitted,
\* RelayBridge::deliver and collect).
OnlyAdmitted ==
    \A s \in Sock : ws[s].st \notin {"none", "asking", "shut"} => ws[s].said = "yes"

\* One end of a splice is over and the other is not.
Torn(c) == ws[c].far # 0 /\ At(c, "over") # (Far(c).st = "over")

\* The peer takes what is written to it, sooner or later.
Reads(s) == []<>~ws[s].writes

\* When one end of a splice is over so is the other in the end, whatever is
\* waiting in their channels, if both peers read (park_leg, claim_leg).
BothEnd ==
    \A c \in Callers, s \in Legs : Reads(c) /\ Reads(s) => (Torn(c) /\ ws[c].far = s ~> ~Torn(c))

\* "Drop this leg from the parked set if it is still there": no leg in the
\* lot is over (the sweep that ends park_leg).
LotLives == \A i \in DOMAIN lot : ~At(lot[i], "over")

\* The splice is full-duplex: its two tasks never wait for each other.
FullDuplex ==
    \A c \in Callers : At(c, "spliced") /\ ws[c].hold /\ Far(c).hold /\ Far(c).st = "parked"
        => Far(c).toDevice < CHANNEL \/ Far(c).fromDevice < CHANNEL
=============================================================================
