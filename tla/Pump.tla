-------------------------------- MODULE Pump --------------------------------
(***************************************************************************)
(* The hostcall pump (crates/drt-swarm/src/pump.rs): requests a guest puts *)
(* on host/calls, connectors that answer at once or later, and answers on  *)
(* their way to the guest's host/replies.                                  *)
(*                                                                         *)
(* PumpHost drives one instance at a time: poll every call in flight, pump *)
(* the instance, run it, pump it again.  Each turn of the pump's loops is  *)
(* one action here; pc is where PumpHost::drive is and here the instance   *)
(* it drives.  What a guest does while it runs, and when a connector has   *)
(* its answer, are nondeterministic.  Encoding a reply does not fail.      *)
(*                                                                         *)
(* The pump's two tables hold entries of every instance and read only the  *)
(* order of one instance's, so each is kept per instance here.  A request  *)
(* is its number among its instance's.                                     *)
(***************************************************************************)
EXTENDS Integers, Sequences

CONSTANTS Node,        \* instances; an instance's id is never used again
          ReplyCap,    \* capacity of host/replies
          DropOldest,  \* those whose host/replies evicts when it is full
          MaxCalls     \* bound of the model: requests an instance makes

ASSUME PumpAssumption ==
    ReplyCap \in Nat \ {0} /\ DropOldest \subseteq Node /\ MaxCalls \in Nat

VARIABLES place,     \* resident, cached or gone
          queue,     \* host/replies: absent until declared, then on or off
          calls,     \* what waits on host/calls
          replies,   \* what waits on host/replies, by the request answered
          inflight,  \* Pump::inflight, the calls without an answer yet, as sets
          ready,     \* those of them whose answer the poll under way has still to take
          settled,   \* Pump::settled, the answers without room yet
          made,      \* requests made so far, which number them
          answers,   \* every answer given, in the order the host had them
          left,      \* how many of those the guest read or its queue evicted
          pc,        \* where PumpHost::drive is; "idle" outside it
          here       \* the instance it drives

guestVars == <<place, queue, made>>
pumpVars  == <<calls, replies, inflight, ready, settled, answers, left>>
vars      == <<guestVars, pumpVars, pc, here>>

Req      == 1..MaxCalls
Elems(q) == {q[i] : i \in DOMAIN q}
Alive(x) == place[x] # "gone"
-----------------------------------------------------------------------------
\* The pump.

\* room: one more reply fits.
Room(x) == queue[x] = "on" /\ Len(replies[x]) < ReplyCap

\* Instance::push on host/replies: the outcomes is_accepted holds of, and
\* what they do to the queue and to the answers that have left it.
Accepts(x) == Room(x) \/ (queue[x] = "on" /\ x \in DropOldest)

Push(x, r) ==
    LET full == Len(replies[x]) >= ReplyCap
    IN  /\ replies' = [replies EXCEPT ![x] = Append(IF full THEN Tail(@) ELSE @, r)]
        /\ left' = [left EXCEPT ![x] = IF full THEN @ + 1 ELSE @]

\* Mutant: the newest answer lands first.
M_Oldest(x) == settled[x][Len(settled[x])]

\* deliver takes the settled answers of an instance oldest first.
Oldest(x) == Head(settled[x])

\* PumpHost::drive begins with poll.  R is what has its answer by now.
Drive(x, R) ==
    /\ pc = "idle" /\ place[x] = "resident"
    /\ ready' = R
    /\ pc' = "poll" /\ here' = x
    /\ UNCHANGED <<guestVars, calls, replies, inflight, settled, answers, left>>

\* The loop of poll: a call that is ready leaves the table and joins the
\* settled ones, an instance's in the order it made them.
Settle(y, r) ==
    /\ pc = "poll" /\ r \in ready[y] /\ \A other \in ready[y] : r <= other
    /\ ready' = [ready EXCEPT ![y] = @ \ {r}]
    /\ inflight' = [inflight EXCEPT ![y] = @ \ {r}]
    /\ settled' = [settled EXCEPT ![y] = Append(@, r)]
    /\ answers' = [answers EXCEPT ![y] = Append(@, r)]
    /\ UNCHANGED <<guestVars, calls, replies, left, pc, here>>

Polled ==
    /\ pc = "poll" /\ \A y \in Node : ready[y] = {}
    /\ pc' = "deliver"
    /\ UNCHANGED <<guestVars, pumpVars, here>>

\* The second pump, after the guest ran, ends the drive.
After(p) == IF p \in {"deliver", "drain"} THEN "run" ELSE "idle"
Delivering == pc \in {"deliver", "deliver again"} /\ queue[here] # "absent"
Draining   == pc \in {"drain", "drain again"}

\* pump returns at once when the guest has not declared the queues.
NoQueues ==
    /\ pc \in {"deliver", "deliver again"} /\ queue[here] = "absent"
    /\ pc' = After(pc)
    /\ UNCHANGED <<guestVars, pumpVars, here>>

\* deliver: one answer lands ...
DeliverOne ==
    /\ Delivering /\ settled[here] # <<>> /\ Accepts(here)
    /\ Push(here, Oldest(here))
    /\ settled' = [settled EXCEPT ![here] = Tail(@)]
    /\ UNCHANGED <<guestVars, calls, inflight, ready, answers, pc, here>>

\* ... until there is none, or the first that does not fit stops the rest.
DeliverDone ==
    /\ Delivering /\ (settled[here] = <<>> \/ ~Accepts(here))
    /\ pc' = IF pc = "deliver" THEN "drain" ELSE "drain again"
    /\ UNCHANGED <<guestVars, pumpVars, here>>

\* land: push the answer now, or keep it for a later pump.
Land(x, r) ==
    /\ answers' = [answers EXCEPT ![x] = Append(@, r)]
    /\ IF Accepts(x) THEN Push(x, r) /\ UNCHANGED settled
       ELSE settled' = [settled EXCEPT ![x] = Append(@, r)] /\ UNCHANGED <<replies, left>>

\* pump's loop: a request is drained when its answer has room, and answered
\* at once (by the dispatcher, or a connector ready on the first poll) or
\* put in flight.
TakeCall ==
    /\ Draining /\ Room(here) /\ calls[here] # <<>>
    /\ LET r == Head(calls[here])
       IN  \/ Land(here, r) /\ UNCHANGED inflight
           \/ /\ inflight' = [inflight EXCEPT ![here] = @ \cup {r}]
              /\ UNCHANGED <<replies, settled, answers, left>>
    /\ calls' = [calls EXCEPT ![here] = Tail(@)]
    /\ UNCHANGED <<guestVars, ready, pc, here>>

DrainDone ==
    /\ Draining /\ (~Room(here) \/ calls[here] = <<>>)
    /\ pc' = After(pc)
    /\ UNCHANGED <<guestVars, pumpVars, here>>

\* Mutant: only the calls in flight are dropped.
M_Forget(x) == inflight' = [inflight EXCEPT ![x] = {}] /\ UNCHANGED settled

\* forget: what is owed to an instance that is gone goes with it.
Forget(x) ==
    /\ inflight' = [inflight EXCEPT ![x] = {}]
    /\ settled' = [settled EXCEPT ![x] = <<>>]

\* PumpHost::released.  The instance's own queues are gone with it.
Released(x) ==
    /\ place' = [place EXCEPT ![x] = "gone"]
    /\ queue' = [queue EXCEPT ![x] = "absent"]
    /\ calls' = [calls EXCEPT ![x] = <<>>]
    /\ replies' = [replies EXCEPT ![x] = <<>>]
    /\ Forget(x)
    /\ UNCHANGED <<made, ready, answers, left>>
-----------------------------------------------------------------------------
\* The guest, while it runs, and the swarm between drives.

Declare(on) ==
    /\ pc = "run" /\ queue[here] # on
    /\ queue' = [queue EXCEPT ![here] = on]
    /\ UNCHANGED <<place, made, pumpVars, pc, here>>

Call ==
    /\ pc = "run" /\ made[here] < MaxCalls
    /\ made' = [made EXCEPT ![here] = @ + 1]
    /\ calls' = [calls EXCEPT ![here] = Append(@, made[here] + 1)]
    /\ UNCHANGED <<place, queue, replies, inflight, ready, settled, answers, left, pc, here>>

Read ==
    /\ pc = "run" /\ replies[here] # <<>>
    /\ replies' = [replies EXCEPT ![here] = Tail(@)]
    /\ left' = [left EXCEPT ![here] = @ + 1]
    /\ UNCHANGED <<guestVars, calls, inflight, ready, settled, answers, pc, here>>

\* It parked: Driven::Alive, and the second pump.
Parked ==
    /\ pc = "run"
    /\ pc' = "deliver again"
    /\ UNCHANGED <<guestVars, pumpVars, here>>

\* It stopped: the slot is released with no second pump.
Stopped ==
    /\ pc = "run"
    /\ Released(here)
    /\ pc' = "idle"
    /\ UNCHANGED here

Kill(x) == pc = "idle" /\ Alive(x) /\ Released(x) /\ UNCHANGED <<pc, here>>

\* Mutant: what is owed to a hibernated instance is dropped too.
M_Detached(x) == Forget(x) /\ UNCHANGED <<calls, replies, ready, answers, left>>

\* PumpHost::detached: the queues ride the snapshot, the pump keeps the rest.
Detached(x) == UNCHANGED pumpVars

SwapOut(x) ==
    /\ place[x] = "resident"
    /\ place' = [place EXCEPT ![x] = "cached"]
    /\ Detached(x)
    /\ UNCHANGED <<queue, made>>

SwapIn(x) ==
    /\ place[x] = "cached"
    /\ place' = [place EXCEPT ![x] = "resident"]
    /\ UNCHANGED <<queue, made, pumpVars>>

Hibernate(x) == pc = "idle" /\ SwapOut(x) /\ UNCHANGED <<pc, here>>
Wake(x)      == pc = "idle" /\ SwapIn(x) /\ UNCHANGED <<pc, here>>
-----------------------------------------------------------------------------
Init ==
    /\ place = [x \in Node |-> "resident"] /\ queue = [x \in Node |-> "absent"]
    /\ calls = [x \in Node |-> <<>>] /\ replies = [x \in Node |-> <<>>]
    /\ inflight = [x \in Node |-> {}] /\ ready = [x \in Node |-> {}] /\ settled = [x \in Node |-> <<>>]
    /\ made = [x \in Node |-> 0] /\ answers = [x \in Node |-> <<>>]
    /\ left = [x \in Node |-> 0]
    /\ pc = "idle" /\ here \in Node

Pumping == (\E y \in Node : \E r \in ready[y] : Settle(y, r)) \/ Polled \/ NoQueues \/ DeliverOne \/ DeliverDone \/ TakeCall \/ DrainDone
Guest   == Declare("on") \/ Declare("off") \/ Call \/ Read

\* What connectors may have answered since the last poll.
Ready == {R \in [Node -> SUBSET Req] : \A x \in Node : R[x] \subseteq inflight[x]}

Next ==
    \/ \E x \in Node, R \in Ready : Drive(x, R)
    \/ Pumping \/ Guest \/ Parked \/ Stopped
    \/ \E x \in Node : Kill(x) \/ Hibernate(x) \/ Wake(x)

Spec == Init /\ [][Next]_vars
-----------------------------------------------------------------------------
\* Properties.

(* Every variable has its type, and host/replies its bound.                 *)
TypeOK ==
    /\ place \in [Node -> {"resident", "cached", "gone"}]
    /\ queue \in [Node -> {"absent", "on", "off"}]
    /\ made \in [Node -> 0..MaxCalls] /\ left \in [Node -> Nat]
    /\ calls \in [Node -> Seq(Req)] /\ replies \in [Node -> Seq(Req)]
    /\ settled \in [Node -> Seq(Req)] /\ answers \in [Node -> Seq(Req)]
    /\ inflight \in [Node -> SUBSET Req] /\ ready \in [Node -> SUBSET Req]
    /\ \A x \in Node : Len(replies[x]) <= ReplyCap
    /\ pc \in {"idle", "poll", "deliver", "drain", "run", "deliver again", "drain again"}
    /\ here \in Node

Once(q) == \A i, j \in DOMAIN q : q[i] = q[j] => i = j

(* "Every drained request is answered", and once: a request of a living     *)
(* instance waits on host/calls, is in flight or has been answered, in one  *)
(* of these and once there, through swaps, stops of other instances and     *)
(* full queues (pump, poll).                                                *)
EachOnce ==
    \A x \in Node : Alive(x) =>
        /\ Elems(calls[x]) \cup inflight[x] \cup Elems(answers[x]) = 1..made[x]
        /\ Elems(calls[x]) \cap inflight[x] = {} /\ Elems(answers[x]) \cap inflight[x] = {}
        /\ Elems(calls[x]) \cap Elems(answers[x]) = {}
        /\ Once(calls[x]) /\ Once(answers[x])

(* "Order is part of the contract": an answer the host has is, in the order *)
(* the host had it, on host/replies or waiting for it, until it is read     *)
(* (deliver, land).  A direct answer never overtakes one that settled.      *)
AnswersInOrder ==
    \A x \in Node : Alive(x) =>
        SubSeq(answers[x], left[x] + 1, Len(answers[x])) = replies[x] \o settled[x]

(* "Drop what was owed to it": the pump holds nothing for an instance that  *)
(* is gone, so nothing it holds can never land (forget, released).          *)
OwedToTheLiving == \A x \in Node : ~Alive(x) => inflight[x] = {} /\ settled[x] = <<>>
=============================================================================
