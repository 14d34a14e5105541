------------------------------- MODULE Deploy -------------------------------
(***************************************************************************)
(* A deployment's driver (crates/drt/src/start.rs): DeployHost, which      *)
(* keeps every parked instance's deadline, the residency policy, which     *)
(* hibernates what has been idle longest, and DeployDriver::step, which    *)
(* wakes what is due, steps the swarm and applies the policy.              *)
(*                                                                         *)
(* DeployHost is the host the pump wraps, so this module extends Pump: its *)
(* actions are PumpHost::drive around DeployHost::drive.  Of Swarm::step   *)
(* it keeps the wake loop and the drive loop; instances exist from the     *)
(* start, leaves under the root, and the root outlives them: with it the   *)
(* deployment is over.  Swaps a program asks for itself are Swarm's.  A    *)
(* wait for space in a queue is left out.                                  *)
(***************************************************************************)
EXTENDS Pump, FiniteSets

CONSTANTS Root,         \* the root instance
          Order,        \* the instances in slot order
          Waking,       \* those with wake_on_message
          Residency,    \* whether the deployment has a residency policy
          MaxResident,  \* and its budget
          Callers,      \* bound of the model: the instances that make calls
          Waits         \* bound of the model: the waits each program issues

ASSUME DeployAssumption ==
    /\ IsFiniteSet(Node)
    /\ Root \in Node /\ Waking \subseteq Node /\ Callers \subseteq Node
    /\ Order \in [1..Cardinality(Node) -> Node] /\ \A x \in Node : x \in Elems(Order)
    /\ Residency \in BOOLEAN /\ MaxResident \in Nat
    /\ \A x \in Node : Waits[x] \subseteq [on : SUBSET {"inbox", "replies"}, timed : BOOLEAN]

VARIABLES inbox,     \* instance -> a message waits for it, there or in the wake buffer
          wait,      \* instance -> what its program is parked on; it rides the snapshot
          park,      \* DeployHost::parked
          recent,    \* DeployHost::active: who has worked, longest ago first
          stage,     \* where DeployDriver::step is
          todo,      \* the slots the drive loop has yet to do
          undriven   \* history: woken, and not driven since

hostVars   == <<inbox, wait, park, recent>>
driverVars == <<stage, todo, undriven>>
deployVars == <<vars, hostVars, driverVars>>

\* A wait: the queues, and whether it has a timeout.  Fresh: it never ran.
Wait  == [on : SUBSET {"inbox", "replies"}, timed : BOOLEAN]
Fresh == [on |-> {}, timed |-> FALSE]

\* A Park: the handles of the wait, of this residency or an earlier one, and
\* the deadline, which outlives them.
NoPark == [wait |-> "none", deadline |-> "no park"]
Park   == [wait : {"none", "current", "old"}, deadline : {"never", "armed", "due"}]

\* Mutant: what is due is woken after the step.
M_Then(s) == CASE s = "idle" -> "wake" [] s = "wake" -> "drive" [] s = "drive" -> "due"
               [] s = "due" -> "residency" [] s = "residency" -> "idle"

\* DeployDriver::step: wake_due, the swarm's step, the residency policy.
Then(s) == CASE s = "idle" -> "due" [] s = "due" -> "wake" [] s = "wake" -> "drive"
             [] s = "drive" -> "residency" [] s = "residency" -> "idle"

Advance ==
    /\ stage' = Then(stage)
    /\ todo' = IF stage' = "drive" THEN Order ELSE todo
    /\ UNCHANGED <<vars, hostVars, undriven>>
-----------------------------------------------------------------------------
\* The host outside a step, and the clock.

\* A message from a listener, a connector or another instance (Swarm::push).
Mail(x) ==
    /\ stage = "idle" /\ ~inbox[x]
    /\ place[x] = "resident" \/ (place[x] = "cached" /\ x \in Waking)
    /\ inbox' = [inbox EXCEPT ![x] = TRUE]
    /\ UNCHANGED <<vars, wait, park, recent, driverVars>>

Tick(x) ==
    /\ park[x].deadline = "armed"
    /\ park' = [park EXCEPT ![x].deadline = "due"]
    /\ UNCHANGED <<vars, inbox, wait, recent, driverVars>>

\* DeployHost::released.
Dropped(x) == park' = [park EXCEPT ![x] = NoPark]

\* Death.  DeployHost::active is not among what is cleared.
Dead(x) ==
    /\ Dropped(x)
    /\ inbox' = [inbox EXCEPT ![x] = FALSE] /\ wait' = [wait EXCEPT ![x] = Fresh]
    /\ undriven' = undriven \ {x}
    /\ UNCHANGED <<recent, stage>>

KillOne(x) == stage = "idle" /\ x # Root /\ Kill(x) /\ Dead(x) /\ UNCHANGED todo
-----------------------------------------------------------------------------
\* Wakes.

\* Mutant: the handles of the residency that ended are kept.
M_Attached(x) == UNCHANGED park

\* DeployHost::attached: the deadline stays, the handles go.
Attached(x) == park' = IF park[x] = NoPark THEN park ELSE [park EXCEPT ![x].wait = "none"]

Rise(x) ==
    /\ Wake(x) /\ Attached(x)
    /\ undriven' = undriven \cup {x}
    /\ UNCHANGED <<inbox, wait, recent, stage, todo>>

\* An instance that will not restore is killed.
RiseOrDie(x) == Rise(x) \/ (Kill(x) /\ Dead(x) /\ UNCHANGED todo)

IsDue(x)   == place[x] = "cached" /\ park[x].deadline = "due"
HasMail(x) == place[x] = "cached" /\ inbox[x]

\* wake_due, for the deadlines passed when it looks, and the swarm's wake loop.
WakeDue(x)  == stage = "due" /\ IsDue(x) /\ RiseOrDie(x)
WakeMail(x) == stage = "wake" /\ HasMail(x) /\ RiseOrDie(x)

DueDone  == stage = "due" /\ (\A x \in Node : ~IsDue(x)) /\ Advance
WakeDone == stage = "wake" /\ (\A x \in Node : ~HasMail(x)) /\ Advance
-----------------------------------------------------------------------------
\* The drive loop, and DeployHost::drive.

DriveNext ==
    /\ stage = "drive" /\ pc = "idle" /\ todo # <<>>
    /\ \/ place[Head(todo)] # "resident" /\ UNCHANGED <<vars, undriven>>
       \/ /\ \E R \in Ready : Drive(Head(todo), R)
          /\ undriven' = undriven \ {Head(todo)}
    /\ todo' = Tail(todo)
    /\ UNCHANGED <<hostVars, stage>>

DrivePump == stage = "drive" /\ Pumping /\ UNCHANGED <<hostVars, driverVars>>

\* A queue it waits on is ready.
Fired(x) ==
    \/ "inbox" \in wait[x].on /\ inbox[x]
    \/ "replies" \in wait[x].on /\ replies[x] # <<>>

\* drive resumes what a queue or its deadline has readied, and runs what never
\* ran; that is activity.
Resumes(x) == wait[x] = Fresh \/ Fired(x) \/ park[x].deadline = "due"

\* Mutant: an instance's earlier activity is kept beside its last.
M_Worked(x) == Append(recent, x)

\* active.insert(id, tick)
Worked(x) == Append(SelectSeq(recent, LAMBDA y : y # x), x)

Resume ==
    /\ stage = "drive" /\ pc = "run" /\ Resumes(here)
    /\ stage' = "guest"
    /\ recent' = Worked(here)
    /\ UNCHANGED <<vars, inbox, wait, park, todo, undriven>>

\* Still parked: the wait is kept with this residency's handles.
StillParked ==
    /\ stage = "drive" /\ pc = "run" /\ ~Resumes(here)
    /\ park' = [park EXCEPT ![here].wait = "current"]
    /\ Parked
    /\ UNCHANGED <<inbox, wait, recent, driverVars>>

GuestWorks ==
    /\ stage = "guest"
    /\ Declare("on") \/ (Call /\ here \in Callers /\ queue[here] = "on") \/ Read
    /\ UNCHANGED <<hostVars, driverVars>>

GuestReads ==
    /\ stage = "guest" /\ inbox[here]
    /\ inbox' = [inbox EXCEPT ![here] = FALSE]
    /\ UNCHANGED <<vars, wait, park, recent, driverVars>>

\* note, for Step::Parked: arm the deadline of the wait.
GuestParks(w) ==
    /\ stage = "guest" /\ w \in Waits[here] /\ Parked
    /\ wait' = [wait EXCEPT ![here] = w]
    /\ park' = [park EXCEPT ![here] = [wait |-> "current",
                                       deadline |-> IF w.timed THEN "armed" ELSE "never"]]
    /\ stage' = "drive"
    /\ UNCHANGED <<inbox, recent, todo, undriven>>

\* note for Step::Done, and fault: an error, or a timeout under the park floor.
GuestStops ==
    /\ stage = "guest" /\ here # Root /\ Stopped
    /\ Dropped(here)
    /\ inbox' = [inbox EXCEPT ![here] = FALSE] /\ wait' = [wait EXCEPT ![here] = Fresh]
    /\ stage' = "drive"
    /\ UNCHANGED <<recent, todo, undriven>>

DriveDone == stage = "drive" /\ pc = "idle" /\ todo = <<>> /\ Advance
-----------------------------------------------------------------------------
\* enforce_residency.

Candidates == {x \in Waking \ {Root} : place[x] = "resident"}

\* last_active: 0 for an instance that has not worked.
LastActive(x) == IF x \in Elems(recent) THEN CHOOSE i \in DOMAIN recent : recent[i] = x ELSE 0
Slot(x)       == CHOOSE i \in DOMAIN Order : Order[i] = x

\* x goes before every other candidate: it worked longest ago, and among
\* those that never have it has the highest id.
First(x) ==
    \A y \in Candidates \ {x} :
        LastActive(x) < LastActive(y) \/ (LastActive(x) = LastActive(y) /\ Slot(x) > Slot(y))

\* Mutant: the comparison is off by one.
M_Over == Residency /\ Cardinality(Candidates) > MaxResident + 1

Over == Residency /\ Cardinality(Candidates) > MaxResident

\* hibernate: handles are one residency's, the deadline is not.
Evict(x) ==
    /\ stage = "residency" /\ Over /\ x \in Candidates /\ First(x)
    /\ Hibernate(x)
    /\ park' = IF park[x].wait = "current" THEN [park EXCEPT ![x].wait = "old"] ELSE park
    /\ UNCHANGED <<inbox, wait, recent, driverVars>>

ResidencyDone == stage = "residency" /\ ~Over /\ Advance
-----------------------------------------------------------------------------
DeployInit ==
    /\ Init /\ here = Root
    /\ inbox = [x \in Node |-> FALSE] /\ wait = [x \in Node |-> Fresh]
    /\ park = [x \in Node |-> NoPark] /\ recent = <<>>
    /\ stage = "idle" /\ todo = <<>> /\ undriven = {}

StepBegin == stage = "idle" /\ Advance

Driver ==
    \/ StepBegin \/ DueDone \/ WakeDone \/ DriveDone \/ ResidencyDone
    \/ \E x \in Node : WakeDue(x) \/ WakeMail(x) \/ Evict(x)
    \/ DriveNext \/ DrivePump \/ Resume \/ StillParked

Program == GuestWorks \/ GuestReads \/ GuestStops \/ \E w \in Wait : GuestParks(w)

DeployNext ==
    \/ Driver \/ Program
    \/ \E x \in Node : Mail(x) \/ Tick(x) \/ KillOne(x)

DeploySpec == DeployInit /\ [][DeployNext]_deployVars

\* The loop calls step for as long as anything lives, each call returns, and
\* a program that runs parks or stops.
DeployFair ==
    DeploySpec /\ WF_deployVars(Driver) /\ WF_deployVars(GuestStops \/ \E w \in Wait : GuestParks(w))
-----------------------------------------------------------------------------
\* Properties.

(* Every variable has its type.                                             *)
DeployTypeOK ==
    /\ inbox \in [Node -> BOOLEAN] /\ wait \in [Node -> Wait]
    /\ park \in [Node -> Park \cup {NoPark}]
    /\ recent \in Seq(Node) /\ Len(recent) <= Cardinality(Node)
    /\ stage \in {"idle", "due", "wake", "drive", "guest", "residency"}
    /\ Elems(todo) \subseteq Node /\ undriven \subseteq Node

(* Between steps the budget holds, whoever worked, woke or died meanwhile   *)
(* (enforce_residency): beyond it no candidate that has run is resident.    *)
BudgetHeld ==
    stage = "idle" /\ Residency =>
        Cardinality({x \in Candidates : wait[x] # Fresh}) <= MaxResident

(* "Woken after it, the instance would meet enforce_residency with its      *)
(* activity still stale and be hibernated again undriven": an instance that *)
(* is woken, for a message or a deadline, is driven before it is evicted.   *)
WokenIsDriven == \A x \in undriven : place[x] = "resident"

(* What DeployHost keeps for an instance is the instance's: no deadline for *)
(* one that is gone, which would be due for ever, and no queue handle of an *)
(* earlier residency where drive would use it (released, attached).         *)
ParksExact ==
    \A x \in Node : /\ park[x] # NoPark => Alive(x)
                    /\ place[x] = "resident" => park[x].wait # "old"

(* A deadline that passed is heard: its owner is resumed, hibernated or not *)
(* and whatever the budget, or it dies (wake_due, drive).                   *)
DeadlineHeard == \A x \in Node : park[x].deadline = "due" ~> park[x].deadline # "due"

(* "Every drained request is answered" (pump.rs), and an answer "owed to an *)
(* instance that merely hibernated is held for its return": a program that  *)
(* waits on host/replies gets the answer the host has for it, or dies.      *)
AnswerLands ==
    \A x \in Node :
        (settled[x] # <<>> /\ "replies" \in wait[x].on) ~> settled[x] = <<>>

(* The comment on wait_of: "None for an instance that is running, gone, or  *)
(* hibernated (its handles died with the residency)".                       *)
WaitOfResident == \A x \in Node : place[x] = "cached" => park[x].wait = "none"
-----------------------------------------------------------------------------
\* The deployment of the runs: the root, which is 1, and two instances that ask
\* to be woken, of which the residency budget has room for one.

Slots == <<1, 2, 3>>

\* Everyone waits for messages; a caller for replies besides, and all but the
\* root with a timeout or without.
Deadlines ==
    [x \in Node |-> [on : {IF x \in Callers THEN {"inbox", "replies"} ELSE {"inbox"}},
                     timed : IF x = Root THEN {FALSE} ELSE BOOLEAN]]

\* A caller waits for its reply and for nothing else.
Replies == [x \in Node |-> [on : {IF x \in Callers THEN {"replies"} ELSE {"inbox"}}, timed : {FALSE}]]
=============================================================================
