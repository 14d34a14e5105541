---------------------------- MODULE DeployProofs ----------------------------
(***************************************************************************)
(* What a deployment's driver promises, for any instances, slot order,     *)
(* budget and waits.                                                       *)
(*                                                                         *)
(* Every step of the driver is a step of the pump or leaves it alone, so   *)
(* what PumpProofs shows holds in a deployment as well.  The promises of   *)
(* the driver's own rest on where an instance that was woken can be: still *)
(* ahead of the drive loop, whatever stopped or died meanwhile.            *)
(***************************************************************************)
EXTENDS Deploy, PumpProofs, FiniteSetTheorems

(* The types of what the argument reads.                                   *)
HostTypes ==
    /\ place \in [Node -> {"resident", "cached", "gone"}]
    /\ wait \in [Node -> Wait] /\ park \in [Node -> Park \cup {NoPark}]
    /\ todo \in Seq(Node) /\ undriven \subseteq Node /\ here \in Node
    /\ stage \in {"idle", "due", "wake", "drive", "guest", "residency"}

(* A drive is under way in the drive loop and nowhere else, of an instance *)
(* that is resident, and that is not one still to be driven.               *)
DriveInv ==
    /\ pc # "idle" => stage \in {"drive", "guest"} /\ place[here] = "resident" /\ here \notin undriven
    /\ stage = "guest" => pc = "run"

(* An instance that was woken waits for the drive loop, which has it ahead.*)
WokenInv ==
    /\ WokenIsDriven
    /\ stage \in {"idle", "residency"} => undriven = {}
    /\ stage \in {"drive", "guest"} => undriven \subseteq Elems(todo)

(* A program that parked has its park.                                     *)
ParkInv == ParksExact /\ \A x \in Node : wait[x] # Fresh => park[x] # NoPark

DeployInv == HostTypes /\ DriveInv /\ WokenInv /\ ParkInv /\ BudgetHeld
-----------------------------------------------------------------------------
(* The invariant, action by action.                                        *)

(* A park that is kept is not the absence of one.                          *)
LEMMA ParkFields ==
    /\ NoPark.wait = "none" /\ NoPark.deadline = "no park"
    /\ \A p \in Park : p # NoPark /\ p.deadline # "no park"
<1>1. NoPark.wait = "none" /\ NoPark.deadline = "no park"
  BY DEF NoPark
<1>2. \A p \in Park : p.deadline # "no park"
  BY DEF Park
<1>3. QED
  BY <1>1, <1>2

(* What none of the driver's own promises is about.                        *)
LEMMA Tables ==
    ASSUME HostTypes, UNCHANGED <<place, wait, park, stage, todo, undriven, here, pc>>, DriveInv, WokenInv, ParkInv, BudgetHeld
    PROVE  DeployInv'
BY DEF DeployInv, HostTypes, DriveInv, WokenInv, WokenIsDriven, ParkInv, ParksExact, Alive,
       BudgetHeld, Candidates

\* A deployment starts with the invariant.
LEMMA DeployInitInv == DeployInit => DeployInv
<1> SUFFICES ASSUME DeployInit PROVE DeployInv
  OBVIOUS
<1>1. HostTypes
  BY DeployAssumption, EmptySeq DEF DeployInit, Init, HostTypes, Wait, Fresh
<1>2. DriveInv /\ WokenInv
  BY DEF DeployInit, Init, DriveInv, WokenInv, WokenIsDriven
<1>3. ParkInv
  BY DEF DeployInit, Init, ParkInv, ParksExact, NoPark
<1>4. BudgetHeld
  <2>1. {x \in Candidates : wait[x] # Fresh} = {}
    BY DeployAssumption DEF DeployInit, Candidates
  <2>2. Cardinality({}) = 0
    BY FS_EmptySet
  <2>3. 0 <= MaxResident
    BY DeployAssumption
  <2>4. QED
    BY <2>1, <2>2, <2>3 DEF BudgetHeld
<1>5. QED
  BY <1>1, <1>2, <1>3, <1>4 DEF DeployInv

(* The stages of a step follow each other.                                 *)
LEMMA StageStep ==
    ASSUME DeployInv, StepBegin \/ DueDone \/ WakeDone \/ DriveDone \/ ResidencyDone
    PROVE  DeployInv'
<1> USE DEF DeployInv
<1>1. /\ UNCHANGED <<place, wait, park, undriven, here, pc>>
      /\ stage \in {"idle", "due", "wake", "drive", "residency"} /\ stage' = Then(stage)
      /\ todo' = IF stage' = "drive" THEN Order ELSE todo
  BY DEF StepBegin, DueDone, WakeDone, DriveDone, ResidencyDone, Advance, vars, guestVars, hostVars
<1>2. Order \in Seq(Node) /\ Elems(Order) = Node
  BY DeployAssumption, FS_CardinalityType DEF Elems
<1>3. HostTypes'
  BY <1>1, <1>2 DEF HostTypes, Then
<1>4. pc = "idle" 
  BY <1>1 DEF DriveInv, StepBegin, DueDone, WakeDone, DriveDone, ResidencyDone
<1>5. DriveInv'
  BY <1>1, <1>4 DEF DriveInv, Then
<1>6. stage = "drive" => todo = <<>>
  BY <1>1 DEF StepBegin, DueDone, WakeDone, DriveDone, ResidencyDone
<1>7. WokenInv'
  <2>1. WokenIsDriven'
    BY <1>1 DEF WokenInv, WokenIsDriven
  <2>2. stage' \in {"idle", "residency"} => undriven' = {}
    BY <1>1, <1>6 DEF Then, WokenInv, Elems
  <2>3. stage' \in {"drive", "guest"} => undriven' \subseteq Elems(todo')
    BY <1>1, <1>2 DEF Then, HostTypes
  <2>4. QED
    BY <2>1, <2>2, <2>3 DEF WokenInv, Elems
<1>8. ParkInv'
  BY <1>1 DEF ParkInv, ParksExact, Alive
<1>9. BudgetHeld'
  <2>1. SUFFICES ASSUME stage' = "idle", Residency
                 PROVE  Cardinality({x \in Candidates : wait[x] # Fresh}) <= MaxResident
    BY <1>1 DEF BudgetHeld, Candidates
  <2>2. stage = "residency"
    BY <1>1, <2>1 DEF Then
  <2>3. ~(Cardinality(Candidates) > MaxResident)
    BY <2>1, <2>2 DEF StepBegin, DueDone, WakeDone, DriveDone, ResidencyDone, Over
  <2>4. IsFiniteSet(Candidates)
    BY DeployAssumption, FS_Subset DEF Candidates
  <2>5. /\ Cardinality({x \in Candidates : wait[x] # Fresh}) \in Nat /\ Cardinality(Candidates) \in Nat
        /\ Cardinality({x \in Candidates : wait[x] # Fresh}) <= Cardinality(Candidates)
    BY <2>4, FS_Subset, FS_CardinalityType
  <2>6. QED
    BY <2>3, <2>5, DeployAssumption
<1>10. QED
  BY <1>3, <1>5, <1>7, <1>8, <1>9

(* An instance is woken, or dies of it.                                    *)
LEMMA RiseStep ==
    ASSUME DeployInv, NEW y \in Node, WakeDue(y) \/ WakeMail(y), Rise(y)
    PROVE  DeployInv'
<1> USE DEF DeployInv
<1>1. /\ stage \in {"due", "wake"} /\ UNCHANGED <<wait, stage, todo, here, pc>> /\ pc = "idle"
      /\ place[y] = "cached" /\ place' = [place EXCEPT ![y] = "resident"]
      /\ park' = IF park[y] = NoPark THEN park ELSE [park EXCEPT ![y].wait = "none"]
      /\ undriven' = undriven \cup {y}
  BY DEF WakeDue, WakeMail, Rise, Attached, Wake, SwapIn
<1>2. HostTypes'
  <2>1. park' \in [Node -> Park \cup {NoPark}]
    BY <1>1 DEF HostTypes, Park
  <2>2. QED
    BY <1>1, <2>1 DEF HostTypes
<1>3. DriveInv' /\ WokenInv'
  BY <1>1 DEF DriveInv, WokenInv, WokenIsDriven, HostTypes
<1>4. ParkInv'
  <2>1. ASSUME NEW x \in Node, x # y
        PROVE  park'[x] = park[x] /\ place'[x] = place[x]
    BY <1>1, <2>1 DEF HostTypes
  <2>2. place'[y] = "resident"
    BY <1>1 DEF HostTypes
  <2>3. park'[y].wait # "old" /\ (park[y] # NoPark => park'[y] # NoPark)
    <3>1. CASE park[y] = NoPark
      BY <1>1, <3>1, ParkFields
    <3>2. CASE park[y] # NoPark
      <4>1. park[y] \in Park /\ park'[y] = [park[y] EXCEPT !.wait = "none"]
        BY <1>1, <3>2 DEF HostTypes
      <4>2. park'[y].wait = "none" /\ park'[y].deadline = park[y].deadline
        BY <4>1 DEF Park
      <4>3. park[y].deadline # "no park" /\ NoPark.deadline = "no park"
        BY <4>1 DEF Park, NoPark
      <4>4. QED
        BY <4>2, <4>3
    <3>3. QED
      BY <3>1, <3>2
  <2>4. QED
    BY <1>1, <2>1, <2>2, <2>3 DEF ParkInv, ParksExact, Alive
<1>5. BudgetHeld'
  BY <1>1 DEF BudgetHeld
<1>6. QED
  BY <1>2, <1>3, <1>4, <1>5

(* An instance goes: killed by the host, by a wake that failed, or stopped.*)
LEMMA DeathStep ==
    ASSUME DeployInv, NEW y \in Node, Released(y), UNCHANGED here,
           park' = [park EXCEPT ![y] = NoPark], wait' = [wait EXCEPT ![y] = Fresh],
           undriven' = undriven \ {y}, UNCHANGED todo, pc' = "idle",
           stage' = IF stage = "guest" THEN "drive" ELSE stage,
           pc = "idle" \/ stage = "guest"
    PROVE  DeployInv'
<1> USE DEF DeployInv
<1>1. place' = [place EXCEPT ![y] = "gone"]
  BY DEF Released
<1>2. HostTypes'
  BY <1>1 DEF HostTypes, Fresh, Wait
<1>3. DriveInv'
  BY DEF DriveInv
<1>4. WokenInv'
  BY <1>1 DEF WokenInv, WokenIsDriven, HostTypes
<1>5. ParkInv'
  BY <1>1 DEF ParkInv, ParksExact, HostTypes, Alive, NoPark
<1>6. BudgetHeld'
  <2>1. SUFFICES ASSUME stage' = "idle", Residency
                 PROVE  Cardinality({x \in Candidates : wait[x] # Fresh}') <= MaxResident
    BY DEF BudgetHeld
  <2>2. stage = "idle"
    BY <2>1
  <2>3. {x \in Candidates : wait[x] # Fresh}' \subseteq {x \in Candidates : wait[x] # Fresh}
    BY <1>1, DeployAssumption DEF Candidates, HostTypes
  <2>4. IsFiniteSet({x \in Candidates : wait[x] # Fresh})
    BY DeployAssumption, FS_Subset DEF Candidates
  <2>5. /\ Cardinality({x \in Candidates : wait[x] # Fresh}) \in Nat
        /\ Cardinality({x \in Candidates : wait[x] # Fresh}') \in Nat
        /\ Cardinality({x \in Candidates : wait[x] # Fresh}') <= Cardinality({x \in Candidates : wait[x] # Fresh})
    BY <2>3, <2>4, FS_Subset, FS_CardinalityType
  <2>6. QED
    BY <2>1, <2>2, <2>5, DeployAssumption DEF BudgetHeld
<1>7. QED
  BY <1>2, <1>3, <1>4, <1>5, <1>6
-----------------------------------------------------------------------------
(* An instance is hibernated to meet the budget.                           *)
LEMMA EvictStep ==
    ASSUME DeployInv, NEW y \in Node, Evict(y)
    PROVE  DeployInv'
<1> USE DEF DeployInv
<1>1. /\ stage = "residency" /\ pc = "idle" /\ UNCHANGED <<wait, stage, todo, undriven, here, pc>>
      /\ place[y] = "resident" /\ place' = [place EXCEPT ![y] = "cached"]
      /\ park' = IF park[y].wait = "current" THEN [park EXCEPT ![y].wait = "old"] ELSE park
  BY DEF Evict, Hibernate, SwapOut, driverVars
<1>2. ASSUME park[y].wait = "current"
      PROVE  park[y] \in Park /\ park'[y] = [park[y] EXCEPT !.wait = "old"]
  BY <1>1, <1>2, ParkFields DEF HostTypes
<1>3. HostTypes'
  <2>1. park' \in [Node -> Park \cup {NoPark}]
    BY <1>1, <1>2 DEF HostTypes, Park
  <2>2. QED
    BY <1>1, <2>1 DEF HostTypes
<1>4. DriveInv' /\ WokenInv'
  BY <1>1 DEF DriveInv, WokenInv, WokenIsDriven
<1>5. ParkInv'
  <2>1. ASSUME NEW x \in Node, x # y
        PROVE  park'[x] = park[x] /\ place'[x] = place[x]
    BY <1>1, <2>1 DEF HostTypes
  <2>2. place'[y] = "cached"
    BY <1>1 DEF HostTypes
  <2>3. park[y] # NoPark => park'[y] # NoPark
    <3>1. CASE park[y].wait = "current"
      <4>1. park'[y].deadline = park[y].deadline
        BY <1>2, <3>1 DEF Park
      <4>2. park[y].deadline # "no park" /\ NoPark.deadline = "no park"
        BY <1>2, <3>1 DEF Park, NoPark
      <4>3. QED
        BY <4>1, <4>2
    <3>2. CASE park[y].wait # "current"
      BY <1>1, <3>2
    <3>3. QED
      BY <3>1, <3>2
  <2>4. QED
    BY <1>1, <2>1, <2>2, <2>3 DEF ParkInv, ParksExact, Alive
<1>6. BudgetHeld'
  BY <1>1 DEF BudgetHeld
<1>7. QED
  BY <1>3, <1>4, <1>5, <1>6

(* The drive loop comes to the next slot.                                  *)
LEMMA DriveNextStep ==
    ASSUME DeployInv, DriveNext
    PROVE  DeployInv'
<1> USE DEF DeployInv
<1>1. /\ stage = "drive" /\ pc = "idle" /\ todo # <<>> /\ todo' = Tail(todo)
      /\ UNCHANGED <<place, wait, park, stage>>
      /\ \/ UNCHANGED <<pc, here, undriven>> /\ place[Head(todo)] # "resident"
         \/ /\ here' = Head(todo) /\ place[Head(todo)] = "resident"
            /\ undriven' = undriven \ {Head(todo)}
  BY DEF DriveNext, Drive, vars, guestVars, hostVars
<1>2. /\ Head(todo) \in Node /\ Tail(todo) \in Seq(Node)
      /\ Elems(todo) \subseteq {Head(todo)} \cup Elems(Tail(todo))
  <2>1. /\ todo \in Seq(Node) /\ Len(todo) \in Nat /\ Len(todo) # 0 /\ Len(Tail(todo)) = Len(todo) - 1
        /\ Tail(todo) \in Seq(Node) /\ \A i \in 1..Len(Tail(todo)) : Tail(todo)[i] = todo[i + 1]
    BY <1>1, HeadTailProperties, EmptySeq, LenProperties DEF HostTypes
  <2>2. Head(todo) = todo[1] /\ Head(todo) \in Node
    BY <2>1
  <2>3. ASSUME NEW i \in DOMAIN todo PROVE todo[i] = Head(todo) \/ todo[i] \in Elems(Tail(todo))
    <3>1. DOMAIN todo = 1..Len(todo) /\ DOMAIN Tail(todo) = 1..Len(Tail(todo))
      BY <2>1
    <3>2. CASE i = 1
      BY <2>2, <3>2
    <3>3. CASE i # 1
      <4>1. i - 1 \in 1..Len(Tail(todo)) /\ Tail(todo)[i - 1] = todo[(i - 1) + 1] /\ (i - 1) + 1 = i
        BY <2>1, <2>3, <3>1, <3>3
      <4>2. QED
        BY <3>1, <4>1 DEF Elems
    <3>4. QED
      BY <3>2, <3>3
  <2>4. QED
    BY <2>1, <2>2, <2>3 DEF Elems
<1>3. HostTypes'
  BY <1>1, <1>2 DEF HostTypes
<1>4. DriveInv'
  BY <1>1 DEF DriveInv, DriveNext, Drive
<1>5. WokenInv'
  BY <1>1, <1>2 DEF WokenInv, WokenIsDriven, Elems
<1>6. ParkInv'
  BY <1>1 DEF ParkInv, ParksExact, Alive
<1>7. BudgetHeld'
  BY <1>1 DEF BudgetHeld
<1>8. QED
  BY <1>3, <1>4, <1>5, <1>6, <1>7

(* Inside a drive: the pump, and DeployHost::drive around the guest.       *)
LEMMA DriveStep ==
    ASSUME DeployInv, DrivePump \/ Resume \/ StillParked \/ GuestWorks \/ GuestReads
                      \/ \E w \in Wait : GuestParks(w)
    PROVE  DeployInv'
<1> USE DEF DeployInv
<1>1. /\ stage \in {"drive", "guest"} /\ stage' \in {"drive", "guest"} /\ pc # "idle"
      /\ UNCHANGED <<place, todo, undriven, here>>
      /\ stage' = "guest" => pc' = "run"
  <2>1. CASE DrivePump
    BY <2>1 DEF DrivePump, Pumping, Settle, Polled, NoQueues, DeliverOne, DeliverDone, TakeCall,
       DrainDone, Delivering, Draining, driverVars, guestVars
  <2>2. CASE Resume \/ StillParked
    BY <2>2 DEF Resume, StillParked, Parked, guestVars, vars, driverVars
  <2>3. CASE GuestWorks
    BY <2>3 DEF GuestWorks, Declare, Call, Read, driverVars, guestVars, DriveInv
  <2>4. CASE GuestReads
    BY <2>4 DEF GuestReads, vars, guestVars, driverVars, DriveInv
  <2>5. CASE \E w \in Wait : GuestParks(w)
    BY <2>5 DEF GuestParks, Parked, guestVars
  <2>6. QED
    BY <2>1, <2>2, <2>3, <2>4, <2>5
<1>2. \/ UNCHANGED <<wait, park>>
      \/ wait[here] # Fresh /\ park' = [park EXCEPT ![here].wait = "current"] /\ UNCHANGED wait
      \/ \E w \in Wait : /\ wait' = [wait EXCEPT ![here] = w]
                         /\ park' = [park EXCEPT ![here] = [wait |-> "current",
                                       deadline |-> IF w.timed THEN "armed" ELSE "never"]]
  BY DEF DrivePump, Resume, StillParked, GuestWorks, GuestReads, GuestParks, hostVars, Resumes
<1>3. place[here] = "resident" /\ here \in Node
  BY <1>1 DEF DriveInv, HostTypes
<1>4. /\ wait' \in [Node -> Wait] /\ park' \in [Node -> Park \cup {NoPark}] /\ ParkInv'
  <2>1. CASE UNCHANGED <<wait, park>>
    BY <1>1, <2>1 DEF HostTypes, ParkInv, ParksExact, Alive
  <2>2. CASE wait[here] # Fresh /\ park' = [park EXCEPT ![here].wait = "current"] /\ UNCHANGED wait
    <3>1. park[here] \in Park /\ park'[here] = [park[here] EXCEPT !.wait = "current"]
      BY <1>3, <2>2 DEF ParkInv, HostTypes
    <3>2. park'[here] \in Park /\ park'[here].wait = "current"
      BY <3>1 DEF Park
    <3>3. park'[here] # NoPark
      BY <3>2, ParkFields
    <3>4. ASSUME NEW x \in Node, x # here PROVE park'[x] = park[x]
      BY <2>2, <3>4 DEF HostTypes
    <3>5. park' \in [Node -> Park \cup {NoPark}]
      BY <2>2, <3>2, <3>4 DEF HostTypes
    <3>6. QED
      BY <1>1, <1>3, <2>2, <3>2, <3>3, <3>4, <3>5 DEF HostTypes, ParkInv, ParksExact, Alive
  <2>3. CASE \E w \in Wait : /\ wait' = [wait EXCEPT ![here] = w]
                             /\ park' = [park EXCEPT ![here] = [wait |-> "current",
                                           deadline |-> IF w.timed THEN "armed" ELSE "never"]]
    <3>1. PICK w \in Wait : /\ wait' = [wait EXCEPT ![here] = w]
                            /\ park' = [park EXCEPT ![here] = [wait |-> "current",
                                          deadline |-> IF w.timed THEN "armed" ELSE "never"]]
      BY <2>3
    <3>2. PICK d \in {"armed", "never"} : park' = [park EXCEPT ![here] = [wait |-> "current", deadline |-> d]]
      BY <3>1
    <3>3. park'[here] = [wait |-> "current", deadline |-> d] /\ park'[here] \in Park
      BY <1>3, <3>2 DEF HostTypes, Park
    <3>4. park'[here] # NoPark /\ park'[here].wait = "current"
      <4>1. [wait |-> "current", deadline |-> d].wait = "current"
        OBVIOUS
      <4>2. QED
        BY <3>3, <4>1, ParkFields
    <3>5. ASSUME NEW x \in Node, x # here PROVE park'[x] = park[x] /\ wait'[x] = wait[x]
      BY <3>1, <3>2, <3>5 DEF HostTypes
    <3>6. wait' \in [Node -> Wait] /\ park' \in [Node -> Park \cup {NoPark}]
      BY <3>1, <3>2, <3>3 DEF HostTypes
    <3>7. QED
      BY <1>1, <1>3, <3>4, <3>5, <3>6 DEF ParkInv, ParksExact, Alive
  <2>4. QED
    BY <1>2, <2>1, <2>2, <2>3
<1>5. HostTypes'
  BY <1>1, <1>4 DEF HostTypes
<1>6. DriveInv' /\ WokenInv'
  BY <1>1 DEF DriveInv, WokenInv, WokenIsDriven, Elems
<1>7. BudgetHeld'
  BY <1>1 DEF BudgetHeld
<1>8. QED
  BY <1>4, <1>5, <1>6, <1>7

(* A message arrives, or a deadline passes.                                *)
LEMMA OutsideStep ==
    ASSUME DeployInv, NEW y \in Node, Mail(y) \/ Tick(y)
    PROVE  DeployInv'
<1> USE DEF DeployInv
<1>1. /\ UNCHANGED <<place, wait, stage, todo, undriven, here, pc>>
      /\ UNCHANGED park \/ (park[y].deadline = "armed" /\ park' = [park EXCEPT ![y].deadline = "due"])
  BY DEF Mail, Tick, vars, guestVars, driverVars
<1>2. CASE UNCHANGED park
  BY <1>1, <1>2, Tables
<1>3. CASE park[y].deadline = "armed" /\ park' = [park EXCEPT ![y].deadline = "due"]
  <2>1. park[y] \in Park /\ park'[y] = [park[y] EXCEPT !.deadline = "due"]
    BY <1>3, ParkFields DEF HostTypes
  <2>2. park'[y] \in Park /\ park'[y].wait = park[y].wait /\ park'[y].deadline = "due"
    BY <2>1 DEF Park
  <2>3. park'[y] # NoPark /\ park[y] # NoPark
    BY <2>2, <1>3, ParkFields
  <2>4. ASSUME NEW x \in Node, x # y PROVE park'[x] = park[x]
    BY <1>3, <2>4 DEF HostTypes
  <2>5. HostTypes'
    BY <1>1, <1>3, <2>2 DEF HostTypes
  <2>6. ParkInv'
    BY <1>1, <2>2, <2>3, <2>4 DEF ParkInv, ParksExact, Alive
  <2>7. DriveInv' /\ WokenInv' /\ BudgetHeld'
    BY <1>1 DEF DriveInv, WokenInv, WokenIsDriven, Elems, BudgetHeld, Candidates
  <2>8. QED
    BY <2>5, <2>6, <2>7
<1>4. QED
  BY <1>1, <1>2, <1>3

\* Every step of a deployment keeps it.
LEMMA DeployNextInv == DeployInv /\ [DeployNext]_deployVars => DeployInv'
<1> SUFFICES ASSUME DeployInv, [DeployNext]_deployVars PROVE DeployInv'
  OBVIOUS
<1>1. CASE UNCHANGED deployVars
  BY <1>1, Tables DEF DeployInv, deployVars, vars, guestVars, hostVars, driverVars
<1>2. CASE \E y \in Node : (RiseOrDie(y) /\ (WakeDue(y) \/ WakeMail(y))) \/ KillOne(y)
  <2>1. PICK y \in Node : (RiseOrDie(y) /\ (WakeDue(y) \/ WakeMail(y))) \/ KillOne(y)
    BY <1>2
  <2>2. CASE Rise(y) /\ (WakeDue(y) \/ WakeMail(y))
    BY <2>2, RiseStep
  <2>3. CASE ~Rise(y) \/ KillOne(y)
    <3>1. Kill(y) /\ Dead(y) /\ UNCHANGED todo /\ stage # "guest"
      BY <2>1, <2>3 DEF RiseOrDie, KillOne, WakeDue, WakeMail
    <3>2. QED
      BY <3>1, DeathStep DEF Kill, Dead, Dropped
  <2>4. QED
    BY <2>1, <2>2, <2>3
<1>3. CASE GuestStops
  <2>1. here \in Node /\ here \notin undriven /\ stage = "guest"
    BY <1>3 DEF DeployInv, HostTypes, DriveInv, GuestStops, Stopped
  <2>2. QED
    BY <1>3, <2>1, DeathStep DEF GuestStops, Stopped, Dropped
<1>4. CASE Driver
  BY <1>2, <1>4, StageStep, EvictStep, DriveNextStep, DriveStep DEF Driver, WakeDue, WakeMail
<1>5. CASE Program
  BY <1>3, <1>5, DriveStep DEF Program
<1>6. CASE \E x \in Node : Mail(x) \/ Tick(x) \/ KillOne(x)
  BY <1>2, <1>6, OutsideStep
<1>7. QED
  BY <1>1, <1>4, <1>5, <1>6 DEF DeployNext

(* The driver's inductive invariant holds in every state of a deployment.  *)
THEOREM DeployInvariance == DeploySpec => []DeployInv
BY DeployInitInv, DeployNextInv, PTL DEF DeploySpec

(* Between steps no more candidates that have run are resident than the    *)
(* budget allows, whatever woke, worked or died (enforce_residency).       *)
THEOREM BudgetAlwaysHeld == DeploySpec => []BudgetHeld
<1>1. DeployInv => BudgetHeld
  BY DEF DeployInv
<1>2. QED
  BY <1>1, DeployInvariance, PTL

(* An instance that is woken is driven before the residency policy may     *)
(* hibernate it again (DeployDriver::step, wake_due).                      *)
THEOREM WokenAlwaysDriven == DeploySpec => []WokenIsDriven
<1>1. DeployInv => WokenIsDriven
  BY DEF DeployInv, WokenInv
<1>2. QED
  BY <1>1, DeployInvariance, PTL

(* No deadline is kept for an instance that is gone and no queue handle of *)
(* an earlier residency for one that is resident (released, attached).     *)
THEOREM ParksAlwaysExact == DeploySpec => []ParksExact
<1>1. DeployInv => ParksExact
  BY DEF DeployInv, ParkInv
<1>2. QED
  BY <1>1, DeployInvariance, PTL
-----------------------------------------------------------------------------
(* The driver as a user of the pump.                                       *)

\* Every step of a deployment is a step of the pump, or none.
LEMMA DeployStepPumps == DeployInv /\ DeployNext => [Next]_vars
<1> SUFFICES ASSUME DeployInv, DeployNext PROVE Next \/ UNCHANGED vars
  OBVIOUS
<1>1. CASE Driver
  <2>1. CASE StepBegin \/ DueDone \/ WakeDone \/ DriveDone \/ ResidencyDone
    BY <2>1 DEF StepBegin, DueDone, WakeDone, DriveDone, ResidencyDone, Advance
  <2>2. CASE \E x \in Node : WakeDue(x) \/ WakeMail(x) \/ Evict(x)
    BY <2>2 DEF WakeDue, WakeMail, RiseOrDie, Rise, Evict, Next
  <2>3. CASE DriveNext
    <3>1. CASE UNCHANGED vars
      BY <3>1
    <3>2. CASE \E R \in Ready : Drive(Head(todo), R) 
      <4>1. Head(todo) \in Node
        BY <2>3 DEF DeployInv, HostTypes, DriveNext
      <4>2. QED
        BY <3>2, <4>1 DEF Next
    <3>3. QED
      BY <2>3, <3>1, <3>2 DEF DriveNext
  <2>4. CASE DrivePump \/ Resume \/ StillParked
    BY <2>4 DEF DrivePump, Resume, StillParked, Next
  <2>5. QED
    BY <1>1, <2>1, <2>2, <2>3, <2>4 DEF Driver
<1>2. CASE Program
  BY <1>2 DEF Program, GuestWorks, GuestReads, GuestStops, GuestParks, Next, Guest
<1>3. CASE \E x \in Node : Mail(x) \/ Tick(x) \/ KillOne(x)
  BY <1>3 DEF Mail, Tick, KillOne, Next
<1>4. QED
  BY <1>1, <1>2, <1>3 DEF DeployNext

(* A deployment's driver uses the pump as PumpHost does: what the pump     *)
(* promises holds under it (DeployDriver::step around PumpHost::drive).    *)
THEOREM DeployPumps == DeploySpec => Spec
<1>1. DeployInit => Init
  BY DEF DeployInit
<1>2. DeployInv /\ [DeployNext]_deployVars => [Next]_vars
  BY DeployStepPumps DEF deployVars
<1>3. QED
  BY <1>1, <1>2, DeployInvariance, PTL DEF DeploySpec, Spec

(* In a deployment, through wakes, evictions, stops and failed wakes, each *)
(* request is answered once, answers keep their order and nothing is owed  *)
(* to the dead (pump.rs under start.rs).                                   *)
THEOREM DeploymentAnswers == DeploySpec => [](EachOnce /\ AnswersInOrder /\ OwedToTheLiving)
BY DeployPumps, AnsweredOnce, OrderKept, NothingOwedToTheDead, PTL
=============================================================================
