------------------------------- MODULE Swarm -------------------------------
(***************************************************************************)
(* The instance table of drt-swarm (crates/drt-swarm/src/swarm.rs): slots  *)
(* and handles, the lifecycle requests programs make of it, hibernation,   *)
(* the wake buffer, and the phases of Swarm::step.                         *)
(*                                                                         *)
(* A swarm runs on one thread.  The host calls into it between steps;      *)
(* inside a step the phases follow one another, and each iteration of a    *)
(* phase's loop is one action here (pc, cur and bound are that program     *)
(* position).  What a guest does is not the swarm's to choose, so its      *)
(* requests, its stops and the engine's refusals are nondeterministic.     *)
(*                                                                         *)
(* Slot k of the table is node[table[k]]: the record of a handle is kept   *)
(* under the handle, and table/index say which slot it occupies.  `alive`  *)
(* is not a field: it is false only between claim and build, inside one    *)
(* action.                                                                 *)
(***************************************************************************)
EXTENDS Integers, FiniteSets

CONSTANTS MaxInstances,      \* the instance table's bound
          SpawnRate,         \* spawns per step
          MaxPending,        \* the wake buffer's bound (16 in the code)
          MaxId,             \* bound of the model: handles given out
          CapNames,          \* capability names
          Lifecycle,         \* the capability that gates system/lifecycle
          MaxBudget,         \* the largest bound a request can state
          RootCaps,          \* the deployment's grants
          Requests,          \* the spawn requests programs make
          UnsafeStdlib,      \* the swarm's allow_unsafe_stdlib
          AllowHibernation   \* the swarm's allow_hibernation

ASSUME SwarmAssumption ==
    /\ MaxInstances \in Nat \ {0} /\ SpawnRate \in Nat \ {0}
    /\ MaxPending \in Nat \ {0} /\ MaxId \in Nat \ {0} /\ MaxBudget \in Nat
    /\ Lifecycle \in CapNames /\ RootCaps \subseteq CapNames
    /\ UnsafeStdlib \in BOOLEAN /\ AllowHibernation \in BOOLEAN
    /\ Requests \subseteq [op : {"spawn"}, caps : SUBSET CapNames, budget : 1..(MaxBudget + 1),
                            sealed : BOOLEAN, wom : BOOLEAN]

VARIABLES table,      \* slot -> the handle in it, 0 when free
          len,        \* how many slots the table has grown to
          index,      \* handle -> its slot, 0 when it names nothing
          node,       \* handle -> the fields of its slot
          next_id,    \* the next handle
          spawns,     \* spawns_this_step
          pc,         \* where in step() the swarm is; "idle" between steps
          cur, bound, \* the running loop's cursor and its captured end
          event,      \* the event the last action put on a system/events queue
          attached,   \* host view: attached calls minus detached calls, per handle
          released    \* host view: released calls, per handle

tableVars == <<table, len, index, node, next_id, attached, released>>
stepVars  == <<spawns, pc, cur, bound>>
vars      == <<tableVars, stepVars, event>>
-----------------------------------------------------------------------------
Slot      == 1..MaxInstances
Id        == 1..MaxId
Unlimited == MaxBudget + 1      \* an unstated bound (None), looser than any stated one
Bound     == 1..Unlimited

\* A spawn request, as do_spawn reads it: what it grants, the bound it states
\* or not, unsafe_stdlib: false, wake_on_message.
NoReq    == [op |-> "none"]

\* The requests drain() tells apart.  "bad" is every request refused before
\* it names an instance: too large, unreadable, no op, an unknown op, no
\* code, malformed caps, a reserved name, no usable id.  An id of 0 is an
\* absent one.
OtherReq == [op : {"kill", "query"}, id : Id] \cup [op : {"ref"}, id : Id \cup {0}]
            \cup [op : {"hibernate"}, id : Id \cup {0}, wom : BOOLEAN]
            \cup {[op |-> "bad"]}

Node == [parent : 0..MaxId, caps : SUBSET CapNames, budget : 0..Unlimited,
         unsafe : BOOLEAN, wom : BOOLEAN, inst : BOOLEAN, snap : BOOLEAN,
         ran : BOOLEAN, pending : 0..MaxPending, deferred : Requests \cup {NoReq}]

\* Slot::free
FreeNode == [parent |-> 0, caps |-> {}, budget |-> 0, unsafe |-> FALSE,
             wom |-> FALSE, inst |-> FALSE, snap |-> FALSE, ran |-> FALSE,
             pending |-> 0, deferred |-> NoReq]

EventNames == {"spawned", "denied", "throttled", "status", "gone", "ref",
               "hibernated", "exited", "faulted", "exceeded", "ended"}
NoEvent == [what |-> "none", to |-> 0, about |-> 0]
StopEvents == {"exited", "faulted", "exceeded", "ended"}
-----------------------------------------------------------------------------
\* The table.

Live        == {h \in Id : index[h] # 0}
Up          == [h \in Id |-> node[h].parent]

\* D holds, with a node, every child of that node: the state in which the
\* marking loop of kill_subtree makes a pass and changes nothing.
Closed(N, up, D) == \A g \in N : up[g] \in D => g \in D

\* The node h and everything below it: the least closed set that holds h,
\* which is what marking to a fixpoint from h computes.
Below(N, up, h) ==
    {g \in N : \A D \in SUBSET N : (h \in D /\ Closed(N, up, D)) => g \in D}

\* Mutant: one marking pass, which reaches children and not grandchildren.
M_Subtree(h) == {g \in Live : g = h \/ node[g].parent = h}

\* kill_subtree's marking: the instance and everything below it.
Subtree(h)  == Below(Live, Up, h)

\* Mutant: any instance may act on any other.
M_IsAncestor(a, t) == t # a

\* is_ancestor: the walk up from t meets a exactly when marking down from a
\* reaches t.
IsAncestor(a, t) == t # a /\ t \in Subtree(a)

\* emit: an event reaches its addressee's engine only while the addressee is
\* resident; one to a cached or unknown instance is dropped.  Whether the
\* guest's own queue then has room is the guest's declaration, not modelled.
Emit(to, what, about) ==
    event' = IF to # 0 /\ node'[to].inst
             THEN [what |-> what, to |-> to, about |-> about] ELSE NoEvent

\* release, for every slot of a set: the host hears detached for a resident
\* instance, then released; handle and slot part for good.
Release(D) ==
    /\ table' = [k \in Slot |-> IF table[k] \in D THEN 0 ELSE table[k]]
    /\ index' = [h \in Id |-> IF h \in D THEN 0 ELSE index[h]]
    /\ node' = [h \in Id |-> IF h \in D THEN FreeNode ELSE node[h]]
    /\ attached' = [h \in Id |-> IF h \in D /\ node[h].inst THEN attached[h] - 1
                                                            ELSE attached[h]]
    /\ released' = [h \in Id |-> IF h \in D THEN released[h] + 1 ELSE released[h]]
    /\ UNCHANGED <<len, next_id>>

\* Mutant: the parent is read after the slot was freed.
M_Stop(h, what) == Release(Subtree(h)) /\ Emit(node'[h].parent, what, h)

\* kill_subtree, and the event every caller sends the parent afterwards.
Stop(h, what) ==
    LET p == node[h].parent
    IN  Release(Subtree(h)) /\ Emit(p, what, h)

HasSlot      == \E k \in Slot : table[k] = 0
FirstFree(k) == table[k] = 0 /\ \A j \in 1..(k - 1) : table[j] # 0

\* Mutant: the handle counter does not move.
M_Claim(k) == FirstFree(k) /\ len' = (IF k > len THEN k ELSE len) /\ UNCHANGED next_id

\* claim: the first free slot, growing the table when there is none, and a
\* handle that no instance has had.
Claim(k) ==
    /\ FirstFree(k)
    /\ len' = IF k > len THEN k ELSE len
    /\ next_id' = next_id + 1

\* build, when the engine loads the program.
Built(k, n) ==
    /\ table' = [table EXCEPT ![k] = next_id]
    /\ index' = [index EXCEPT ![next_id] = k]
    /\ attached' = [attached EXCEPT ![next_id] = @ + 1]
    /\ node' = [n EXCEPT ![next_id].inst = TRUE]
    /\ UNCHANGED released

\* build, when it will not load: the slot is released, the handle is spent.
NotBuilt(n) ==
    /\ node' = [n EXCEPT ![next_id] = FreeNode]
    /\ released' = [released EXCEPT ![next_id] = @ + 1]
    /\ UNCHANGED <<table, index, attached>>
-----------------------------------------------------------------------------
\* Residency and delivery.

\* Mutant: the host is not told that the instance left.
M_SwapOut(h, n) ==
    /\ node' = [n EXCEPT ![h] = [@ EXCEPT !.inst = FALSE, !.snap = TRUE]]
    /\ UNCHANGED <<table, len, index, next_id, attached, released>>

\* hibernate, its success path.  The engine snapshots a parked instance only.
SwapOut(h, n) ==
    /\ node' = [n EXCEPT ![h] = [@ EXCEPT !.inst = FALSE, !.snap = TRUE]]
    /\ attached' = [attached EXCEPT ![h] = @ - 1]
    /\ UNCHANGED <<table, len, index, next_id, released>>

\* Mutant: the buffer is not emptied.
M_SwapIn(h) ==
    /\ node' = [node EXCEPT ![h] = [@ EXCEPT !.inst = TRUE, !.snap = FALSE]]
    /\ attached' = [attached EXCEPT ![h] = @ + 1]
    /\ UNCHANGED <<table, len, index, next_id, released>>

\* wake, its success path: the buffer drains into the restored instance
\* before anything else can reach it.
SwapIn(h) ==
    /\ node' = [node EXCEPT ![h] = [@ EXCEPT !.inst = TRUE, !.snap = FALSE, !.pending = 0]]
    /\ attached' = [attached EXCEPT ![h] = @ + 1]
    /\ UNCHANGED <<table, len, index, next_id, released>>

\* Mutant: the buffer's bound is off by one.
M_Buffers(h) ==
    index[h] # 0 /\ ~node[h].inst /\ node[h].wom /\ node[h].pending <= MaxPending

\* push: the one row of the delivery table that changes the swarm.  A push to
\* a resident instance lands in the guest's queue, every other is refused.
Buffers(h) ==
    index[h] # 0 /\ ~node[h].inst /\ node[h].wom /\ node[h].pending < MaxPending

Push(h) ==
    /\ node' = IF Buffers(h) THEN [node EXCEPT ![h].pending = @ + 1] ELSE node
    /\ UNCHANGED <<table, len, index, next_id, attached, released>>
-----------------------------------------------------------------------------
\* The host's calls, between steps.

\* root_with_numeric, called once, before the first step.
Root(b) ==
    /\ pc = "idle" /\ next_id = 1
    /\ LET n == [node EXCEPT ![1] = [FreeNode EXCEPT !.caps = RootCaps,
                                       !.budget = b, !.unsafe = UnsafeStdlib]]
       IN  \E k \in Slot : Claim(k) /\ (Built(k, n) \/ NotBuilt(n))
    /\ event' = NoEvent
    /\ UNCHANGED stepVars

HostKill(h) ==
    /\ pc = "idle" /\ h \in Live
    /\ Stop(h, "exited")
    /\ UNCHANGED stepVars

HostHibernate(h) ==
    /\ pc = "idle" /\ AllowHibernation
    /\ h \in Live /\ node[h].inst /\ node[h].ran
    /\ SwapOut(h, node)
    /\ event' = NoEvent
    /\ UNCHANGED stepVars

HostWake(h) ==
    /\ pc = "idle"
    /\ h \in Live /\ ~node[h].inst /\ node[h].snap
    /\ SwapIn(h)
    /\ event' = NoEvent
    /\ UNCHANGED stepVars

HostPush(h) ==
    /\ pc = "idle" /\ Push(h)
    /\ event' = NoEvent
    /\ UNCHANGED stepVars
-----------------------------------------------------------------------------
\* Swarm::step.

\* Leave a phase for the next one.
Goto(phase, end) == pc' = phase /\ cur' = 1 /\ bound' = end

\* One more turn of the running loop.
Turn == cur' = cur + 1 /\ UNCHANGED <<spawns, pc, bound>>

BeginStep ==
    /\ pc = "idle" /\ next_id > 1
    /\ spawns' = 0 /\ Goto("ended", 0)
    /\ event' = NoEvent
    /\ UNCHANGED tableVars

\* host.ended(): the owner of a vital resource that ended dies where it lies.
Ended(h) ==
    /\ pc = "ended" /\ h \in Live
    /\ Stop(h, "ended")
    /\ UNCHANGED stepVars

\* host.notices(), and what instances pushed at each other: pushes, to any
\* handle, in any number.  Endpoints models which.
Deliver(h) ==
    /\ pc \in {"notices", "route", "finish"}
    /\ Push(h)
    /\ event' = NoEvent
    /\ UNCHANGED stepVars

EndPhase ==
    /\ \/ pc = "ended" /\ Goto("notices", 0)
       \/ pc = "notices" /\ Goto("route", 0)
       \/ pc = "route" /\ Goto("wake", len)
       \/ pc = "wake" /\ cur > bound /\ Goto("drain", len)
       \/ pc = "drain" /\ cur > bound /\ Goto("drive", len)
       \/ pc = "drive" /\ cur > bound /\ Goto("idle", 0)
    /\ event' = NoEvent
    /\ UNCHANGED <<tableVars, spawns>>

Here == table[cur]     \* the handle in the cursor's slot, 0 for a free one

\* Mutant: one buffered message is not worth a wake.
M_WakeWanted == Here # 0 /\ ~node[Here].inst /\ node[Here].pending > 1

\* The wake loop skips a free slot, a resident instance, an empty buffer.
WakeWanted == Here # 0 /\ ~node[Here].inst /\ node[Here].pending > 0

WakeNext ==
    /\ pc = "wake" /\ cur <= bound
    /\ \/ ~WakeWanted /\ UNCHANGED tableVars /\ event' = NoEvent
       \/ WakeWanted /\ node[Here].snap /\ SwapIn(Here) /\ event' = NoEvent
       \/ WakeWanted /\ Stop(Here, "faulted")   \* it will not restore
    /\ Turn
-----------------------------------------------------------------------------
\* drain: one instance's lifecycle queue.

CanDrain == Here # 0 /\ node[Here].inst /\ Lifecycle \in node[Here].caps

\* A request for the loop to read: the deferred one if there is one, else
\* anything a program that has run may have queued.  The bound MaxId leaves a
\* handle for every spawn already deferred.
Deferrers == {h \in Id : node[h].deferred # NoReq}
Asked(req) ==
    IF node[Here].deferred # NoReq THEN req = node[Here].deferred
    ELSE /\ node[Here].ran
         /\ req.op = "spawn" => next_id + Cardinality(Deferrers) <= MaxId

Taken(h) == [node EXCEPT ![h].deferred = NoReq]

\* Mutants: a stated bound is not compared; an unstated one means no bound.
M_FitsWithin(child, parent)      == TRUE
M_ResolvedAgainst(child, parent) == child

\* Budget::fits_within and resolved_against; Numeric's are the same two rules.
FitsWithin(child, parent)      == child = Unlimited \/ child <= parent
ResolvedAgainst(child, parent) == IF child = Unlimited THEN parent ELSE child

\* CapSet::attenuate: granting is holding.
MayGrant(p, caps) == caps \subseteq node[p].caps

Child(p, req) ==
    [FreeNode EXCEPT !.parent = p,
                     !.caps = req.caps,
                     !.budget = ResolvedAgainst(req.budget, node[p].budget),
                     !.unsafe = node[p].unsafe /\ ~req.sealed,
                     !.wom = req.wom]

DoSpawn(p, req) ==
    IF MayGrant(p, req.caps) /\ FitsWithin(req.budget, node[p].budget) /\ HasSlot
    THEN LET n == [Taken(p) EXCEPT ![next_id] = Child(p, req)]
         IN  \E k \in Slot :
               /\ Claim(k)
               /\ \/ Built(k, n) /\ spawns' = spawns + 1 /\ Emit(p, "spawned", next_id)
                  \/ NotBuilt(n) /\ UNCHANGED spawns /\ Emit(p, "faulted", next_id)
    ELSE /\ node' = Taken(p)
         /\ Emit(p, "denied", 0)
         /\ UNCHANGED <<table, len, index, next_id, attached, released, spawns>>

\* A request answered with an event and nothing else.
Answer(p, what, about) == UNCHANGED <<tableVars, spawns>> /\ Emit(p, what, about)

DoKill(p, t) ==
    IF t \in Live /\ IsAncestor(p, t)
    THEN Stop(t, "exited") /\ UNCHANGED spawns
    ELSE Answer(p, "denied", t)

\* hibernate of who, the requester or a descendant.  wake_on_message is set
\* before the swap is tried, and stays set when it is refused.
DoHibernate(p, req) ==
    LET who == IF req.id = 0 THEN p ELSE req.id
        n   == [node EXCEPT ![who].wom = @ \/ req.wom]
        tell == IF who # p THEN p ELSE node[p].parent
    IN  IF who # p /\ ~(who \in Live /\ IsAncestor(p, who))
        THEN Answer(p, "denied", who)
        ELSE /\ \/ /\ AllowHibernation /\ node[who].inst /\ node[who].ran
                   /\ SwapOut(who, n) /\ Emit(tell, "hibernated", who)
                \/ /\ AllowHibernation /\ ~node[who].inst     \* already cached
                   /\ node' = n /\ Emit(tell, "hibernated", who)
                   /\ UNCHANGED <<table, len, index, next_id, attached, released>>
                \/ /\ ~AllowHibernation \/ node[who].inst     \* off, or the engine refuses
                   /\ node' = n /\ Emit(p, "denied", who)
                   /\ UNCHANGED <<table, len, index, next_id, attached, released>>
             /\ UNCHANGED spawns

\* query looks a handle up and answers: there is no ancestry test in it.
DoQuery(p, t) == Answer(p, IF t \in Live THEN "status" ELSE "gone", t)

DoRef(p, t) ==
    LET who == IF t = 0 THEN p ELSE t
    IN  IF who \notin Live THEN Answer(p, "gone", who)
        ELSE Answer(p, IF who = p \/ IsAncestor(p, who) THEN "ref" ELSE "denied", who)

\* Mutant: a held request that meets the limit again is not put back.
M_Throttle(req) ==
    /\ pc = "drain" /\ cur <= bound /\ CanDrain
    /\ Asked(req) /\ spawns >= SpawnRate
    /\ node' = IF node[Here].deferred = NoReq THEN [node EXCEPT ![Here].deferred = req] ELSE Taken(Here)
    /\ Emit(Here, "throttled", 0)
    /\ UNCHANGED <<table, len, index, next_id, attached, released>>
    /\ Turn

\* A spawn over the rate is held and read first next step; the loop leaves
\* the instance there.
Throttle(req) ==
    /\ pc = "drain" /\ cur <= bound /\ CanDrain
    /\ Asked(req) /\ spawns >= SpawnRate
    /\ node' = [node EXCEPT ![Here].deferred = req]
    /\ Emit(Here, "throttled", 0)
    /\ UNCHANGED <<table, len, index, next_id, attached, released>>
    /\ Turn

DrainSpawn(req) ==
    /\ pc = "drain" /\ cur <= bound /\ CanDrain
    /\ Asked(req) /\ spawns < SpawnRate
    /\ DoSpawn(Here, req)
    /\ UNCHANGED <<pc, cur, bound>>

DrainOther(req) ==
    /\ pc = "drain" /\ cur <= bound /\ CanDrain
    /\ Asked(req)
    /\ \/ req.op = "kill" /\ DoKill(Here, req.id)
       \/ req.op = "query" /\ DoQuery(Here, req.id)
       \/ req.op = "ref" /\ DoRef(Here, req.id)
       \/ req.op = "hibernate" /\ DoHibernate(Here, req)
       \/ req.op = "bad" /\ Answer(Here, "denied", 0)
    /\ UNCHANGED <<pc, cur, bound>>

\* Nothing left to read, or nobody to read it for.
DrainNext ==
    /\ pc = "drain" /\ cur <= bound
    /\ CanDrain => node[Here].deferred = NoReq
    /\ event' = NoEvent
    /\ UNCHANGED tableVars
    /\ Turn
-----------------------------------------------------------------------------
\* The drive loop.  A driven program runs until it parks, or stops.

Drivable == Here # 0 /\ node[Here].inst

DriveNext ==
    /\ pc = "drive" /\ cur <= bound
    /\ node' = IF Drivable THEN [node EXCEPT ![Here].ran = TRUE] ELSE node
    /\ event' = NoEvent
    /\ UNCHANGED <<table, len, index, next_id, attached, released>>
    /\ Turn

\* It exited, faulted or exceeded its budget: what it pushed is routed first
\* (Deliver, in "finish") ...
DriveStop ==
    /\ pc = "drive" /\ cur <= bound /\ Drivable
    /\ pc' = "finish"
    /\ event' = NoEvent
    /\ UNCHANGED <<tableVars, spawns, cur, bound>>

\* ... and then its subtree goes, and its parent is told.
Finish(what) ==
    /\ pc = "finish"
    /\ Stop(Here, what)
    /\ pc' = "drive" /\ cur' = cur + 1
    /\ UNCHANGED <<spawns, bound>>
-----------------------------------------------------------------------------
Init ==
    /\ table = [k \in Slot |-> 0] /\ len = 0
    /\ index = [h \in Id |-> 0] /\ node = [h \in Id |-> FreeNode]
    /\ next_id = 1 /\ spawns = 0
    /\ pc = "idle" /\ cur = 1 /\ bound = 0
    /\ event = NoEvent
    /\ attached = [h \in Id |-> 0] /\ released = [h \in Id |-> 0]

HostCall ==
    \/ \E b \in Bound : Root(b)
    \/ \E h \in Id : HostKill(h) \/ HostHibernate(h) \/ HostWake(h) \/ HostPush(h)

StepInside ==
    \/ \E h \in Id : Ended(h) \/ Deliver(h)
    \/ EndPhase \/ WakeNext
    \/ \E req \in Requests : Throttle(req) \/ DrainSpawn(req)
    \/ \E req \in OtherReq : DrainOther(req)
    \/ DrainNext \/ DriveNext \/ DriveStop
    \/ \E what \in {"exited", "faulted", "exceeded"} : Finish(what)

Next == HostCall \/ BeginStep \/ StepInside

Spec == Init /\ [][Next]_vars

\* A deployment's driver calls step() for as long as anything lives, every
\* call returns, and a guest's queues are finite.
Fairness ==
    /\ WF_vars(BeginStep) /\ WF_vars(EndPhase) /\ WF_vars(WakeNext)
    /\ WF_vars(DrainNext) /\ WF_vars(DriveNext)
    /\ WF_vars(\E req \in Requests : Throttle(req) \/ DrainSpawn(req))
    /\ WF_vars(\E what \in {"exited", "faulted", "exceeded"} : Finish(what))

FairSpec == Spec /\ Fairness

\* The spawn requests that the questions asked of small instances can tell
\* apart: whether a child asks to be woken and gets the lifecycle queue;
\* every grant with every bound, and sealed with every grant.
ResidencyRequests ==
    [op : {"spawn"}, caps : SUBSET {Lifecycle}, budget : {Unlimited},
     sealed : {FALSE}, wom : BOOLEAN]

AuthorityRequests ==
    {r \in [op : {"spawn"}, caps : SUBSET CapNames, budget : Bound,
            sealed : BOOLEAN, wom : {FALSE}] : r.sealed => r.budget = Unlimited}
-----------------------------------------------------------------------------
\* Properties.

(* Every variable has its type; the spawns of a step stay within the rate   *)
(* and the wake buffer within its bound (push, do_spawn).                   *)
TypeOK ==
    /\ table \in [Slot -> 0..MaxId] /\ len \in 0..MaxInstances
    /\ index \in [Id -> 0..MaxInstances] /\ node \in [Id -> Node]
    /\ next_id \in 1..(MaxId + 1) /\ spawns \in 0..SpawnRate
    /\ pc \in {"idle", "ended", "notices", "route", "wake", "drain", "drive", "finish"}
    /\ cur \in 1..(MaxInstances + 1) /\ bound \in 0..MaxInstances
    /\ event \in [what : EventNames, to : Id, about : 0..MaxId] \cup {NoEvent}
    /\ attached \in [Id -> Int] /\ released \in [Id -> Int]

(* The handle map is exact: a handle resolves to the slot that holds it and *)
(* to no other, a slot is held by at most one handle, every handle in use   *)
(* is below next_id (so none is given out twice), and a handle that names   *)
(* nothing has nothing (find, claim, release).                              *)
TableExact ==
    /\ \A h \in Id : index[h] # 0 => table[index[h]] = h /\ index[h] <= len /\ h < next_id
    /\ \A k \in Slot : table[k] # 0 => index[table[k]] = k
    /\ \A h \in Id : index[h] = 0 => node[h] = FreeNode

(* No orphans and no cycles: the parent of a live instance is live and      *)
(* older, or it is the root (kill_subtree's mark and sweep, do_spawn).      *)
NoOrphans ==
    \A h \in Live : node[h].parent = 0 \/ (node[h].parent \in Live /\ node[h].parent < h)

(* GUARANTEES.md: a child holds a subset of its parent's grants and nothing *)
(* more, and runs under no looser bound, stated or not (do_spawn).          *)
Attenuated ==
    \A h \in Live : node[h].parent # 0 =>
        LET p == node[node[h].parent]
        IN  /\ node[h].caps \subseteq p.caps
            /\ node[h].budget <= p.budget
            /\ node[h].unsafe => p.unsafe

(* A live instance is resident or cached, never both and never neither; a   *)
(* message waits only for a cached instance that asked to be woken, so a    *)
(* buffered message can always reach someone (hibernate, wake, push).       *)
OneForm ==
    \A h \in Live :
        /\ node[h].inst # node[h].snap
        /\ node[h].snap => node[h].ran
        /\ node[h].pending > 0 => node[h].snap /\ node[h].wom

(* The host's calls balance: attached exactly while resident, released      *)
(* exactly once, when the handle stops naming anything (SwarmHost).         *)
HostMirrors ==
    \A h \in Id :
        /\ attached[h] = IF h \in Live /\ node[h].inst THEN 1 ELSE 0
        /\ released[h] = IF h < next_id /\ h \notin Live THEN 1 ELSE 0

(* A supervisor hears of every child it loses while it is resident, once,   *)
(* whatever the cause: in the step that ends a child whose parent survives, *)
(* that parent is sent a stop event about it (every caller of kill_subtree).*)
StopReported ==
    [][\A h \in Live :
          LET p == node[h].parent
          IN  h \notin Live' /\ p # 0 /\ p \in Live' /\ node[p].inst
              => event'.what \in StopEvents /\ event'.to = p /\ event'.about = h]_vars

(* What a program's own requests can end or swap out is below it, or, for a *)
(* swap, itself (is_ancestor; do_kill, do_hibernate).                       *)
ReachesOnlyBelow ==
    [][pc = "drain" =>
         \A h \in Live :
            /\ h \notin Live' => h \in Subtree(Here) \ {Here}
            /\ h \in Live' /\ node[h].inst /\ ~node'[h].inst => h \in Subtree(Here)]_vars

(* A throttled spawn waits for its turn: it leaves its slot only with the   *)
(* slot, or by being answered (drain: "a rate, not a filter").              *)
DeferredKept ==
    [][\A h \in Live :
          node[h].deferred # NoReq /\ h \in Live' /\ node'[h].deferred # node[h].deferred
          => /\ pc = "drain" /\ Here = h /\ spawns < SpawnRate
             /\ event'.what \in {"spawned", "faulted", "denied"} /\ event'.to = h]_vars

(* The table implements the tree of handles it promises.                    *)
Promised == INSTANCE Tree WITH
    Ceiling <- 0..Unlimited,
    live    <- Live,
    parent  <- Up,
    power   <- [h \in Id |-> [caps |-> node[h].caps, budget |-> node[h].budget,
                              unsafe |-> node[h].unsafe]],
    used    <- 1..(next_id - 1)

TreePromised == Promised!Spec

(* A message in the wake buffer brings its owner back, or its owner dies:   *)
(* "a woken instance gets a whole step in the same step its message         *)
(* arrived in" (step, the wake loop).                                       *)
PendingWoken ==
    \A h \in Id : (h \in Live /\ node[h].pending > 0) ~> (h \notin Live \/ node[h].inst)

(* The comment on do_ref: "Ancestry gates it like every other op".  A       *)
(* request about another live instance is answered only from above it.      *)
EveryOpGated ==
    [][pc = "drain" /\ event'.what \in {"status", "ref"} /\ event'.about \in Live
       => event'.about \in Subtree(event'.to)]_vars
=============================================================================
