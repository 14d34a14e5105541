---------------------------- MODULE SwarmProofs ----------------------------
(***************************************************************************)
(* The safety of the instance table for every table bound, spawn rate,     *)
(* wake buffer and set of capabilities.                                    *)
(*                                                                         *)
(* The inductive invariant has two halves.  TableInv speaks of the table   *)
(* alone and is kept by each of the few ways the code changes it: sweeping *)
(* a subtree, claiming and building a slot, and rewriting fields of a slot *)
(* that leave the tree as it is.  StepInv speaks of the position inside    *)
(* step(), and the one fact carried between two actions of it: a program   *)
(* that stopped is still in its slot when its subtree is swept.            *)
(*                                                                         *)
(* The action properties and the refinement of Tree rest on one more       *)
(* lemma: every step, seen from the tree, sweeps one subtree, adds one     *)
(* instance, spends one handle, or leaves the tree alone (NextKind).       *)
(***************************************************************************)
EXTENDS Swarm, TLAPS, FiniteSetTheorems

TableTypes ==
    /\ table \in [Slot -> 0..MaxId] /\ len \in 0..MaxInstances
    /\ index \in [Id -> 0..MaxInstances] /\ node \in [Id -> Node]
    /\ next_id \in 1..(MaxId + 1)
    /\ attached \in [Id -> Int] /\ released \in [Id -> Int]

StepTypes ==
    /\ spawns \in 0..SpawnRate
    /\ pc \in {"idle", "ended", "notices", "route", "wake", "drain", "drive", "finish"}
    /\ cur \in 1..(MaxInstances + 1) /\ bound \in 0..MaxInstances

EventType == event \in [what : EventNames, to : Id, about : 0..MaxId] \cup {NoEvent}

\* A handle is left for every spawn that is held.
Reserve == next_id + Cardinality(Deferrers) <= MaxId + 1

TableInv ==
    /\ TableTypes /\ TableExact /\ NoOrphans /\ Attenuated /\ OneForm /\ HostMirrors
    /\ Reserve

\* The stopped program is where drive found it.
Finishing == pc = "finish" => cur <= bound /\ Drivable

StepInv == StepTypes /\ Finishing

Inv == TableInv /\ StepInv /\ EventType
-----------------------------------------------------------------------------
\* What lies below a node is a set of nodes, holds the node, and is closed.
LEMMA BelowClosed ==
    ASSUME NEW N, NEW up, NEW h
    PROVE  /\ Below(N, up, h) \subseteq N
           /\ h \in N => h \in Below(N, up, h)
           /\ Closed(N, up, Below(N, up, h))
<1>1. Below(N, up, h) \subseteq N
    BY DEF Below
<1>2. h \in N => h \in Below(N, up, h)
    BY DEF Below
<1>3. ASSUME NEW g \in N, up[g] \in Below(N, up, h)
      PROVE  g \in Below(N, up, h)
    <2>1. SUFFICES ASSUME NEW D \in SUBSET N, h \in D, Closed(N, up, D)
                   PROVE  g \in D
        BY DEF Below
    <2>2. up[g] \in D
        BY <1>3, <2>1 DEF Below
    <2>3. QED
        BY <2>1, <2>2 DEF Closed
<1>4. QED
    BY <1>1, <1>2, <1>3 DEF Closed

\* Deferrers is finite whatever the state, so its cardinality is a number.
LEMMA DeferrersFinite ==
    IsFiniteSet(Deferrers) /\ Cardinality(Deferrers) \in Nat
<1>1. IsFiniteSet(Id)
    BY SwarmAssumption, FS_Interval DEF Id
<1>2. Deferrers \subseteq Id
    BY DEF Deferrers
<1>3. QED
    BY <1>1, <1>2, FS_Subset, FS_CardinalityType

\* The empty slot's record is one of the records of a slot.
LEMMA FreeNodeType == FreeNode \in Node
    BY SwarmAssumption DEF FreeNode, Node, Unlimited
-----------------------------------------------------------------------------
\* The three ways the table changes.

\* Rewriting fields of live slots, the tree and its authority left alone,
\* keeps the invariant if residency and the host's view of it move together.
LEMMA SameTree ==
    ASSUME TableInv,
           UNCHANGED <<table, len, index, next_id, released>>,
           node' \in [Id -> Node],
           \A h \in Id : /\ node'[h].parent = node[h].parent
                         /\ node'[h].caps = node[h].caps
                         /\ node'[h].budget = node[h].budget
                         /\ node'[h].unsafe = node[h].unsafe,
           \A h \in Id \ Live : node'[h] = node[h] /\ attached'[h] = attached[h],
           \A h \in Live : /\ node'[h].inst # node'[h].snap
                           /\ node'[h].snap => node'[h].ran
                           /\ node'[h].pending > 0 => node'[h].snap /\ node'[h].wom
                           /\ attached'[h] = IF node'[h].inst THEN 1 ELSE 0,
           attached' \in [Id -> Int],
           Reserve'
    PROVE  TableInv'
<1>1. Live' = Live
    BY DEF Live
<1>2. TableTypes'
    BY DEF TableInv, TableTypes
<1>3. TableExact'
    <2>1. \A h \in Id : index[h] = 0 => node'[h] = FreeNode
        BY DEF TableInv, TableExact, Live
    <2>2. QED
        BY <2>1 DEF TableInv, TableExact
<1>4. NoOrphans'
    BY <1>1 DEF TableInv, NoOrphans, Live
<1>5. Attenuated'
    <2>1. ASSUME NEW h \in Live, node[h].parent # 0
          PROVE  node[h].parent \in Id
        BY <2>1 DEF TableInv, NoOrphans, Live
    <2>2. QED
        BY <1>1, <2>1 DEF TableInv, Attenuated, Live
<1>6. OneForm'
    BY <1>1 DEF OneForm
<1>7. HostMirrors'
    BY <1>1 DEF TableInv, HostMirrors, Live
<1>8. QED
    BY <1>2, <1>3, <1>4, <1>5, <1>6, <1>7 DEF TableInv

\* Sweeping a closed set of live handles leaves no orphan behind.
LEMMA ReleaseKeeps ==
    ASSUME TableInv, NEW D, D \subseteq Live, Closed(Live, Up, D), Release(D)
    PROVE  TableInv' /\ Live' = Live \ D
<1>1. /\ \A h \in Id \ D : node'[h] = node[h] /\ index'[h] = index[h]
      /\ \A h \in D : node'[h] = FreeNode /\ index'[h] = 0
      /\ D \subseteq Id
    BY DEF Release, Live
<1>2. Live' = Live \ D
    BY <1>1 DEF Live
<1>3. TableTypes'
    BY FreeNodeType, SwarmAssumption DEF TableInv, TableTypes, Release
<1>4. TableExact'
    <2>1. \A h \in Id : index'[h] # 0 => table'[index'[h]] = h /\ index'[h] <= len' /\ h < next_id'
        BY <1>1, SwarmAssumption DEF TableInv, TableTypes, TableExact, Release, Slot
    <2>2. \A k \in Slot : table'[k] # 0 => index'[table'[k]] = k
        BY <1>1, SwarmAssumption DEF TableInv, TableTypes, TableExact, Release, Slot, Id
    <2>3. \A h \in Id : index'[h] = 0 => node'[h] = FreeNode
        BY <1>1 DEF TableInv, TableExact
    <2>4. QED
        BY <2>1, <2>2, <2>3 DEF TableExact
<1>5. \A h \in Live \ D : node[h].parent # 0 => node[h].parent \in Live \ D
    BY DEF TableInv, NoOrphans, Closed, Up, Live
<1>6. NoOrphans'
    BY <1>1, <1>2, <1>5 DEF TableInv, NoOrphans, Live
<1>7. Attenuated'
    BY <1>1, <1>2, <1>5 DEF TableInv, Attenuated, Live
<1>8. OneForm'
    BY <1>1, <1>2 DEF TableInv, OneForm, Live
<1>9. HostMirrors'
    <2>1. ASSUME NEW h \in D
          PROVE  attached'[h] = 0 /\ released'[h] = 1 /\ h < next_id
        BY <1>1 DEF TableInv, HostMirrors, TableExact, Release, Live
    <2>2. ASSUME NEW h \in Id \ D
          PROVE  attached'[h] = attached[h] /\ released'[h] = released[h]
        BY DEF Release
    <2>3. QED
        BY <1>1, <1>2, <2>1, <2>2 DEF TableInv, HostMirrors, Release
<1>10. Reserve'
    <2>1. Deferrers' \subseteq Deferrers
        BY <1>1 DEF Deferrers, FreeNode
    <2>2. Cardinality(Deferrers') <= Cardinality(Deferrers)
        BY <2>1, DeferrersFinite, FS_Subset
    <2>3. Cardinality(Deferrers') \in Nat
        BY <2>1, DeferrersFinite, FS_Subset, FS_CardinalityType
    <2>4. QED
        BY <2>2, <2>3, DeferrersFinite, SwarmAssumption DEF TableInv, TableTypes, Reserve, Release
<1>11. QED
    BY <1>2, <1>3, <1>4, <1>6, <1>7, <1>8, <1>9, <1>10 DEF TableInv

\* kill_subtree and the event after it.
LEMMA StopKeeps ==
    ASSUME TableInv, NEW h \in Live, NEW what \in StopEvents, Stop(h, what)
    PROVE  TableInv' /\ EventType' /\ Live' = Live \ Subtree(h)
<1>1. /\ Subtree(h) \subseteq Live
      /\ Closed(Live, Up, Subtree(h))
    BY BelowClosed DEF Subtree
<1>2. TableInv' /\ Live' = Live \ Subtree(h)
    BY <1>1, ReleaseKeeps DEF Stop
<1>3. EventType'
    <2>1. node[h].parent \in 0..MaxId /\ h \in Id
        BY DEF TableInv, TableTypes, Node, Live
    <2>2. what \in EventNames
        BY DEF StopEvents, EventNames
    <2>3. QED
        BY <2>1, <2>2, SwarmAssumption DEF EventType, Stop, Emit, Id
<1>4. QED
    BY <1>2, <1>3
-----------------------------------------------------------------------------
\* Claiming a slot and building into it.

\* Nothing of the slot of h moves but the request it holds.
OnlyDeferred(h) ==
    /\ node'[h].parent = node[h].parent /\ node'[h].caps = node[h].caps
    /\ node'[h].budget = node[h].budget /\ node'[h].unsafe = node[h].unsafe
    /\ node'[h].wom = node[h].wom /\ node'[h].pending = node[h].pending
    /\ node'[h].inst = node[h].inst /\ node'[h].snap = node[h].snap
    /\ node'[h].ran = node[h].ran

\* The record c is fit for a new instance: empty, and under the root's
\* nothing or a live parent that holds all that c does.
Fit(c) ==
    /\ c \in Node
    /\ ~c.inst /\ ~c.snap /\ c.pending = 0 /\ c.deferred = NoReq
    /\ c.parent # 0 => /\ c.parent \in Live
                       /\ c.caps \subseteq node[c.parent].caps
                       /\ c.budget <= node[c.parent].budget
                       /\ c.unsafe => node[c.parent].unsafe

\* What a step amounts to for the tree.  The place and the authority of h
\* stay as they are ...
Steady(h) ==
    /\ node'[h].parent = node[h].parent /\ node'[h].caps = node[h].caps
    /\ node'[h].budget = node[h].budget /\ node'[h].unsafe = node[h].unsafe

\* ... of everyone, and nobody comes or goes;
Same == Live' = Live /\ next_id' = next_id /\ \A h \in Live : Steady(h)

\* or a handle is spent on a program that would not load;
Spent ==
    /\ next_id \in Id /\ next_id' = next_id + 1
    /\ Live' = Live /\ \A h \in Live : Steady(h)

\* or it goes to a new instance, which holds what the record c says.
Born(c) ==
    /\ next_id \in Id /\ next_id' = next_id + 1
    /\ Live' = Live \cup {next_id} /\ \A h \in Live : Steady(h)
    /\ node'[next_id].parent = c.parent /\ node'[next_id].caps = c.caps
    /\ node'[next_id].budget = c.budget /\ node'[next_id].unsafe = c.unsafe

\* A request of p for an instance: granted, wasted or denied, p is told which,
\* and no request but the one p had waiting is touched.
SpawnKind(p) ==
    /\ Same \/ Spent \/ \E c : Fit(c) /\ c.parent = p /\ Born(c)
    /\ \A h \in Live : /\ node'[h].inst = node[h].inst
                       /\ h # p => node'[h].deferred = node[h].deferred
    /\ event'.what \in {"spawned", "faulted", "denied"} /\ event'.to = p

\* The next handle names nothing yet.
LEMMA NextUnused ==
    ASSUME TableInv, next_id \in Id
    PROVE  index[next_id] = 0 /\ next_id \notin Live /\ node[next_id] = FreeNode
    BY DEF TableInv, TableTypes, TableExact, Live, Id

\* Claiming a slot leaves the slot, the length and the next handle in their ranges.
LEMMA ClaimTypes ==
    ASSUME TableInv, NEW k \in Slot, Claim(k)
    PROVE  table[k] = 0 /\ len' \in 0..MaxInstances /\ k <= len' /\ len <= len'
    BY SwarmAssumption DEF Claim, FirstFree, Slot, TableInv, TableTypes

\* Each step of do_spawn and root that loads a program keeps the invariant.
LEMMA BuiltKeeps ==
    ASSUME TableInv, next_id \in Id, NEW c, Fit(c),
           NEW k \in Slot, Claim(k),
           NEW n \in [Id -> Node], n[next_id] = c, Built(k, n),
           \A h \in Id \ {next_id} : OnlyDeferred(h),
           \A h \in Id \ Live : h # next_id => node'[h] = node[h],
           Reserve'
    PROVE  TableInv' /\ Live' = Live \cup {next_id} /\ Born(c)
<1>1. node' \in [Id -> Node] /\ node'[next_id] = [c EXCEPT !.inst = TRUE]
    BY DEF Built, Node, Fit
<1>2. /\ index' = [index EXCEPT ![next_id] = k] /\ table' = [table EXCEPT ![k] = next_id]
      /\ next_id' = next_id + 1 /\ released' = released
      /\ attached' = [attached EXCEPT ![next_id] = @ + 1]
    BY DEF Built, Claim
<1>3. index[next_id] = 0 /\ next_id \notin Live
    BY NextUnused
<1>4. k \in 1..MaxInstances /\ k # 0
    BY SwarmAssumption DEF Slot
<1>5. Live' = Live \cup {next_id}
    BY <1>2, <1>4 DEF Live, TableInv, TableTypes
<1>6. TableTypes'
    <2>1. table' \in [Slot -> 0..MaxId]
        BY <1>2, SwarmAssumption DEF TableInv, TableTypes, Id
    <2>2. index' \in [Id -> 0..MaxInstances]
        BY <1>2, <1>4 DEF TableInv, TableTypes
    <2>3. next_id' \in 1..(MaxId + 1)
        BY <1>2, SwarmAssumption DEF Id
    <2>4. attached' \in [Id -> Int] /\ released' \in [Id -> Int]
        BY <1>2 DEF TableInv, TableTypes
    <2>5. QED
        BY <1>1, <2>1, <2>2, <2>3, <2>4, ClaimTypes DEF TableTypes
<1>7. TableExact'
    <2>1. ASSUME NEW h \in Id, index'[h] # 0
          PROVE  table'[index'[h]] = h /\ index'[h] <= len' /\ h < next_id'
        <3>1. CASE h = next_id
            BY <3>1, <1>2, <1>4, ClaimTypes, SwarmAssumption DEF TableInv, TableTypes, Slot, Id
        <3>2. CASE h # next_id
            <4>1. index'[h] = index[h] /\ index[h] # 0 /\ index[h] \in Slot
                BY <2>1, <3>2, <1>2, SwarmAssumption DEF TableInv, TableTypes, Slot
            <4>2. table[index[h]] = h /\ index[h] <= len /\ h < next_id
                BY <4>1 DEF TableInv, TableExact
            <4>3. index[h] # k
                BY <4>2, ClaimTypes, SwarmAssumption DEF Id
            <4>4. len <= len' /\ len \in Nat /\ len' \in Nat
                BY ClaimTypes DEF TableInv, TableTypes
            <4>5. table'[index[h]] = h
                BY <4>1, <4>2, <4>3, <1>2 DEF TableInv, TableTypes
            <4>6. QED
                BY <4>1, <4>2, <4>4, <4>5, <1>2, SwarmAssumption DEF Slot, Id
        <3>3. QED
            BY <3>1, <3>2
    <2>2. \A j \in Slot : table'[j] # 0 => index'[table'[j]] = j
        BY <1>2, <1>3, <1>4, SwarmAssumption, SMTT(30) DEF TableInv, TableTypes, TableExact, Slot, Id
    <2>3. \A h \in Id : index'[h] = 0 => node'[h] = FreeNode
        BY <1>2, <1>4 DEF TableInv, TableTypes, TableExact, Live
    <2>4. QED
        BY <2>1, <2>2, <2>3 DEF TableExact
<1>8. /\ node'[next_id].parent = c.parent /\ node'[next_id].caps = c.caps
      /\ node'[next_id].budget = c.budget /\ node'[next_id].unsafe = c.unsafe
      /\ node'[next_id].inst /\ ~node'[next_id].snap /\ node'[next_id].pending = 0
    BY <1>1 DEF Fit, Node
<1>9. \A h \in Live : h \in Id \ {next_id} /\ h < next_id
    BY <1>3, SwarmAssumption DEF Live, TableInv, TableExact, TableTypes, Id
<1>10. NoOrphans'
    BY <1>5, <1>8, <1>9 DEF TableInv, NoOrphans, OnlyDeferred, Fit
<1>11. Attenuated'
    <2>1. \A h \in Live : node[h].parent # 0 => node[h].parent \in Live
        BY DEF TableInv, NoOrphans
    <2>2. QED
        BY <1>5, <1>8, <1>9, <2>1 DEF TableInv, Attenuated, OnlyDeferred, Fit
<1>12. OneForm'
    BY <1>5, <1>8, <1>9 DEF TableInv, OneForm, OnlyDeferred
<1>13. HostMirrors'
    <2>1. attached[next_id] = 0 /\ released[next_id] = 0
        BY <1>3, SwarmAssumption DEF TableInv, HostMirrors, Id
    <2>2. attached'[next_id] = 1 /\ released'[next_id] = 0
        BY <2>1, <1>2 DEF TableInv, TableTypes
    <2>3. ASSUME NEW h \in Id, h # next_id
          PROVE  /\ attached'[h] = IF h \in Live' /\ node'[h].inst THEN 1 ELSE 0
                 /\ released'[h] = IF h < next_id' /\ h \notin Live' THEN 1 ELSE 0
        <3>1. (h < next_id') <=> (h < next_id)
            BY <1>2, <2>3, SwarmAssumption DEF Id
        <3>2. (h \in Live') <=> (h \in Live)
            BY <1>5, <2>3
        <3>3. attached'[h] = attached[h] /\ released'[h] = released[h] /\ node'[h].inst = node[h].inst
            BY <1>2, <2>3 DEF TableInv, TableTypes, OnlyDeferred
        <3>4. QED
            BY <3>1, <3>2, <3>3 DEF TableInv, HostMirrors
    <2>4. QED
        BY <1>5, <1>8, <2>2, <2>3 DEF HostMirrors
<1>14. Born(c)
    BY <1>2, <1>5, <1>8, <1>9 DEF Born, Steady, OnlyDeferred
<1>15. QED
    BY <1>5, <1>6, <1>7, <1>10, <1>11, <1>12, <1>13, <1>14 DEF TableInv

\* A program that will not load costs its handle and nothing else.
LEMMA NotBuiltKeeps ==
    ASSUME TableInv, next_id \in Id,
           NEW k \in Slot, Claim(k),
           NEW n \in [Id -> Node], NotBuilt(n),
           \A h \in Id \ {next_id} : OnlyDeferred(h),
           \A h \in Id \ Live : h # next_id => node'[h] = node[h],
           Reserve'
    PROVE  TableInv' /\ Live' = Live /\ Spent
<1>1. node' \in [Id -> Node] /\ node'[next_id] = FreeNode
    BY FreeNodeType DEF NotBuilt
<1>2. /\ UNCHANGED <<table, index, attached>> /\ next_id' = next_id + 1
      /\ released' = [released EXCEPT ![next_id] = @ + 1]
    BY DEF NotBuilt, Claim
<1>3. Live' = Live /\ next_id \notin Live
    BY <1>2, NextUnused DEF Live
<1>4. TableTypes'
    <2>1. next_id' \in 1..(MaxId + 1)
        BY <1>2, SwarmAssumption DEF Id
    <2>2. released' \in [Id -> Int] /\ len' \in 0..MaxInstances
        BY <1>2, ClaimTypes DEF TableInv, TableTypes
    <2>3. QED
        BY <1>1, <1>2, <2>1, <2>2 DEF TableInv, TableTypes
<1>5. TableExact'
    <2>1. ASSUME NEW h \in Id, index'[h] # 0
          PROVE  table'[index'[h]] = h /\ index'[h] <= len' /\ h < next_id'
        <3>1. table[index[h]] = h /\ index[h] <= len /\ h < next_id /\ index[h] \in Nat
            BY <1>2, <2>1 DEF TableInv, TableTypes, TableExact
        <3>2. len <= len' /\ len \in Nat /\ len' \in Nat
            BY ClaimTypes DEF TableInv, TableTypes
        <3>3. QED
            BY <1>2, <3>1, <3>2, SwarmAssumption DEF Id
    <2>2. \A h \in Id : index'[h] = 0 => node'[h] = FreeNode
        BY <1>1, <1>2 DEF TableInv, TableExact, Live
    <2>3. QED
        BY <1>2, <2>1, <2>2 DEF TableInv, TableExact
<1>6. \A h \in Live : h \in Id \ {next_id}
    BY <1>3 DEF Live
<1>7. NoOrphans'
    BY <1>3, <1>6 DEF TableInv, NoOrphans, OnlyDeferred
<1>8. Attenuated'
    <2>1. \A h \in Live : node[h].parent # 0 => node[h].parent \in Live
        BY DEF TableInv, NoOrphans
    <2>2. QED
        BY <1>3, <1>6, <2>1 DEF TableInv, Attenuated, OnlyDeferred
<1>9. OneForm'
    BY <1>3, <1>6 DEF TableInv, OneForm, OnlyDeferred
<1>10. HostMirrors'
    <2>1. released'[next_id] = 1
        BY <1>2, <1>3, SwarmAssumption DEF TableInv, TableTypes, HostMirrors, Id
    <2>2. ASSUME NEW h \in Id, h # next_id
          PROVE  /\ attached'[h] = IF h \in Live' /\ node'[h].inst THEN 1 ELSE 0
                 /\ released'[h] = IF h < next_id' /\ h \notin Live' THEN 1 ELSE 0
        <3>1. (h < next_id') <=> (h < next_id)
            BY <1>2, <2>2, SwarmAssumption DEF Id
        <3>2. attached'[h] = attached[h] /\ released'[h] = released[h] /\ node'[h].inst = node[h].inst
            BY <1>2, <2>2 DEF TableInv, TableTypes, OnlyDeferred
        <3>3. QED
            BY <1>3, <3>1, <3>2 DEF TableInv, HostMirrors
    <2>3. attached'[next_id] = 0 /\ next_id < next_id'
        BY <1>2, <1>3, SwarmAssumption DEF TableInv, HostMirrors, Id
    <2>4. QED
        BY <1>3, <2>1, <2>2, <2>3 DEF HostMirrors
<1>11. Spent
    BY <1>2, <1>3, <1>6 DEF Spent, Steady, OnlyDeferred
<1>12. QED
    BY <1>3, <1>4, <1>5, <1>7, <1>8, <1>9, <1>10, <1>11 DEF TableInv
-----------------------------------------------------------------------------
\* The held requests, and the handles kept for them.

\* No request is taken up or put down: the reserve stands.
LEMMA ReserveSame ==
    ASSUME TableInv, next_id' = next_id,
           \A h \in Id : node'[h].deferred = node[h].deferred
    PROVE  Reserve'
<1>1. Deferrers' = Deferrers
    BY DEF Deferrers
<1>2. QED
    BY <1>1 DEF TableInv, Reserve

\* Taking up the request of p, held or fresh, pays for one handle.
LEMMA ReserveTaken ==
    ASSUME TableInv, NEW p \in Id, NEW req \in Requests,
           node[p].deferred # NoReq \/ next_id + Cardinality(Deferrers) <= MaxId,
           Deferrers' = Deferrers \ {p}, next_id' \in {next_id, next_id + 1}
    PROVE  Reserve' /\ next_id \in Id
<1>1. /\ Cardinality(Deferrers') = IF p \in Deferrers THEN Cardinality(Deferrers) - 1
                                                     ELSE Cardinality(Deferrers)
      /\ Cardinality(Deferrers) \in Nat
    BY DeferrersFinite, FS_RemoveElement
<1>2. next_id \in Nat \ {0} /\ next_id + Cardinality(Deferrers) <= MaxId + 1 /\ MaxId \in Nat
    BY SwarmAssumption DEF TableInv, TableTypes, Reserve
<1>3. CASE p \in Deferrers
    <2>1. Cardinality(Deferrers) # 0
        BY <1>3, DeferrersFinite, FS_EmptySet
    <2>2. QED
        BY <1>1, <1>2, <1>3, <2>1 DEF Reserve, Id
<1>4. CASE p \notin Deferrers
    <2>1. next_id + Cardinality(Deferrers) <= MaxId
        BY <1>4 DEF Deferrers
    <2>2. QED
        BY <1>1, <1>2, <1>4, <2>1 DEF Reserve, Id
<1>5. QED
    BY <1>3, <1>4

\* Holding the request of p keeps the handle it will need.
LEMMA ReserveHeld ==
    ASSUME TableInv, NEW p \in Id,
           node[p].deferred # NoReq \/ next_id + Cardinality(Deferrers) <= MaxId,
           Deferrers' = Deferrers \cup {p}, next_id' = next_id
    PROVE  Reserve'
<1>1. /\ Cardinality(Deferrers') = IF p \in Deferrers THEN Cardinality(Deferrers)
                                                     ELSE Cardinality(Deferrers) + 1
      /\ Cardinality(Deferrers) \in Nat
    BY DeferrersFinite, FS_AddElement
<1>2. next_id \in Nat /\ next_id + Cardinality(Deferrers) <= MaxId + 1 /\ MaxId \in Nat
    BY SwarmAssumption DEF TableInv, TableTypes, Reserve
<1>3. p \notin Deferrers => next_id + Cardinality(Deferrers) <= MaxId
    BY DEF Deferrers
<1>4. QED
    BY <1>1, <1>2, <1>3 DEF Reserve
-----------------------------------------------------------------------------
\* Residency and delivery.

\* The records a swap writes are records of a slot.
LEMMA SwapTypes ==
    ASSUME NEW x \in Node
    PROVE  /\ [x EXCEPT !.inst = FALSE, !.snap = TRUE] \in Node
           /\ [x EXCEPT !.inst = TRUE, !.snap = FALSE, !.pending = 0] \in Node
<1>1. [x EXCEPT !.inst = FALSE, !.snap = TRUE] \in Node
    BY DEF Node
<1>2. [x EXCEPT !.inst = TRUE, !.snap = FALSE, !.pending = 0] \in Node
    <2>1. 0 \in 0..MaxPending
        BY SwarmAssumption
    <2>2. QED
        BY <2>1 DEF Node
<1>3. QED
    BY <1>1, <1>2

\* Swapping out, with or without wake_on_message being set on the way.
LEMMA SwapOutKeeps ==
    ASSUME TableInv, NEW h \in Live, node[h].inst, node[h].ran,
           NEW w \in BOOLEAN, NEW n \in {node, [node EXCEPT ![h].wom = @ \/ w]},
           SwapOut(h, n)
    PROVE  TableInv'
<1> DEFINE r == [n[h] EXCEPT !.inst = FALSE, !.snap = TRUE]
<1>1. h \in Id /\ node \in [Id -> Node] /\ attached \in [Id -> Int]
    BY DEF Live, TableInv, TableTypes
<1>2. /\ UNCHANGED <<table, len, index, next_id, released>>
      /\ attached' = [attached EXCEPT ![h] = @ - 1]
      /\ node' = [n EXCEPT ![h] = r]
    BY DEF SwapOut
<1>3. n \in [Id -> Node] /\ \A g \in Id \ {h} : n[g] = node[g]
    BY <1>1 DEF Node
<1>a. n[h] \in Node /\ r \in Node
    BY <1>1, <1>3, SwapTypes
<1>b. /\ n[h].parent = node[h].parent /\ n[h].caps = node[h].caps
      /\ n[h].budget = node[h].budget /\ n[h].unsafe = node[h].unsafe
      /\ n[h].ran = node[h].ran /\ n[h].pending = node[h].pending
      /\ n[h].deferred = node[h].deferred
    BY <1>1 DEF Node
<1>4. /\ node' \in [Id -> Node] /\ node'[h] = r
      /\ \A g \in Id \ {h} : node'[g] = node[g]
    BY <1>1, <1>2, <1>3, <1>a
<1>5. /\ node'[h].parent = node[h].parent /\ node'[h].caps = node[h].caps
      /\ node'[h].budget = node[h].budget /\ node'[h].unsafe = node[h].unsafe
      /\ node'[h].ran = node[h].ran /\ node'[h].pending = node[h].pending
      /\ node'[h].deferred = node[h].deferred /\ node'[h].inst = FALSE /\ node'[h].snap = TRUE
    BY <1>4, <1>a, <1>b, ZenonT(30) DEF Node
<1>6. node[h].pending = 0 /\ attached[h] = 1
    BY <1>1 DEF TableInv, OneForm, HostMirrors, Node
<1>7. attached' \in [Id -> Int] /\ attached'[h] = 0 /\ \A g \in Id \ {h} : attached'[g] = attached[g]
    BY <1>1, <1>2, <1>6
<1>8. Reserve'
    BY <1>2, <1>4, <1>5, ReserveSame
<1>9. \A g \in Live : /\ node'[g].inst # node'[g].snap
                      /\ node'[g].snap => node'[g].ran
                      /\ node'[g].pending > 0 => node'[g].snap /\ node'[g].wom
                      /\ attached'[g] = IF node'[g].inst THEN 1 ELSE 0
    <2>1. \A g \in Live \ {h} : node'[g] = node[g] /\ attached'[g] = attached[g] /\ g \in Id
        BY <1>4, <1>7 DEF Live
    <2>2. \A g \in Live \ {h} : /\ node[g].inst # node[g].snap
                                /\ node[g].snap => node[g].ran
                                /\ node[g].pending > 0 => node[g].snap /\ node[g].wom
                                /\ attached[g] = IF node[g].inst THEN 1 ELSE 0
        BY <2>1 DEF TableInv, OneForm, HostMirrors
    <2>3. /\ node'[h].inst # node'[h].snap
          /\ node'[h].snap => node'[h].ran
          /\ ~(node'[h].pending > 0)
          /\ attached'[h] = IF node'[h].inst THEN 1 ELSE 0
        BY <1>5, <1>6, <1>7
    <2>4. QED
        BY <2>1, <2>2, <2>3
<1>10. QED
    BY <1>2, <1>4, <1>5, <1>7, <1>8, <1>9, SameTree DEF Live

\* Waking.
LEMMA SwapInKeeps ==
    ASSUME TableInv, NEW h \in Live, ~node[h].inst, SwapIn(h)
    PROVE  TableInv'
<1> DEFINE r == [node[h] EXCEPT !.inst = TRUE, !.snap = FALSE, !.pending = 0]
<1>1. h \in Id /\ node \in [Id -> Node] /\ attached \in [Id -> Int]
    BY DEF Live, TableInv, TableTypes
<1>2. /\ UNCHANGED <<table, len, index, next_id, released>>
      /\ attached' = [attached EXCEPT ![h] = @ + 1]
      /\ node' = [node EXCEPT ![h] = r]
    BY DEF SwapIn
<1>a. node[h] \in Node /\ r \in Node
    BY <1>1, SwapTypes
<1>3. /\ node' \in [Id -> Node] /\ node'[h] = r
      /\ \A g \in Id \ {h} : node'[g] = node[g]
    BY <1>1, <1>2, <1>a
<1>4. /\ node'[h].parent = node[h].parent /\ node'[h].caps = node[h].caps
      /\ node'[h].budget = node[h].budget /\ node'[h].unsafe = node[h].unsafe
      /\ node'[h].deferred = node[h].deferred
      /\ node'[h].inst /\ ~node'[h].snap /\ node'[h].pending = 0
    BY <1>3, <1>a DEF Node
<1>5. attached[h] = 0
    BY <1>1 DEF TableInv, HostMirrors
<1>6. attached' \in [Id -> Int] /\ attached'[h] = 1 /\ \A g \in Id \ {h} : attached'[g] = attached[g]
    BY <1>1, <1>2, <1>5
<1>7. Reserve'
    BY <1>2, <1>3, <1>4, ReserveSame
<1>8. \A g \in Live : /\ node'[g].inst # node'[g].snap
                      /\ node'[g].snap => node'[g].ran
                      /\ node'[g].pending > 0 => node'[g].snap /\ node'[g].wom
                      /\ attached'[g] = IF node'[g].inst THEN 1 ELSE 0
    <2>1. \A g \in Live \ {h} : node'[g] = node[g] /\ attached'[g] = attached[g] /\ g \in Id
        BY <1>3, <1>6 DEF Live
    <2>2. QED
        BY <2>1, <1>1, <1>4, <1>6 DEF TableInv, OneForm, HostMirrors
<1>9. QED
    BY <1>2, <1>3, <1>4, <1>6, <1>7, <1>8, SameTree DEF Live

\* Rewriting fields of one live slot that neither residency nor the tree
\* depends on.
LEMMA FieldsKeep ==
    ASSUME TableInv, NEW h \in Live, NEW r \in Node,
           node' = [node EXCEPT ![h] = r],
           UNCHANGED <<table, len, index, next_id, attached, released>>,
           /\ r.parent = node[h].parent /\ r.caps = node[h].caps
           /\ r.budget = node[h].budget /\ r.unsafe = node[h].unsafe
           /\ r.inst = node[h].inst /\ r.snap = node[h].snap
           /\ node[h].ran => r.ran
           /\ r.pending > 0 => r.snap /\ r.wom,
           Reserve'
    PROVE  TableInv'
<1>1. h \in Id /\ node \in [Id -> Node] /\ attached \in [Id -> Int]
    BY DEF Live, TableInv, TableTypes
<1>2. /\ node' \in [Id -> Node] /\ node'[h] = r
      /\ \A g \in Id \ {h} : node'[g] = node[g]
    BY <1>1
<1>3. \A g \in Live : /\ node'[g].inst # node'[g].snap
                      /\ node'[g].snap => node'[g].ran
                      /\ node'[g].pending > 0 => node'[g].snap /\ node'[g].wom
                      /\ attached'[g] = IF node'[g].inst THEN 1 ELSE 0
    BY <1>2 DEF TableInv, OneForm, HostMirrors, Live
<1>4. QED
    BY <1>1, <1>2, <1>3, SameTree DEF Live

\* A step that leaves the table as it is keeps everything said of the table.
LEMMA SameTable ==
    ASSUME TableInv, UNCHANGED tableVars
    PROVE  TableInv'
<1>1. Live' = Live /\ Deferrers' = Deferrers
    BY DEF tableVars, Live, Deferrers
<1>2. TableTypes' /\ TableExact' /\ Reserve'
    BY <1>1 DEF tableVars, TableInv, TableTypes, TableExact, Reserve
<1>3. NoOrphans' /\ Attenuated' /\ OneForm' /\ HostMirrors'
    BY <1>1 DEF tableVars, TableInv, NoOrphans, Attenuated, OneForm, HostMirrors
<1>4. QED
    BY <1>2, <1>3 DEF TableInv

\* Delivery.
LEMMA PushKeeps ==
    ASSUME TableInv, NEW h \in Id, Push(h)
    PROVE  TableInv'
<1>1. CASE Buffers(h)
    <2> DEFINE r == [node[h] EXCEPT !.pending = @ + 1]
    <2>1. h \in Live /\ node[h] \in Node /\ node[h].pending \in 0..MaxPending
        BY <1>1 DEF Buffers, Live, TableInv, TableTypes, Node
    <2>2. node' = [node EXCEPT ![h] = r] /\ UNCHANGED <<table, len, index, next_id, attached, released>>
        BY <1>1 DEF Push
    <2>3. node[h].pending + 1 \in 0..MaxPending
        BY <1>1, <2>1, SwarmAssumption DEF Buffers
    <2>4. r \in Node
        BY <2>1, <2>3 DEF Node
    <2>5. /\ r.parent = node[h].parent /\ r.caps = node[h].caps
          /\ r.budget = node[h].budget /\ r.unsafe = node[h].unsafe
          /\ r.inst = node[h].inst /\ r.snap = node[h].snap
          /\ r.ran = node[h].ran /\ r.wom = node[h].wom /\ r.deferred = node[h].deferred
        BY <2>1 DEF Node
    <2>6. node[h].wom /\ node[h].snap
        <3>1. node[h].inst # node[h].snap /\ node[h].inst \in BOOLEAN /\ node[h].snap \in BOOLEAN
            BY <2>1 DEF TableInv, OneForm, Node
        <3>2. QED
            BY <1>1, <3>1 DEF Buffers
    <2>7. Reserve'
        BY <2>1, <2>2, <2>5, ReserveSame DEF TableInv, TableTypes
    <2>8. QED
        BY <2>1, <2>2, <2>4, <2>5, <2>6, <2>7, FieldsKeep
<1>2. CASE ~Buffers(h)
    BY <1>2, SameTable DEF Push, tableVars
<1>3. QED
    BY <1>1, <1>2

\* wake_on_message alone: a swap that was refused, or one asked for twice.
LEMMA WomKeeps ==
    ASSUME TableInv, NEW h \in Live, NEW w \in BOOLEAN,
           node' = [node EXCEPT ![h].wom = @ \/ w],
           UNCHANGED <<table, len, index, next_id, attached, released>>
    PROVE  TableInv'
<1> DEFINE r == [node[h] EXCEPT !.wom = @ \/ w]
<1>1. h \in Id /\ node \in [Id -> Node] /\ node[h] \in Node
    BY DEF Live, TableInv, TableTypes
<1>2. node' = [node EXCEPT ![h] = r] /\ r \in Node
    BY <1>1 DEF Node
<1>3. /\ r.parent = node[h].parent /\ r.caps = node[h].caps
      /\ r.budget = node[h].budget /\ r.unsafe = node[h].unsafe
      /\ r.inst = node[h].inst /\ r.snap = node[h].snap /\ r.pending = node[h].pending
      /\ r.ran = node[h].ran /\ r.wom = (node[h].wom \/ w) /\ r.deferred = node[h].deferred
    BY <1>1 DEF Node
<1>4. Reserve'
    BY <1>1, <1>2, <1>3, ReserveSame
<1>5. r.pending > 0 => r.snap /\ r.wom
    BY <1>3 DEF TableInv, OneForm
<1>6. QED
    BY <1>2, <1>3, <1>4, <1>5, FieldsKeep

\* A program that was driven has run.
LEMMA RanKeeps ==
    ASSUME TableInv, NEW h \in Live, node' = [node EXCEPT ![h].ran = TRUE],
           UNCHANGED <<table, len, index, next_id, attached, released>>
    PROVE  TableInv'
<1> DEFINE r == [node[h] EXCEPT !.ran = TRUE]
<1>1. h \in Id /\ node \in [Id -> Node] /\ node[h] \in Node
    BY DEF Live, TableInv, TableTypes
<1>2. node' = [node EXCEPT ![h] = r] /\ r \in Node
    BY <1>1 DEF Node
<1>3. /\ r.parent = node[h].parent /\ r.caps = node[h].caps
      /\ r.budget = node[h].budget /\ r.unsafe = node[h].unsafe
      /\ r.inst = node[h].inst /\ r.snap = node[h].snap /\ r.pending = node[h].pending
      /\ r.ran /\ r.wom = node[h].wom /\ r.deferred = node[h].deferred
    BY <1>1 DEF Node
<1>4. Reserve'
    BY <1>1, <1>2, <1>3, ReserveSame
<1>5. r.pending > 0 => r.snap /\ r.wom
    BY <1>3 DEF TableInv, OneForm
<1>6. QED
    BY <1>2, <1>3, <1>4, <1>5, FieldsKeep

\* Holding a request, or letting go of it, with the reserve kept.
LEMMA DeferKeeps ==
    ASSUME TableInv, NEW h \in Live, NEW req \in Requests \cup {NoReq},
           node' = [node EXCEPT ![h].deferred = req],
           UNCHANGED <<table, len, index, next_id, attached, released>>, Reserve'
    PROVE  TableInv'
<1> DEFINE r == [node[h] EXCEPT !.deferred = req]
<1>1. h \in Id /\ node \in [Id -> Node] /\ node[h] \in Node
    BY DEF Live, TableInv, TableTypes
<1>2. node' = [node EXCEPT ![h] = r] /\ r \in Node
    BY <1>1 DEF Node
<1>3. /\ r.parent = node[h].parent /\ r.caps = node[h].caps
      /\ r.budget = node[h].budget /\ r.unsafe = node[h].unsafe
      /\ r.inst = node[h].inst /\ r.snap = node[h].snap /\ r.pending = node[h].pending
      /\ r.ran = node[h].ran /\ r.wom = node[h].wom
    BY <1>1 DEF Node
<1>4. r.pending > 0 => r.snap /\ r.wom
    BY <1>3 DEF TableInv, OneForm
<1>5. QED
    BY <1>2, <1>3, <1>4, FieldsKeep
-----------------------------------------------------------------------------
\* Spawning.

\* A spawn request is a record of the fields do_spawn reads.
LEMMA RequestTypes ==
    ASSUME NEW req \in Requests
    PROVE  /\ req # NoReq /\ req.op = "spawn" /\ req.caps \in SUBSET CapNames
           /\ req.budget \in 1..Unlimited /\ req.sealed \in BOOLEAN /\ req.wom \in BOOLEAN
<1>1. req \in [op : {"spawn"}, caps : SUBSET CapNames, budget : 1..(MaxBudget + 1),
               sealed : BOOLEAN, wom : BOOLEAN]
    BY SwarmAssumption
<1>2. req.op = "spawn"
    BY <1>1
<1>3. NoReq.op = "none"
    BY DEF NoReq
<1>4. QED
    BY <1>1, <1>2, <1>3 DEF Unlimited

\* do_spawn's checks are what attenuation needs.
LEMMA ChildFit ==
    ASSUME TableInv, NEW p \in Live, NEW req \in Requests,
           MayGrant(p, req.caps), FitsWithin(req.budget, node[p].budget)
    PROVE  Fit(Child(p, req))
<1> DEFINE c == Child(p, req)
<1>1. p \in Id /\ node[p] \in Node
    BY DEF Live, TableInv, TableTypes
<1>2. /\ node[p].budget \in 0..Unlimited /\ node[p].unsafe \in BOOLEAN
      /\ node[p].caps \in SUBSET CapNames /\ Unlimited \in Nat
    BY <1>1, SwarmAssumption DEF Node, Unlimited
<1>3. /\ ResolvedAgainst(req.budget, node[p].budget) \in 0..Unlimited
      /\ ResolvedAgainst(req.budget, node[p].budget) <= node[p].budget
    BY <1>2, RequestTypes DEF ResolvedAgainst, FitsWithin
<1>4. /\ c.parent = p /\ c.caps = req.caps
      /\ c.budget = ResolvedAgainst(req.budget, node[p].budget)
      /\ c.unsafe = (node[p].unsafe /\ ~req.sealed) /\ c.wom = req.wom
      /\ c.inst = FALSE /\ c.snap = FALSE /\ c.ran = FALSE
      /\ c.pending = 0 /\ c.deferred = NoReq
    BY DEF Child, FreeNode
<1>5. c \in Node
    <2>1. p \in 0..MaxId /\ 0 \in 0..MaxPending
        BY <1>1, SwarmAssumption DEF Id
    <2>2. (node[p].unsafe /\ ~req.sealed) \in BOOLEAN
        OBVIOUS
    <2>3. QED
        BY <1>3, <2>1, <2>2, RequestTypes DEF Child, FreeNode, Node
<1>6. QED
    BY <1>3, <1>4, <1>5 DEF Fit, MayGrant

\* The requester's record, its request taken up, beside the child's.
LEMMA SpawnNodes ==
    ASSUME TableInv, NEW p \in Live, next_id \in Id, NEW c \in Node,
           NEW n, n = [Taken(p) EXCEPT ![next_id] = c],
           c.deferred = NoReq
    PROVE  /\ n \in [Id -> Node] /\ n[next_id] = c
           /\ \A h \in Id \ {next_id} :
                /\ n[h].parent = node[h].parent /\ n[h].caps = node[h].caps
                /\ n[h].budget = node[h].budget /\ n[h].unsafe = node[h].unsafe
                /\ n[h].wom = node[h].wom /\ n[h].pending = node[h].pending
                /\ n[h].inst = node[h].inst /\ n[h].snap = node[h].snap
                /\ n[h].ran = node[h].ran
                /\ h # p => n[h] = node[h]
           /\ p # next_id /\ n[p].deferred = NoReq
<1>1. /\ p \in Id /\ p # next_id /\ node \in [Id -> Node]
    BY NextUnused DEF Live, TableInv, TableTypes
<1>2. Taken(p) \in [Id -> Node]
    BY <1>1 DEF Taken, Node
<1>3. \A h \in Id : /\ Taken(p)[h].parent = node[h].parent /\ Taken(p)[h].caps = node[h].caps
                    /\ Taken(p)[h].budget = node[h].budget /\ Taken(p)[h].unsafe = node[h].unsafe
                    /\ Taken(p)[h].wom = node[h].wom /\ Taken(p)[h].pending = node[h].pending
                    /\ Taken(p)[h].inst = node[h].inst /\ Taken(p)[h].snap = node[h].snap
                    /\ Taken(p)[h].ran = node[h].ran
                    /\ h # p => Taken(p)[h] = node[h]
    BY <1>1 DEF Taken, Node
<1>4. Taken(p)[p].deferred = NoReq
    BY <1>1 DEF Taken, Node
<1>5. QED
    BY <1>1, <1>2, <1>3, <1>4

\* All of do_spawn: granted and built, granted and not loading, refused.
LEMMA DoSpawnKeeps ==
    ASSUME TableInv, NEW p \in Live, node[p].inst, NEW req \in Requests,
           node[p].deferred # NoReq \/ next_id + Cardinality(Deferrers) <= MaxId,
           DoSpawn(p, req)
    PROVE  /\ TableInv' /\ EventType' /\ SpawnKind(p)
           /\ spawns' = spawns \/ spawns' = spawns + 1
<1>1. p \in Id /\ node \in [Id -> Node] /\ next_id \in Nat /\ MaxId \in Nat
    BY SwarmAssumption DEF Live, TableInv, TableTypes
<1>2. CASE MayGrant(p, req.caps) /\ FitsWithin(req.budget, node[p].budget) /\ HasSlot
    <2> DEFINE c == Child(p, req)
               n == [Taken(p) EXCEPT ![next_id] = c]
    <2>1. Fit(c)
        BY <1>2, ChildFit
    <2>2. next_id \in Id
        <3>1. Cardinality(Deferrers) \in Nat /\ (p \in Deferrers => Cardinality(Deferrers) # 0)
            BY DeferrersFinite, FS_EmptySet
        <3>2. node[p].deferred # NoReq => p \in Deferrers
            BY <1>1 DEF Deferrers
        <3>3. next_id + Cardinality(Deferrers) <= MaxId + 1 /\ next_id # 0
            BY DEF TableInv, TableTypes, Reserve
        <3>4. QED
            BY <1>1, <3>1, <3>2, <3>3 DEF Id
    <2> HIDE DEF c
    <2>3. /\ n \in [Id -> Node] /\ n[next_id] = c
          /\ \A h \in Id \ {next_id} :
               /\ n[h].parent = node[h].parent /\ n[h].caps = node[h].caps
               /\ n[h].budget = node[h].budget /\ n[h].unsafe = node[h].unsafe
               /\ n[h].wom = node[h].wom /\ n[h].pending = node[h].pending
               /\ n[h].inst = node[h].inst /\ n[h].snap = node[h].snap
               /\ n[h].ran = node[h].ran
               /\ h # p => n[h] = node[h]
          /\ p # next_id /\ n[p].deferred = NoReq
        BY <2>1, <2>2, SpawnNodes DEF Fit
    <2> HIDE DEF n
    <2>4. PICK k \in Slot :
             /\ Claim(k)
             /\ \/ Built(k, n) /\ spawns' = spawns + 1 /\ Emit(p, "spawned", next_id)
                \/ NotBuilt(n) /\ UNCHANGED spawns /\ Emit(p, "faulted", next_id)
        BY <1>2 DEF DoSpawn, n, c
    <2>5. /\ node' \in [Id -> Node]
          /\ \A h \in Id \ {next_id} : node'[h] = n[h]
          /\ node'[next_id].deferred = NoReq
        <3>1. CASE Built(k, n)
            <4>1. node' = [n EXCEPT ![next_id].inst = TRUE] /\ c \in Node /\ c.deferred = NoReq
                BY <2>1, <3>1 DEF Built, Fit
            <4>2. QED
                BY <2>2, <2>3, <4>1 DEF Node
        <3>2. CASE NotBuilt(n)
            <4>1. node' = [n EXCEPT ![next_id] = FreeNode] /\ FreeNode.deferred = NoReq
                BY <3>2 DEF NotBuilt, FreeNode
            <4>2. QED
                BY <2>2, <2>3, <4>1, FreeNodeType
        <3>3. QED
            BY <2>4, <3>1, <3>2
    <2>6. /\ \A h \in Id \ {next_id} : OnlyDeferred(h)
          /\ \A h \in Id \ Live : h # next_id => node'[h] = node[h]
        BY <2>3, <2>5 DEF OnlyDeferred
    <2>7. Deferrers' = Deferrers \ {p}
        <3>1. next_id \notin Deferrers
            BY <2>2, NextUnused DEF Deferrers, FreeNode
        <3>2. node'[p].deferred = NoReq
            BY <1>1, <2>3, <2>5
        <3>3. ASSUME NEW h \in Id, h # p, h # next_id
              PROVE  node'[h].deferred = node[h].deferred
            BY <2>3, <2>5, <3>3
        <3>4. QED
            BY <1>1, <2>2, <2>5, <3>1, <3>2, <3>3 DEF Deferrers
    <2>8. next_id' = next_id + 1
        BY <2>4 DEF Claim
    <2>9. Reserve'
        BY <1>1, <2>7, <2>8, ReserveTaken
    <2>10. TableInv' /\ (Spent \/ Born(c))
        <3>1. CASE Built(k, n)
            BY <2>1, <2>2, <2>3, <2>4, <2>6, <2>9, <3>1, BuiltKeeps
        <3>2. CASE NotBuilt(n)
            BY <2>2, <2>3, <2>4, <2>6, <2>9, <3>2, NotBuiltKeeps
        <3>3. QED
            BY <2>4, <3>1, <3>2
    <2>11. EventType'
        BY <1>1, <2>2, <2>4, SwarmAssumption DEF EventType, Emit, EventNames, Id
    <2>12. SpawnKind(p)
        <3>1. c.parent = p
            BY DEF c, Child, FreeNode
        <3>2. ASSUME NEW h \in Live
              PROVE  /\ node'[h].inst = node[h].inst
                     /\ h # p => node'[h].deferred = node[h].deferred
            <4>1. h \in Id \ {next_id}
                BY <2>2, NextUnused DEF Live
            <4>2. QED
                BY <2>3, <2>5, <4>1
        <3>3. p # 0 /\ node'[p].inst
            BY <1>1, <3>2, SwarmAssumption DEF Id
        <3>4. event'.what \in {"spawned", "faulted", "denied"} /\ event'.to = p
            BY <2>4, <3>3 DEF Emit
        <3>5. QED
            BY <2>1, <2>10, <3>1, <3>2, <3>4 DEF SpawnKind
    <2>13. QED
        BY <2>4, <2>10, <2>11, <2>12
<1>3. CASE ~(MayGrant(p, req.caps) /\ FitsWithin(req.budget, node[p].budget) /\ HasSlot)
    <2>1. /\ node' = [node EXCEPT ![p].deferred = NoReq]
          /\ Emit(p, "denied", 0)
          /\ UNCHANGED <<table, len, index, next_id, attached, released, spawns>>
        BY <1>3 DEF DoSpawn, Taken
    <2>2. Deferrers' = Deferrers \ {p}
        BY <1>1, <2>1 DEF Deferrers, Node
    <2>3. Reserve'
        BY <1>1, <2>1, <2>2, ReserveTaken
    <2>4. TableInv'
        BY <2>1, <2>3, DeferKeeps
    <2>5. EventType'
        BY <1>1, <2>1 DEF EventType, Emit, EventNames
    <2>6. SpawnKind(p)
        <3>1. ASSUME NEW h \in Live
              PROVE  /\ Steady(h) /\ node'[h].inst = node[h].inst
                     /\ h # p => node'[h].deferred = node[h].deferred
            BY <1>1, <2>1 DEF Steady, Live, Node
        <3>2. Same
            BY <2>1, <3>1 DEF Same, Live
        <3>3. p # 0 /\ node'[p].inst
            BY <1>1, <3>1, SwarmAssumption DEF Id
        <3>4. event'.what \in {"spawned", "faulted", "denied"} /\ event'.to = p
            BY <2>1, <3>3 DEF Emit
        <3>5. QED
            BY <3>1, <3>2, <3>4 DEF SpawnKind
    <2>7. QED
        BY <2>1, <2>4, <2>5, <2>6
<1>4. QED
    BY <1>2, <1>3
-----------------------------------------------------------------------------
\* One step of the swarm.

\* The cursor of a running loop stands on a slot; what is in it is live.
LEMMA HereLive ==
    ASSUME TableInv, StepTypes, cur <= bound, Here # 0
    PROVE  Here \in Live
<1>1. cur \in Slot
    BY SwarmAssumption DEF StepTypes, Slot
<1>2. table[cur] \in Id /\ index[table[cur]] = cur
    BY <1>1, SwarmAssumption DEF Here, TableInv, TableTypes, TableExact, Id
<1>3. QED
    BY <1>1, <1>2, SwarmAssumption DEF Here, Live, Slot

\* An action that reports nothing leaves the event in its type.
LEMMA NoEventType ==
    ASSUME event' = NoEvent
    PROVE  EventType'
    BY DEF EventType

\* An answer is an event to a resident instance, or none.
LEMMA EmitType ==
    ASSUME NEW to \in 0..MaxId, NEW what \in EventNames, NEW about \in 0..MaxId,
           Emit(to, what, about)
    PROVE  EventType'
    BY SwarmAssumption DEF EventType, Emit, Id

\* Building the root keeps the invariant, whether or not its program loads.
LEMMA RootKeeps ==
    ASSUME Inv, NEW b \in Bound, Root(b)
    PROVE  /\ TableInv' /\ Live = {}
           /\ Spent \/ \E c : Fit(c) /\ c.parent = 0 /\ Born(c)
<1> DEFINE c == [FreeNode EXCEPT !.caps = RootCaps, !.budget = b, !.unsafe = UnsafeStdlib]
           n == [node EXCEPT ![1] = c]
<1>1. next_id = 1 /\ 1 \in Id /\ node \in [Id -> Node] /\ TableInv
    BY SwarmAssumption DEF Root, Inv, TableInv, TableTypes, Id
<1>2. \A h \in Id : index[h] = 0 /\ node[h] = FreeNode
    BY <1>1, SwarmAssumption DEF TableInv, TableExact, Id
<1>3. /\ c \in Node /\ c.parent = 0 /\ c.inst = FALSE /\ c.snap = FALSE
      /\ c.pending = 0 /\ c.deferred = NoReq
    <2>1. b \in 0..Unlimited /\ 0 \in 0..MaxId /\ 0 \in 0..MaxPending
        BY SwarmAssumption DEF Bound, Unlimited
    <2>2. RootCaps \in SUBSET CapNames /\ UnsafeStdlib \in BOOLEAN
        BY SwarmAssumption
    <2>3. QED
        BY <2>1, <2>2 DEF FreeNode, Node
<1>4. Fit(c)
    BY <1>3 DEF Fit
<1> HIDE DEF c
<1>5. n \in [Id -> Node] /\ n[1] = c /\ \A h \in Id \ {1} : n[h] = node[h]
    BY <1>1, <1>3
<1>6. PICK k \in Slot : Claim(k) /\ (Built(k, n) \/ NotBuilt(n))
    BY DEF Root, c
<1> HIDE DEF n
<1>7. /\ \A h \in Id \ {1} : node'[h] = node[h]
      /\ node'[1].deferred = NoReq /\ next_id' = 2
    <2>1. CASE Built(k, n)
        <3>1. node' = [n EXCEPT ![1].inst = TRUE] /\ next_id' = 2
            BY <1>1, <1>6, <2>1 DEF Built, Claim
        <3>2. QED
            BY <1>1, <1>3, <1>5, <3>1 DEF Node
    <2>2. CASE NotBuilt(n)
        <3>1. node' = [n EXCEPT ![1] = FreeNode] /\ next_id' = 2 /\ FreeNode.deferred = NoReq
            BY <1>1, <1>6, <2>2 DEF NotBuilt, Claim, FreeNode
        <3>2. QED
            BY <1>1, <1>5, <3>1
    <2>3. QED
        BY <1>6, <2>1, <2>2
<1>8. Reserve'
    <2>1. Deferrers' = {}
        BY <1>2, <1>7 DEF Deferrers, FreeNode
    <2>2. Cardinality(Deferrers') = 0
        BY <2>1, FS_EmptySet
    <2>3. QED
        BY <1>7, <2>2, SwarmAssumption DEF Reserve
<1>9. /\ \A h \in Id \ {1} : OnlyDeferred(h)
      /\ \A h \in Id \ Live : h # 1 => node'[h] = node[h]
    BY <1>7 DEF OnlyDeferred
<1>10. TableInv' /\ (Spent \/ Born(c))
    BY <1>1, <1>4, <1>5, <1>6, <1>8, <1>9, BuiltKeeps, NotBuiltKeeps
<1>11. Live = {}
    BY <1>2 DEF Live
<1>12. QED
    BY <1>3, <1>4, <1>10, <1>11

\* A hibernate request keeps the table, whether it is denied, refused or done.
LEMMA DoHibernateKeeps ==
    ASSUME TableInv, NEW p \in Live, NEW req, req.id \in Id \cup {0}, req.wom \in BOOLEAN,
           DoHibernate(p, req)
    PROVE  TableInv' /\ EventType' /\ spawns' = spawns
<1> DEFINE who  == IF req.id = 0 THEN p ELSE req.id
           n    == [node EXCEPT ![who].wom = @ \/ req.wom]
           tell == IF who # p THEN p ELSE node[p].parent
<1>1. p \in Id /\ who \in Id /\ node[p] \in Node
    BY DEF Live, TableInv, TableTypes
<1>2. /\ tell \in 0..MaxId /\ p \in 0..MaxId /\ who \in 0..MaxId
      /\ "denied" \in EventNames /\ "hibernated" \in EventNames
    <2>1. Id \subseteq 0..MaxId
        BY SwarmAssumption DEF Id
    <2>2. node[p].parent \in 0..MaxId
        BY <1>1 DEF Node
    <2>3. QED
        BY <1>1, <2>1, <2>2 DEF EventNames
<1>3. CASE who # p /\ ~(who \in Live /\ IsAncestor(p, who))
    <2>1. UNCHANGED <<tableVars, spawns>> /\ Emit(p, "denied", who)
        BY <1>3 DEF DoHibernate, Answer
    <2>2. QED
        BY <1>2, <2>1, SameTable, EmitType
<1>4. CASE ~(who # p /\ ~(who \in Live /\ IsAncestor(p, who)))
    <2>1. who \in Live
        BY <1>4
    <2>2. /\ \/ /\ AllowHibernation /\ node[who].inst /\ node[who].ran
                /\ SwapOut(who, n) /\ Emit(tell, "hibernated", who)
             \/ /\ AllowHibernation /\ ~node[who].inst
                /\ node' = n /\ Emit(tell, "hibernated", who)
                /\ UNCHANGED <<table, len, index, next_id, attached, released>>
             \/ /\ ~AllowHibernation \/ node[who].inst
                /\ node' = n /\ Emit(p, "denied", who)
                /\ UNCHANGED <<table, len, index, next_id, attached, released>>
          /\ UNCHANGED spawns
        BY <1>4 DEF DoHibernate
    <2> HIDE DEF who, tell
    <2>3. ASSUME node[who].inst, node[who].ran, SwapOut(who, n)
          PROVE  TableInv'
        BY <2>1, <2>3, SwapOutKeeps
    <2>4. ASSUME node' = n, UNCHANGED <<table, len, index, next_id, attached, released>>
          PROVE  TableInv'
        BY <2>1, <2>4, WomKeeps
    <2>5. EventType'
        BY <1>2, <2>2, EmitType
    <2>6. QED
        BY <2>2, <2>3, <2>4, <2>5
<1>5. QED
    BY <1>3, <1>4
\* Every action of the drain loop.
LEMMA DrainKeeps ==
    ASSUME Inv, \/ \E req \in Requests : Throttle(req) \/ DrainSpawn(req)
                \/ \E req \in OtherReq : DrainOther(req)
                \/ DrainNext
    PROVE  Inv'
<1>1. TableInv /\ StepTypes
    BY DEF Inv, StepInv
<1>2. ASSUME NEW req \in Requests, Throttle(req)
      PROVE  Inv'
    <2>1. Here \in Live /\ Here \in Id /\ node \in [Id -> Node]
        BY <1>1, <1>2, HereLive DEF Throttle, CanDrain, Live, TableInv, TableTypes
    <2>2. node' = [node EXCEPT ![Here].deferred = req]
        BY <1>2 DEF Throttle
    <2>3. Deferrers' = Deferrers \cup {Here}
        BY <2>1, <2>2, RequestTypes DEF Deferrers, Node
    <2>4. node[Here].deferred # NoReq \/ next_id + Cardinality(Deferrers) <= MaxId
        BY <1>2, RequestTypes DEF Throttle, Asked
    <2>5. UNCHANGED <<table, len, index, next_id, attached, released>>
        BY <1>2 DEF Throttle
    <2>6. Reserve'
        BY <1>1, <2>1, <2>3, <2>4, <2>5, ReserveHeld
    <2>7. TableInv'
        BY <1>1, <2>1, <2>2, <2>5, <2>6, DeferKeeps
    <2>8. EventType'
        BY <1>2, <2>1, EmitType, SwarmAssumption DEF Throttle, EventNames, Id
    <2>9. StepInv'
        BY <1>1, <1>2, SwarmAssumption DEF Throttle, Turn, StepInv, StepTypes, Finishing
    <2>10. QED
        BY <2>7, <2>8, <2>9 DEF Inv
<1>3. ASSUME NEW req \in Requests, DrainSpawn(req)
      PROVE  Inv'
    <2>1. Here \in Live /\ node[Here].inst
        BY <1>1, <1>3, HereLive DEF DrainSpawn, CanDrain
    <2>2. node[Here].deferred # NoReq \/ next_id + Cardinality(Deferrers) <= MaxId
        BY <1>3, RequestTypes DEF DrainSpawn, Asked
    <2>3. TableInv' /\ EventType' /\ (spawns' = spawns \/ spawns' = spawns + 1)
        BY <1>1, <1>3, <2>1, <2>2, DoSpawnKeeps DEF DrainSpawn
    <2>4. StepInv'
        BY <1>1, <1>3, <2>3, SwarmAssumption DEF DrainSpawn, StepInv, StepTypes, Finishing
    <2>5. QED
        BY <2>3, <2>4 DEF Inv
<1>4. ASSUME NEW req \in OtherReq, DrainOther(req)
      PROVE  Inv'
    <2>1. Here \in Live /\ Here \in 0..MaxId /\ Id \subseteq 0..MaxId /\ 0 \in 0..MaxId
        BY <1>1, <1>4, HereLive, SwarmAssumption DEF DrainOther, CanDrain, Live, Id
    <2>2. ASSUME NEW what \in EventNames, NEW about \in 0..MaxId, Answer(Here, what, about)
          PROVE  TableInv' /\ EventType' /\ spawns' = spawns
        BY <1>1, <2>1, <2>2, SameTable, EmitType DEF Answer
    <2>3. TableInv' /\ EventType' /\ spawns' = spawns
        <3>1. CASE req.op = "kill" /\ DoKill(Here, req.id)
            <4>1. req.id \in Id
                BY <3>1 DEF OtherReq
            <4>2. CASE req.id \in Live /\ IsAncestor(Here, req.id)
                BY <1>1, <3>1, <4>2, StopKeeps DEF DoKill, StopEvents
            <4>3. CASE ~(req.id \in Live /\ IsAncestor(Here, req.id))
                BY <2>1, <2>2, <3>1, <4>1, <4>3 DEF DoKill, EventNames
            <4>4. QED
                BY <4>2, <4>3
        <3>2. CASE req.op = "query" /\ DoQuery(Here, req.id)
            <4>1. req.id \in Id
                BY <3>2 DEF OtherReq
            <4>2. QED
                BY <2>1, <2>2, <3>2, <4>1 DEF DoQuery, EventNames
        <3>3. CASE req.op = "ref" /\ DoRef(Here, req.id)
            <4>1. req.id \in Id \cup {0}
                BY <3>3 DEF OtherReq
            <4>2. QED
                BY <2>1, <2>2, <3>3, <4>1 DEF DoRef, EventNames
        <3>4. CASE req.op = "hibernate" /\ DoHibernate(Here, req)
            <4>1. req.id \in Id \cup {0} /\ req.wom \in BOOLEAN
                BY <3>4 DEF OtherReq
            <4>2. QED
                BY <1>1, <2>1, <3>4, <4>1, DoHibernateKeeps
        <3>5. CASE req.op = "bad" /\ Answer(Here, "denied", 0)
            BY <2>1, <2>2, <3>5 DEF EventNames
        <3>6. QED
            BY <1>4, <3>1, <3>2, <3>3, <3>4, <3>5 DEF DrainOther
    <2>4. StepInv'
        BY <1>1, <1>4, <2>3, SwarmAssumption DEF DrainOther, StepInv, StepTypes, Finishing
    <2>5. QED
        BY <2>3, <2>4 DEF Inv
<1>5. ASSUME DrainNext
      PROVE  Inv'
    <2>1. TableInv' /\ EventType'
        BY <1>1, <1>5, SameTable, NoEventType DEF DrainNext
    <2>2. StepInv'
        BY <1>1, <1>5, SwarmAssumption DEF DrainNext, Turn, StepInv, StepTypes, Finishing
    <2>3. QED
        BY <2>1, <2>2 DEF Inv
<1>6. QED
    BY <1>2, <1>3, <1>4, <1>5
\* The host's calls.
LEMMA HostKeeps ==
    ASSUME Inv, HostCall
    PROVE  Inv'
<1>1. TableInv /\ StepTypes
    BY DEF Inv, StepInv
<1>2. pc = "idle" /\ UNCHANGED stepVars
    BY DEF HostCall, Root, HostKill, HostHibernate, HostWake, HostPush
<1>3. StepInv'
    BY <1>1, <1>2 DEF stepVars, StepInv, StepTypes, Finishing
<1>4. ASSUME NEW b \in Bound, Root(b)
      PROVE  TableInv' /\ EventType'
    BY <1>4, RootKeeps, NoEventType DEF Root
<1>5. ASSUME NEW h \in Id, HostKill(h)
      PROVE  TableInv' /\ EventType'
    BY <1>1, <1>5, StopKeeps DEF HostKill, StopEvents
<1>6. ASSUME NEW h \in Id, HostHibernate(h)
      PROVE  TableInv' /\ EventType'
    BY <1>1, <1>6, SwapOutKeeps, NoEventType DEF HostHibernate
<1>7. ASSUME NEW h \in Id, HostWake(h)
      PROVE  TableInv' /\ EventType'
    BY <1>1, <1>7, SwapInKeeps, NoEventType DEF HostWake
<1>8. ASSUME NEW h \in Id, HostPush(h)
      PROVE  TableInv' /\ EventType'
    BY <1>1, <1>8, PushKeeps, NoEventType DEF HostPush
<1>9. QED
    BY <1>3, <1>4, <1>5, <1>6, <1>7, <1>8 DEF Inv, HostCall

\* What a push leaves of the table: who is where, and who is resident.
LEMMA PushPlaces ==
    ASSUME TableInv, NEW h \in Id, Push(h)
    PROVE  table' = table /\ \A g \in Id : node'[g].inst = node[g].inst
<1>1. node \in [Id -> Node]
    BY DEF TableInv, TableTypes
<1>2. QED
    BY <1>1 DEF Push, Node

\* The phases around the drain loop.
LEMMA PhaseKeeps ==
    ASSUME Inv, \/ \E h \in Id : Ended(h) \/ Deliver(h)
                \/ BeginStep \/ EndPhase \/ WakeNext
    PROVE  Inv'
<1>1. TableInv /\ StepTypes
    BY DEF Inv, StepInv
<1>2. ASSUME NEW h \in Id, Ended(h)
      PROVE  Inv'
    <2>1. TableInv' /\ EventType'
        BY <1>1, <1>2, StopKeeps DEF Ended, StopEvents
    <2>2. StepInv'
        BY <1>1, <1>2 DEF Ended, stepVars, StepInv, StepTypes, Finishing
    <2>3. QED
        BY <2>1, <2>2 DEF Inv
<1>3. ASSUME NEW h \in Id, Deliver(h)
      PROVE  Inv'
    <2>1. TableInv' /\ EventType'
        BY <1>1, <1>3, PushKeeps, NoEventType DEF Deliver
    <2>2. StepTypes' /\ UNCHANGED <<pc, cur, bound>>
        BY <1>1, <1>3 DEF Deliver, stepVars, StepTypes
    <2>3. ASSUME pc = "finish"
          PROVE  cur <= bound /\ Drivable'
        <3>1. cur <= bound /\ Drivable
            BY <2>3 DEF Inv, StepInv, Finishing
        <3>2. Here \in Id
            BY <1>1, <3>1, HereLive DEF Drivable, Live
        <3>3. table' = table /\ node'[Here].inst = node[Here].inst
            BY <1>1, <1>3, <3>2, PushPlaces DEF Deliver
        <3>4. QED
            BY <2>2, <3>1, <3>3 DEF Drivable, Here
    <2>4. QED
        BY <2>1, <2>2, <2>3 DEF Inv, StepInv, Finishing
<1>4. ASSUME BeginStep
      PROVE  Inv'
    <2>1. TableInv' /\ EventType'
        BY <1>1, <1>4, SameTable, NoEventType DEF BeginStep
    <2>2. StepInv'
        BY <1>4, SwarmAssumption DEF BeginStep, Goto, StepInv, StepTypes, Finishing
    <2>3. QED
        BY <2>1, <2>2 DEF Inv
<1>5. ASSUME EndPhase
      PROVE  Inv'
    <2>1. TableInv' /\ EventType'
        BY <1>1, <1>5, SameTable, NoEventType DEF EndPhase
    <2>2. len \in 0..MaxInstances
        BY <1>1 DEF TableInv, TableTypes
    <2>3. StepInv'
        BY <1>1, <1>5, <2>2, SwarmAssumption DEF EndPhase, Goto, StepInv, StepTypes, Finishing
    <2>4. QED
        BY <2>1, <2>3 DEF Inv
<1>6. ASSUME WakeNext
      PROVE  Inv'
    <2>1. WakeWanted => Here \in Live /\ ~node[Here].inst
        BY <1>1, <1>6, HereLive DEF WakeNext, WakeWanted
    <2>2. TableInv' /\ EventType'
        <3>1. CASE UNCHANGED tableVars /\ event' = NoEvent
            BY <1>1, <3>1, SameTable, NoEventType
        <3>2. CASE WakeWanted /\ SwapIn(Here) /\ event' = NoEvent
            BY <1>1, <2>1, <3>2, SwapInKeeps, NoEventType
        <3>3. CASE WakeWanted /\ Stop(Here, "faulted")
            BY <1>1, <2>1, <3>3, StopKeeps DEF StopEvents
        <3>4. QED
            BY <1>6, <3>1, <3>2, <3>3 DEF WakeNext
    <2>3. StepInv'
        BY <1>1, <1>6, SwarmAssumption DEF WakeNext, Turn, StepInv, StepTypes, Finishing
    <2>4. QED
        BY <2>2, <2>3 DEF Inv
<1>7. QED
    BY <1>2, <1>3, <1>4, <1>5, <1>6

\* The drive loop.
LEMMA DriveKeeps ==
    ASSUME Inv, \/ DriveNext \/ DriveStop
                \/ \E what \in {"exited", "faulted", "exceeded"} : Finish(what)
    PROVE  Inv'
<1>1. TableInv /\ StepTypes
    BY DEF Inv, StepInv
<1>2. ASSUME DriveNext
      PROVE  Inv'
    <2>1. TableInv'
        <3>1. CASE Drivable
            BY <1>1, <1>2, <3>1, HereLive, RanKeeps DEF DriveNext, Drivable
        <3>2. CASE ~Drivable
            BY <1>1, <1>2, <3>2, SameTable DEF DriveNext, tableVars
        <3>3. QED
            BY <3>1, <3>2
    <2>2. StepInv' /\ EventType'
        BY <1>1, <1>2, NoEventType, SwarmAssumption
        DEF DriveNext, Turn, StepInv, StepTypes, Finishing
    <2>3. QED
        BY <2>1, <2>2 DEF Inv
<1>3. ASSUME DriveStop
      PROVE  Inv'
    <2>1. TableInv' /\ EventType'
        BY <1>1, <1>3, SameTable, NoEventType DEF DriveStop
    <2>2. StepTypes' /\ cur' <= bound'
        BY <1>1, <1>3 DEF DriveStop, StepTypes
    <2>3. Drivable'
        BY <1>3 DEF DriveStop, Drivable, Here, tableVars
    <2>4. QED
        BY <2>1, <2>2, <2>3 DEF Inv, StepInv, Finishing
<1>4. ASSUME NEW what \in {"exited", "faulted", "exceeded"}, Finish(what)
      PROVE  Inv'
    <2>1. cur <= bound /\ Here # 0
        BY <1>4 DEF Inv, StepInv, Finishing, Finish, Drivable
    <2>2. TableInv' /\ EventType'
        BY <1>1, <1>4, <2>1, HereLive, StopKeeps DEF Finish, StopEvents
    <2>3. StepInv'
        BY <1>1, <1>4, <2>1, SwarmAssumption DEF Finish, StepInv, StepTypes, Finishing
    <2>4. QED
        BY <2>2, <2>3 DEF Inv
<1>5. QED
    BY <1>2, <1>3, <1>4
-----------------------------------------------------------------------------
\* An empty swarm satisfies the invariant.
LEMMA InitInv ==
    ASSUME Init
    PROVE  Inv
<1>1. TableTypes
    BY FreeNodeType, SwarmAssumption DEF Init, TableTypes, Slot
<1>2. Live = {} /\ Deferrers = {}
    BY DEF Init, Live, Deferrers, FreeNode
<1>3. Reserve
    BY <1>2, FS_EmptySet, SwarmAssumption DEF Init, Reserve
<1>4. TableExact /\ NoOrphans /\ Attenuated /\ OneForm
    BY <1>2, SwarmAssumption DEF Init, TableExact, NoOrphans, Attenuated, OneForm
<1>5. HostMirrors
    BY <1>2, SwarmAssumption DEF Init, HostMirrors, Id
<1>6. StepInv /\ EventType
    BY SwarmAssumption DEF Init, StepInv, StepTypes, Finishing, EventType
<1>7. QED
    BY <1>1, <1>3, <1>4, <1>5, <1>6 DEF Inv, TableInv

\* So does a step that changes nothing.
LEMMA StutterInv ==
    ASSUME Inv, UNCHANGED vars
    PROVE  Inv'
<1>1. UNCHANGED tableVars /\ UNCHANGED stepVars /\ event' = event
    BY DEF vars
<1>2. TableInv'
    BY <1>1, SameTable DEF Inv
<1>3. StepInv' /\ EventType'
    BY <1>1 DEF Inv, StepInv, StepTypes, Finishing, Drivable, Here, EventType, tableVars, stepVars
<1>4. QED
    BY <1>2, <1>3 DEF Inv

\* Every action keeps the invariant.
LEMMA NextInv ==
    ASSUME Inv, [Next]_vars
    PROVE  Inv'
    BY HostKeeps, PhaseKeeps, DrainKeeps, DriveKeeps, StutterInv DEF Next, StepInside

(* The inductive invariant holds of every behaviour of the instance table.  *)
THEOREM Safety == Spec => []Inv
<1>1. Init => Inv
    BY InitInv
<1>2. Inv /\ [Next]_vars => Inv'
    BY NextInv
<1>3. QED
    BY <1>1, <1>2, PTL DEF Spec

(* Every variable keeps its type: the spawns of a step never exceed the     *)
(* rate, nor the wake buffer its bound (push, do_spawn).                    *)
THEOREM TypeCorrect == Spec => []TypeOK
<1>1. Inv => TypeOK
    BY DEF Inv, TableInv, TableTypes, StepInv, StepTypes, EventType, TypeOK
<1>2. QED
    BY <1>1, Safety, PTL

(* The handle map is exact, whatever was killed and whatever took its slot  *)
(* (find, claim, release).                                                  *)
THEOREM HandlesExact == Spec => []TableExact
<1>1. Inv => TableExact
    BY DEF Inv, TableInv
<1>2. QED
    BY <1>1, Safety, PTL

(* No kill, fault, exit or failed wake leaves an orphan (kill_subtree).     *)
THEOREM TreeWhole == Spec => []NoOrphans
<1>1. Inv => NoOrphans
    BY DEF Inv, TableInv
<1>2. QED
    BY <1>1, Safety, PTL

(* Attenuation: no instance ever holds a capability, a looser bound or an   *)
(* unsafe stdlib that its parent does not (do_spawn).                       *)
THEOREM Attenuation == Spec => []Attenuated
<1>1. Inv => Attenuated
    BY DEF Inv, TableInv
<1>2. QED
    BY <1>1, Safety, PTL

(* A live instance has exactly one form, and a message waits only for an    *)
(* instance that can be woken (hibernate, wake, push).                      *)
THEOREM Residency == Spec => []OneForm
<1>1. Inv => OneForm
    BY DEF Inv, TableInv
<1>2. QED
    BY <1>1, Safety, PTL

(* The host hears attached and detached in turn, and released once          *)
(* (the SwarmHost contract).                                                *)
THEOREM HostContract == Spec => []HostMirrors
<1>1. Inv => HostMirrors
    BY DEF Inv, TableInv
<1>2. QED
    BY <1>1, Safety, PTL
-----------------------------------------------------------------------------
\* What a step may do to the tree, to a resident instance and to a waiting
\* request: the three action properties and the refinement follow from it.

\* Who loses residency in the drain loop is the requester or below it.
SwapsBelow ==
    pc = "drain" => \A h \in Live : node[h].inst /\ ~node'[h].inst => h \in Subtree(Here)

\* A waiting request leaves its slot by being answered.
HeldKept ==
    \A h \in Live :
        node[h].deferred # NoReq /\ node'[h].deferred # node[h].deferred
        => /\ pc = "drain" /\ Here = h /\ spawns < SpawnRate
           /\ event'.what \in {"spawned", "faulted", "denied"} /\ event'.to = h

\* The root, or a child of a live parent.
Grown ==
    \E c : /\ Fit(c) /\ Born(c)
           /\ c.parent \in Live \/ (c.parent = 0 /\ next_id = 1)

\* A subtree goes and its parent is told; in the drain loop it is below the
\* one who asked.
Swept ==
    \E h \in Live, what \in StopEvents :
        Stop(h, what) /\ (pc = "drain" => Here \in Live /\ IsAncestor(Here, h))

Kind == Swept \/ ((Same \/ Spent \/ Grown) /\ SwapsBelow /\ HeldKept)

\* A step that leaves the tree and the requests alone and swaps out D at most.
Calm(D) ==
    /\ Same
    /\ \A g \in Live : /\ node'[g].deferred = node[g].deferred
                       /\ g \notin D /\ node[g].inst => node'[g].inst

\* A calm step is one of the kinds, if whom it swaps out may be.
LEMMA CalmKind ==
    ASSUME NEW D, Calm(D), pc = "drain" => D \subseteq Subtree(Here)
    PROVE  Kind
    BY DEF Calm, Kind, SwapsBelow, HeldKept

\* A step that rewrites one live slot, but for the tree and the request in it.
LEMMA CalmFields ==
    ASSUME TableInv, NEW h \in Live, NEW r \in Node, NEW D,
           node' = [node EXCEPT ![h] = r], UNCHANGED <<index, next_id>>,
           /\ r.parent = node[h].parent /\ r.caps = node[h].caps
           /\ r.budget = node[h].budget /\ r.unsafe = node[h].unsafe
           /\ r.deferred = node[h].deferred,
           h \in D \/ r.inst \/ r.inst = node[h].inst
    PROVE  Calm(D)
<1>1. node \in [Id -> Node] /\ Live \subseteq Id
    BY DEF TableInv, TableTypes, Live
<1>2. ASSUME NEW g \in Live
      PROVE  /\ Steady(g) /\ node'[g].deferred = node[g].deferred
             /\ g \notin D /\ node[g].inst => node'[g].inst
    <2>1. CASE g = h
        BY <1>1, <2>1 DEF Steady
    <2>2. CASE g # h
        BY <1>1, <2>2 DEF Steady
    <2>3. QED
        BY <2>1, <2>2
<1>3. QED
    BY <1>2 DEF Calm, Same, Live

\* A step that touches nothing of the table.
LEMMA CalmTable ==
    ASSUME TableInv, UNCHANGED tableVars
    PROVE  Calm({})
    BY DEF tableVars, Calm, Same, Steady, Live

\* A push, buffered or not.
LEMMA CalmPush ==
    ASSUME TableInv, NEW h \in Id, Push(h)
    PROVE  Calm({})
<1>1. CASE Buffers(h)
    <2> DEFINE r == [node[h] EXCEPT !.pending = @ + 1]
    <2>1. node \in [Id -> Node] /\ h \in Live
        BY <1>1 DEF TableInv, TableTypes, Buffers, Live
    <2>2. r \in Node
        BY <1>1, <2>1, SwarmAssumption DEF Buffers, Node
    <2>3. /\ r.parent = node[h].parent /\ r.caps = node[h].caps
          /\ r.budget = node[h].budget /\ r.unsafe = node[h].unsafe
          /\ r.deferred = node[h].deferred /\ r.inst = node[h].inst
        BY <2>1 DEF Node
    <2>4. node' = [node EXCEPT ![h] = r] /\ UNCHANGED <<index, next_id>>
        BY <1>1 DEF Push
    <2> HIDE DEF r
    <2>5. QED
        BY <2>1, <2>2, <2>3, <2>4, CalmFields
<1>2. CASE ~Buffers(h)
    BY <1>2, CalmTable DEF Push, tableVars
<1>3. QED
    BY <1>1, <1>2

\* A wake.
LEMMA CalmSwapIn ==
    ASSUME TableInv, NEW h \in Live, SwapIn(h)
    PROVE  Calm({})
<1> DEFINE r == [node[h] EXCEPT !.inst = TRUE, !.snap = FALSE, !.pending = 0]
<1>1. node[h] \in Node
    BY DEF TableInv, TableTypes, Live
<1>2. r \in Node
    BY <1>1, SwapTypes
<1>3. /\ r.parent = node[h].parent /\ r.caps = node[h].caps
      /\ r.budget = node[h].budget /\ r.unsafe = node[h].unsafe
      /\ r.deferred = node[h].deferred /\ r.inst
    BY <1>1 DEF Node
<1>4. node' = [node EXCEPT ![h] = r] /\ UNCHANGED <<index, next_id>>
    BY DEF SwapIn
<1> HIDE DEF r
<1>5. QED
    BY <1>2, <1>3, <1>4, CalmFields

\* A hibernation swaps out the instance it names.
LEMMA CalmSwapOut ==
    ASSUME TableInv, NEW h \in Live,
           NEW w \in BOOLEAN, NEW n \in {node, [node EXCEPT ![h].wom = @ \/ w]},
           SwapOut(h, n)
    PROVE  Calm({h})
<1> DEFINE r == [n[h] EXCEPT !.inst = FALSE, !.snap = TRUE]
<1>1. h \in Id /\ node \in [Id -> Node] /\ node[h] \in Node
    BY DEF TableInv, TableTypes, Live
<1>2. /\ n[h] \in Node /\ n[h].parent = node[h].parent /\ n[h].caps = node[h].caps
      /\ n[h].budget = node[h].budget /\ n[h].unsafe = node[h].unsafe
      /\ n[h].deferred = node[h].deferred
    <2>1. CASE n = node
        BY <1>1, <2>1
    <2>2. CASE n = [node EXCEPT ![h].wom = @ \/ w]
        BY <1>1, <2>2 DEF Node
    <2>3. QED
        BY <2>1, <2>2
<1>3. r \in Node
    BY <1>2, SwapTypes
<1>4. /\ r.parent = node[h].parent /\ r.caps = node[h].caps
      /\ r.budget = node[h].budget /\ r.unsafe = node[h].unsafe
      /\ r.deferred = node[h].deferred
    BY <1>2 DEF Node
<1>5. node' = [n EXCEPT ![h] = r] /\ UNCHANGED <<index, next_id>>
    BY DEF SwapOut
<1> HIDE DEF r
<1>6. node' = [node EXCEPT ![h] = r]
    BY <1>1, <1>5
<1>7. QED
    BY <1>3, <1>4, <1>5, <1>6, CalmFields

\* A refused hibernation may still set wake_on_message.
LEMMA CalmWom ==
    ASSUME TableInv, NEW h \in Live, NEW w \in BOOLEAN,
           node' = [node EXCEPT ![h].wom = @ \/ w], UNCHANGED <<index, next_id>>
    PROVE  Calm({})
<1> DEFINE r == [node[h] EXCEPT !.wom = @ \/ w]
<1>1. node[h] \in Node
    BY DEF TableInv, TableTypes, Live
<1>2. r \in Node
    BY <1>1 DEF Node
<1>3. /\ r.parent = node[h].parent /\ r.caps = node[h].caps
      /\ r.budget = node[h].budget /\ r.unsafe = node[h].unsafe
      /\ r.deferred = node[h].deferred /\ r.inst = node[h].inst
    BY <1>1 DEF Node
<1>4. node' = [node EXCEPT ![h] = r]
    OBVIOUS
<1> HIDE DEF r
<1>5. QED
    BY <1>2, <1>3, <1>4, CalmFields

\* A turn of the drive loop.
LEMMA CalmRan ==
    ASSUME TableInv, NEW h \in Live,
           node' = [node EXCEPT ![h].ran = TRUE], UNCHANGED <<index, next_id>>
    PROVE  Calm({})
<1> DEFINE r == [node[h] EXCEPT !.ran = TRUE]
<1>1. node[h] \in Node
    BY DEF TableInv, TableTypes, Live
<1>2. r \in Node
    BY <1>1 DEF Node
<1>3. /\ r.parent = node[h].parent /\ r.caps = node[h].caps
      /\ r.budget = node[h].budget /\ r.unsafe = node[h].unsafe
      /\ r.deferred = node[h].deferred /\ r.inst = node[h].inst
    BY <1>1 DEF Node
<1>4. node' = [node EXCEPT ![h] = r]
    OBVIOUS
<1> HIDE DEF r
<1>5. QED
    BY <1>2, <1>3, <1>4, CalmFields

\* A hibernate request reaches the requester and what is below it.
LEMMA HibernateKind ==
    ASSUME TableInv, Here \in Live, NEW req, req.id \in Id \cup {0}, req.wom \in BOOLEAN,
           DoHibernate(Here, req)
    PROVE  Kind
<1> DEFINE p    == Here
           who  == IF req.id = 0 THEN p ELSE req.id
           n    == [node EXCEPT ![who].wom = @ \/ req.wom]
<1>1. CASE who # p /\ ~(who \in Live /\ IsAncestor(p, who))
    BY <1>1, CalmTable, CalmKind DEF DoHibernate, Answer
<1>2. CASE ~(who # p /\ ~(who \in Live /\ IsAncestor(p, who)))
    <2>1. who \in Live /\ who \in Subtree(p)
        BY <1>2, BelowClosed DEF IsAncestor, Subtree
    <2>2. \/ SwapOut(who, n)
          \/ node' = n /\ UNCHANGED <<table, len, index, next_id, attached, released>>
        BY <1>2 DEF DoHibernate
    <2> HIDE DEF who
    <2>3. CASE SwapOut(who, n)
        BY <2>1, <2>3, CalmSwapOut, CalmKind
    <2>4. CASE node' = n /\ UNCHANGED <<table, len, index, next_id, attached, released>>
        BY <2>1, <2>4, CalmWom, CalmKind
    <2>5. QED
        BY <2>2, <2>3, <2>4
<1>3. QED
    BY <1>1, <1>2

\* The drain loop.
LEMMA DrainKind ==
    ASSUME Inv, \/ \E req \in Requests : Throttle(req) \/ DrainSpawn(req)
                \/ \E req \in OtherReq : DrainOther(req)
                \/ DrainNext
    PROVE  Kind
<1>1. TableInv /\ StepTypes /\ node \in [Id -> Node]
    BY DEF Inv, StepInv, TableInv, TableTypes
<1>2. ASSUME NEW req \in Requests, Throttle(req)
      PROVE  Kind
    <2>1. Here \in Live /\ Here \in Id
        BY <1>1, <1>2, HereLive DEF Throttle, CanDrain, Live
    <2>2. /\ node' = [node EXCEPT ![Here].deferred = req] /\ UNCHANGED <<index, next_id>>
          /\ node[Here].deferred # NoReq => req = node[Here].deferred
        BY <1>2 DEF Throttle, Asked
    <2>3. ASSUME NEW g \in Live
          PROVE  /\ Steady(g) /\ node'[g].inst = node[g].inst
                 /\ node[g].deferred # NoReq => node'[g].deferred = node[g].deferred
        BY <1>1, <2>1, <2>2 DEF Steady, Live, Node
    <2>4. Same /\ SwapsBelow /\ HeldKept
        BY <2>2, <2>3 DEF Same, SwapsBelow, HeldKept, Live
    <2>5. QED
        BY <2>4 DEF Kind
<1>3. ASSUME NEW req \in Requests, DrainSpawn(req)
      PROVE  Kind
    <2>1. Here \in Live /\ node[Here].inst
        BY <1>1, <1>3, HereLive DEF DrainSpawn, CanDrain
    <2>2. node[Here].deferred # NoReq \/ next_id + Cardinality(Deferrers) <= MaxId
        BY <1>3, RequestTypes DEF DrainSpawn, Asked
    <2>3. SpawnKind(Here) /\ pc = "drain" /\ spawns < SpawnRate
        BY <1>1, <1>3, <2>1, <2>2, DoSpawnKeeps DEF DrainSpawn
    <2>4. SwapsBelow /\ HeldKept
        BY <2>3 DEF SpawnKind, SwapsBelow, HeldKept
    <2>5. Same \/ Spent \/ Grown
        <3>1. ASSUME NEW c, Fit(c), c.parent = Here, Born(c)
              PROVE  Grown
            BY <2>1, <3>1 DEF Grown
        <3>2. QED
            BY <2>3, <3>1 DEF SpawnKind
    <2>6. QED
        BY <2>4, <2>5 DEF Kind
<1>4. ASSUME NEW req \in OtherReq, DrainOther(req)
      PROVE  Kind
    <2>1. Here \in Live
        BY <1>1, <1>4, HereLive DEF DrainOther, CanDrain
    <2>2. ASSUME NEW what, NEW about, Answer(Here, what, about)
          PROVE  Kind
        BY <1>1, <2>2, CalmTable, CalmKind DEF Answer
    <2>3. CASE req.op = "kill" /\ DoKill(Here, req.id)
        <3>1. CASE req.id \in Live /\ IsAncestor(Here, req.id)
            BY <2>1, <2>3, <3>1 DEF DoKill, Kind, Swept, StopEvents
        <3>2. CASE ~(req.id \in Live /\ IsAncestor(Here, req.id))
            BY <2>2, <2>3, <3>2 DEF DoKill
        <3>3. QED
            BY <3>1, <3>2
    <2>4. CASE req.op = "query" /\ DoQuery(Here, req.id)
        BY <2>2, <2>4 DEF DoQuery
    <2>5. CASE req.op = "ref" /\ DoRef(Here, req.id)
        BY <2>2, <2>5 DEF DoRef
    <2>6. CASE req.op = "hibernate" /\ DoHibernate(Here, req)
        <3>1. req.id \in Id \cup {0} /\ req.wom \in BOOLEAN
            BY <2>6 DEF OtherReq
        <3>2. QED
            BY <1>1, <2>1, <2>6, <3>1, HibernateKind
    <2>7. CASE req.op = "bad" /\ Answer(Here, "denied", 0)
        BY <2>2, <2>7
    <2>8. QED
        BY <1>4, <2>3, <2>4, <2>5, <2>6, <2>7 DEF DrainOther
<1>5. ASSUME DrainNext
      PROVE  Kind
    BY <1>1, <1>5, CalmTable, CalmKind DEF DrainNext
<1>6. QED
    BY <1>2, <1>3, <1>4, <1>5

\* Every step is of one of the kinds.
LEMMA NextKind ==
    ASSUME Inv, [Next]_vars
    PROVE  Kind
<1>1. TableInv /\ StepTypes
    BY DEF Inv, StepInv
<1>2. ASSUME NEW b \in Bound, Root(b)
      PROVE  Kind
    <2>1. Live = {} /\ next_id = 1 /\ (Spent \/ \E c : Fit(c) /\ c.parent = 0 /\ Born(c))
        BY <1>2, RootKeeps DEF Root
    <2>2. QED
        BY <2>1 DEF Kind, SwapsBelow, HeldKept, Grown
<1>3. ASSUME NEW h \in Id, HostKill(h) \/ HostHibernate(h) \/ HostWake(h) \/ HostPush(h)
      PROVE  Kind
    <2>1. CASE HostKill(h)
        BY <2>1 DEF HostKill, Kind, Swept, StopEvents
    <2>2. CASE HostHibernate(h)
        BY <1>1, <2>2, CalmSwapOut, CalmKind DEF HostHibernate
    <2>3. CASE HostWake(h)
        BY <1>1, <2>3, CalmSwapIn, CalmKind DEF HostWake
    <2>4. CASE HostPush(h)
        BY <1>1, <2>4, CalmPush, CalmKind DEF HostPush
    <2>5. QED
        BY <1>3, <2>1, <2>2, <2>3, <2>4
<1>4. ASSUME NEW h \in Id, Ended(h) \/ Deliver(h)
      PROVE  Kind
    <2>1. CASE Ended(h)
        BY <2>1 DEF Ended, Kind, Swept, StopEvents
    <2>2. CASE Deliver(h)
        BY <1>1, <2>2, CalmPush, CalmKind DEF Deliver
    <2>3. QED
        BY <1>4, <2>1, <2>2
<1>5. CASE BeginStep \/ EndPhase \/ DriveStop \/ UNCHANGED vars
    <2>1. UNCHANGED tableVars
        BY <1>5 DEF BeginStep, EndPhase, DriveStop, vars
    <2>2. QED
        BY <1>1, <2>1, CalmTable, CalmKind
<1>6. CASE WakeNext
    <2>1. WakeWanted => Here \in Live
        BY <1>1, <1>6, HereLive DEF WakeNext, WakeWanted
    <2>2. CASE UNCHANGED tableVars
        BY <1>1, <2>2, CalmTable, CalmKind
    <2>3. CASE WakeWanted /\ SwapIn(Here)
        BY <1>1, <2>1, <2>3, CalmSwapIn, CalmKind
    <2>4. CASE WakeWanted /\ Stop(Here, "faulted")
        BY <1>6, <2>1, <2>4 DEF WakeNext, Kind, Swept, StopEvents
    <2>5. QED
        BY <1>6, <2>2, <2>3, <2>4 DEF WakeNext
<1>7. CASE DriveNext
    <2>1. CASE Drivable
        BY <1>1, <1>7, <2>1, HereLive, CalmRan, CalmKind DEF DriveNext, Drivable
    <2>2. CASE ~Drivable
        BY <1>1, <1>7, <2>2, CalmTable, CalmKind DEF DriveNext, tableVars
    <2>3. QED
        BY <2>1, <2>2
<1>8. ASSUME NEW what \in {"exited", "faulted", "exceeded"}, Finish(what)
      PROVE  Kind
    <2>1. Here \in Live
        BY <1>1, <1>8, HereLive DEF Inv, StepInv, Finishing, Finish, Drivable
    <2>2. QED
        BY <1>8, <2>1 DEF Finish, Kind, Swept, StopEvents
<1>9. QED
    BY <1>2, <1>3, <1>4, <1>5, <1>6, <1>7, <1>8, DrainKind DEF Next, HostCall, StepInside
-----------------------------------------------------------------------------
\* What lies below a node, and is not the node, has its parent there too.
LEMMA BelowParent ==
    ASSUME NEW N, NEW up, NEW h \in N, NEW g \in Below(N, up, h), g # h
    PROVE  up[g] \in Below(N, up, h)
<1> DEFINE B == Below(N, up, h)
           D == B \ {g}
<1>1. SUFFICES ASSUME up[g] \notin B
               PROVE  FALSE
    OBVIOUS
<1>2. B \subseteq N /\ h \in B /\ Closed(N, up, B)
    BY BelowClosed
<1>3. Closed(N, up, D)
    BY <1>1, <1>2 DEF Closed
<1>4. D \in SUBSET N /\ h \in D /\ g \notin D
    BY <1>2
<1>5. g \in D
    BY <1>3, <1>4 DEF Below
<1>6. QED
    BY <1>4, <1>5

\* Whoever is below an instance is younger, and what is below it is below
\* the instance.
LEMMA BelowYounger ==
    ASSUME TableInv, NEW a \in Live, NEW t \in Subtree(a)
    PROVE  a <= t /\ Subtree(t) \subseteq Subtree(a)
<1> DEFINE D == {g \in Live : a <= g}
<1>1. \A g \in Live : g \in Nat /\ (Up[g] = 0 \/ (Up[g] \in Live /\ Up[g] < g))
    BY SwarmAssumption DEF TableInv, NoOrphans, Live, Up, Id
<1>2. Closed(Live, Up, D)
    <2>1. ASSUME NEW g \in Live, Up[g] \in D
          PROVE  a <= g
        <3>1. Up[g] # 0
            BY <2>1, SwarmAssumption DEF Live, Id
        <3>2. QED
            BY <1>1, <2>1, <3>1
    <2>2. QED
        BY <2>1 DEF Closed
<1>3. D \in SUBSET Live /\ a \in D
    BY <1>1
<1>4. a <= t
    BY <1>2, <1>3 DEF Subtree, Below
<1>5. Subtree(a) \in SUBSET Live /\ Closed(Live, Up, Subtree(a))
    BY BelowClosed DEF Subtree
<1>6. Subtree(t) \subseteq Subtree(a)
    BY <1>5 DEF Subtree, Below
<1>7. QED
    BY <1>4, <1>6

\* A sweep takes the subtree, and everyone else is as before.
LEMMA SweptRest ==
    ASSUME TableInv, NEW h \in Live, NEW what \in StopEvents, Stop(h, what)
    PROVE  /\ Live' = Live \ Subtree(h)
           /\ \A g \in Live' : node'[g] = node[g]
           /\ \A g \in Id : node'[g] = IF g \in Subtree(h) THEN FreeNode ELSE node[g]
           /\ next_id' = next_id
<1>1. Live' = Live \ Subtree(h)
    BY StopKeeps
<1>2. \A g \in Id : node'[g] = IF g \in Subtree(h) THEN FreeNode ELSE node[g]
    BY DEF Stop, Release
<1>3. QED
    BY <1>1, <1>2 DEF Stop, Release, Live

\* The step behind StopReported.
LEMMA StopStep ==
    ASSUME Inv, [Next]_vars, NEW h \in Live, h \notin Live',
           node[h].parent # 0, node[h].parent \in Live', node[node[h].parent].inst
    PROVE  event'.what \in StopEvents /\ event'.to = node[h].parent /\ event'.about = h
<1>1. Swept
    BY NextKind DEF Kind, Same, Spent, Grown, Born
<1>2. PICK t \in Live, what \in StopEvents : Stop(t, what)
    BY <1>1 DEF Swept
<1>3. Live' = Live \ Subtree(t) /\ \A g \in Live' : node'[g] = node[g]
    BY <1>2, SweptRest DEF Inv
<1>4. h = t
    <2>1. h \in Subtree(t) /\ Up[h] = node[h].parent
        BY <1>3 DEF Up, Live
    <2>2. h # t => Up[h] \in Subtree(t)
        BY <2>1, BelowParent DEF Subtree
    <2>3. QED
        BY <1>3, <2>1, <2>2
<1>5. Emit(node[h].parent, what, h)
    BY <1>2, <1>4 DEF Stop
<1>6. QED
    BY <1>3, <1>5 DEF Emit

\* The step behind ReachesOnlyBelow.
LEMMA ReachStep ==
    ASSUME Inv, [Next]_vars, pc = "drain", NEW h \in Live
    PROVE  /\ h \notin Live' => h \in Subtree(Here) \ {Here}
           /\ h \in Live' /\ node[h].inst /\ ~node'[h].inst => h \in Subtree(Here)
<1>1. CASE Swept
    <2>1. PICK t \in Live, what \in StopEvents :
             Stop(t, what) /\ Here \in Live /\ IsAncestor(Here, t)
        BY <1>1 DEF Swept
    <2>2. Live' = Live \ Subtree(t) /\ \A g \in Live' : node'[g] = node[g]
        BY <2>1, SweptRest DEF Inv
    <2>3. t # Here /\ t \in Subtree(Here) /\ Here <= t /\ Subtree(t) \subseteq Subtree(Here)
        BY <2>1, BelowYounger DEF IsAncestor, Inv
    <2>4. Here \notin Subtree(t)
        BY <2>1, <2>3, BelowYounger, SwarmAssumption DEF Inv, Live, Id
    <2>5. QED
        BY <2>2, <2>3, <2>4
<1>2. CASE (Same \/ Spent \/ Grown) /\ SwapsBelow
    <2>1. h \in Live'
        BY <1>2 DEF Same, Spent, Grown, Born
    <2>2. QED
        BY <1>2, <2>1 DEF SwapsBelow
<1>3. QED
    BY <1>1, <1>2, NextKind DEF Kind

\* The step behind DeferredKept.
LEMMA HeldStep ==
    ASSUME Inv, [Next]_vars, NEW h \in Live, h \in Live',
           node[h].deferred # NoReq, node'[h].deferred # node[h].deferred
    PROVE  /\ pc = "drain" /\ Here = h /\ spawns < SpawnRate
           /\ event'.what \in {"spawned", "faulted", "denied"} /\ event'.to = h
<1>1. CASE Swept
    BY <1>1, SweptRest DEF Swept, Inv
<1>2. CASE HeldKept
    BY <1>2 DEF HeldKept
<1>3. QED
    BY <1>1, <1>2, NextKind DEF Kind
-----------------------------------------------------------------------------
(* A supervisor that is resident hears of every child it loses, whatever    *)
(* the cause, in the step that takes the child (every caller of             *)
(* kill_subtree).                                                           *)
THEOREM StopsReported == Spec => StopReported
<1>1. Inv /\ [Next]_vars =>
        [\A h \in Live :
          LET p == node[h].parent
          IN  h \notin Live' /\ p # 0 /\ p \in Live' /\ node[p].inst
              => event'.what \in StopEvents /\ event'.to = p /\ event'.about = h]_vars
    BY StopStep
<1>2. QED
    BY <1>1, Safety, PTL DEF Spec, StopReported

(* No request of a program ends an instance that is not strictly below it,  *)
(* nor swaps out one that is neither it nor below it (is_ancestor).         *)
THEOREM ReachBounded == Spec => ReachesOnlyBelow
<1>1. Inv /\ [Next]_vars =>
        [pc = "drain" =>
         \A h \in Live :
            /\ h \notin Live' => h \in Subtree(Here) \ {Here}
            /\ h \in Live' /\ node[h].inst /\ ~node'[h].inst => h \in Subtree(Here)]_vars
    BY ReachStep
<1>2. QED
    BY <1>1, Safety, PTL DEF Spec, ReachesOnlyBelow

(* A throttled spawn is never lost: it leaves its slot with the slot or     *)
(* with an answer (drain).                                                  *)
THEOREM ThrottledKept == Spec => DeferredKept
<1>1. Inv /\ [Next]_vars =>
        [\A h \in Live :
          node[h].deferred # NoReq /\ h \in Live' /\ node'[h].deferred # node[h].deferred
          => /\ pc = "drain" /\ Here = h /\ spawns < SpawnRate
             /\ event'.what \in {"spawned", "faulted", "denied"} /\ event'.to = h]_vars
    BY HeldStep
<1>2. QED
    BY <1>1, Safety, PTL DEF Spec, DeferredKept
-----------------------------------------------------------------------------
\* The tree of handles, as the table keeps it.
Lent(h) == [caps |-> node[h].caps, budget |-> node[h].budget, unsafe |-> node[h].unsafe]

\* A dead handle has no parent and no authority, before a step and after it.
LEMMA DeadHandles ==
    ASSUME TableInv
    PROVE  \A h \in Id \ Live : node[h] = FreeNode
    BY DEF TableInv, TableExact, Live

\* A free slot's record lends nothing.
LEMMA FreeLends ==
    /\ FreeNode.parent = 0
    /\ [caps |-> FreeNode.caps, budget |-> FreeNode.budget, unsafe |-> FreeNode.unsafe]
       = Promised!NoPower
<1>1. FreeNode.parent = 0 /\ FreeNode.caps = {} /\ FreeNode.budget = 0
    BY DEF FreeNode
<1>2. FreeNode.unsafe = FALSE
    BY DEF FreeNode
<1>3. QED
    BY <1>1, <1>2, Zenon DEF Promised!NoPower

\* The initial table is the empty tree.
LEMMA TreeInit ==
    ASSUME Init
    PROVE  Promised!Init
<1>1. Live = {} /\ next_id = 1 /\ \A h \in Id : node[h] = FreeNode
    BY DEF Init, Live
<1>2. 1..(next_id - 1) = {}
    BY <1>1
<1>3. QED
    BY <1>1, <1>2, FreeLends DEF Promised!Init, Up

\* A step that leaves the tree alone is a stutter of it.
LEMMA TreeSame ==
    ASSUME TableInv, TableInv', Same
    PROVE  UNCHANGED Promised!vars
<1>1. \A h \in Id : Steady(h)
    BY DeadHandles DEF Same, Steady, TableInv, TableExact, Live
<1>2. Up' = Up
    BY <1>1 DEF Up, Steady
<1>3. QED
    BY <1>1, <1>2 DEF Same, Promised!vars, Steady

\* A handle is spent.
LEMMA TreeSpent ==
    ASSUME TableInv, TableInv', Spent
    PROVE  Promised!Next
<1>1. next_id \in Id /\ 1..(next_id' - 1) = (1..(next_id - 1)) \cup {next_id}
    BY SwarmAssumption DEF Spent, Id
<1>2. next_id \notin 1..(next_id - 1)
    BY <1>1, SwarmAssumption DEF Id
<1>3. \A h \in Id : Steady(h)
    BY DEF Spent, Steady, TableInv, TableExact, Live
<1>4. Up' = Up
    BY <1>3 DEF Up, Steady
<1>5. Promised!Burn(next_id)
    BY <1>1, <1>2, <1>3, <1>4 DEF Promised!Burn, Spent, Steady
<1>6. QED
    BY <1>1, <1>2, <1>5 DEF Promised!Next

\* A new instance is the root, or a child with no more than its parent.
LEMMA TreeGrown ==
    ASSUME TableInv, TableInv', Grown
    PROVE  Promised!Next
<1>1. PICK c : /\ Fit(c) /\ Born(c)
               /\ c.parent \in Live \/ (c.parent = 0 /\ next_id = 1)
    BY DEF Grown
<1> DEFINE a == [caps |-> c.caps, budget |-> c.budget, unsafe |-> c.unsafe]
<1>2. next_id \in Id /\ 1..(next_id' - 1) = (1..(next_id - 1)) \cup {next_id}
    BY <1>1, SwarmAssumption DEF Born, Id
<1>3. next_id \notin 1..(next_id - 1) /\ (next_id = 1 => 1..(next_id - 1) = {})
    BY <1>2, SwarmAssumption DEF Id
<1>4. \A h \in Id \ {next_id} : Steady(h)
    BY <1>1 DEF Born, Steady, TableInv, TableExact, Live
<1>5. Up' = [Up EXCEPT ![next_id] = c.parent]
    BY <1>1, <1>2, <1>4 DEF Up, Steady, Born
<1>6. [h \in Id |-> Lent(h)]' = [[h \in Id |-> Lent(h)] EXCEPT ![next_id] = a]
    BY <1>1, <1>2, <1>4 DEF Lent, Steady, Born
<1>7. Promised!Grow(c.parent, next_id, a)
    BY <1>1, <1>2, <1>3, <1>5, <1>6 DEF Promised!Grow, Born, Lent
<1>8. a \in Promised!Power
    BY <1>1 DEF Fit, Node, Promised!Power
<1>9. CASE c.parent = 0 /\ next_id = 1
    <2>1. Promised!Boot(next_id, a)
        BY <1>3, <1>7, <1>9 DEF Promised!Boot
    <2>2. QED
        BY <1>2, <1>3, <1>8, <2>1 DEF Promised!Next
<1>10. CASE c.parent \in Live
    <2>1. c.parent # 0 /\ c.parent \in Id
        BY <1>10, SwarmAssumption DEF Live, Id
    <2>2. Promised!Narrower(a, Lent(c.parent))
        BY <1>1, <2>1 DEF Fit, Promised!Narrower, Lent
    <2>3. Promised!Spawn(c.parent, next_id, a)
        BY <1>7, <1>10, <2>1, <2>2 DEF Promised!Spawn, Lent
    <2>4. QED
        BY <1>2, <1>3, <1>8, <1>10, <2>3 DEF Promised!Next
<1>11. QED
    BY <1>1, <1>9, <1>10

\* A sweep is one pruned subtree.
LEMMA TreeSwept ==
    ASSUME TableInv, TableInv', Swept
    PROVE  Promised!Next
<1>1. PICK h \in Live, what \in StopEvents : Stop(h, what)
    BY DEF Swept
<1>2. /\ Live' = Live \ Subtree(h) /\ next_id' = next_id
      /\ \A g \in Id : node'[g] = IF g \in Subtree(h) THEN FreeNode ELSE node[g]
    BY <1>1, SweptRest
<1>3. Up' = [g \in Id |-> IF g \in Subtree(h) THEN 0 ELSE Up[g]]
    BY <1>2 DEF Up, FreeNode
<1>4. [g \in Id |-> Lent(g)]' = [g \in Id |-> IF g \in Subtree(h) THEN Promised!NoPower ELSE Lent(g)]
    BY <1>2, FreeLends DEF Lent
<1>5. Promised!Prune(h)
    BY <1>1, <1>2, <1>3, <1>4
    DEF Promised!Prune, Subtree, Lent, Below, Closed, Promised!Below, Promised!Closed
<1>6. QED
    BY <1>1, <1>5 DEF Promised!Next

(* The instance table implements the tree of handles: whatever a program,   *)
(* the host or the engine does, the live handles grow by a root or by a     *)
(* child with no more than its parent, lose a whole subtree, or stay; and   *)
(* no handle is given out twice.                                            *)
THEOREM TreeImplemented == Spec => TreePromised
<1>1. Init => Promised!Init
    BY TreeInit
<1>2. Inv /\ Inv' /\ [Next]_vars => [Promised!Next]_Promised!vars
    <2>1. SUFFICES ASSUME Inv, Inv', [Next]_vars
                   PROVE  [Promised!Next]_Promised!vars
        OBVIOUS
    <2>2. TableInv /\ TableInv'
        BY <2>1 DEF Inv
    <2>3. Swept \/ Same \/ Spent \/ Grown
        BY <2>1, NextKind DEF Kind
    <2>4. QED
        BY <2>2, <2>3, TreeSame, TreeSpent, TreeGrown, TreeSwept
<1>3. QED
    BY <1>1, <1>2, Safety, PTL DEF Spec, TreePromised, Promised!Spec
=============================================================================
