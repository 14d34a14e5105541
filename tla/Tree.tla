-------------------------------- MODULE Tree --------------------------------
(***************************************************************************)
(* What the instance table of drt-swarm promises to a deployment, without  *)
(* slots, steps or residency: a tree of handles.  A handle is used once.   *)
(* A child is born under a live parent with no more authority than the     *)
(* parent has.  Death takes a whole subtree and nothing else.              *)
(***************************************************************************)
EXTENDS Naturals

CONSTANTS Id,         \* every handle
          CapNames,   \* capability names
          Ceiling     \* the bounds an instance may run under, as numbers

VARIABLES live,       \* the handles that answer
          parent,     \* the parent of each live handle; 0 for the root
          power,      \* the authority of each live handle
          used        \* the handles ever given out

vars == <<live, parent, power, used>>

Power   == [caps : SUBSET CapNames, budget : Ceiling, unsafe : BOOLEAN]
NoPower == [caps |-> {}, budget |-> 0, unsafe |-> FALSE]

\* D holds, with a node, every child of that node.
Closed(N, up, D) == \A g \in N : up[g] \in D => g \in D

\* The node h and everything below it: the least closed set that holds h.
Below(N, up, h) ==
    {g \in N : \A D \in SUBSET N : (h \in D /\ Closed(N, up, D)) => g \in D}

\* The authority a is one that a holder of b may hand on.
Narrower(a, b) ==
    /\ a.caps \subseteq b.caps
    /\ a.budget <= b.budget
    /\ a.unsafe => b.unsafe

Init ==
    /\ live = {}
    /\ parent = [h \in Id |-> 0]
    /\ power = [h \in Id |-> NoPower]
    /\ used = {}

Grow(p, h, a) ==
    /\ h \notin used
    /\ live' = live \cup {h}
    /\ parent' = [parent EXCEPT ![h] = p]
    /\ power' = [power EXCEPT ![h] = a]
    /\ used' = used \cup {h}

\* The deployment's root: the first handle, under no parent.
Boot(h, a) == used = {} /\ Grow(0, h, a)

\* A parent hands on some of what it holds.
Spawn(p, h, a) == p \in live /\ Narrower(a, power[p]) /\ Grow(p, h, a)

\* A program that would not load: its handle is spent and names nothing.
Burn(h) == h \notin used /\ used' = used \cup {h} /\ UNCHANGED <<live, parent, power>>

\* A death, whatever its cause.
Prune(h) ==
    /\ h \in live
    /\ LET gone == Below(live, parent, h)
       IN  /\ live' = live \ gone
           /\ parent' = [g \in Id |-> IF g \in gone THEN 0 ELSE parent[g]]
           /\ power' = [g \in Id |-> IF g \in gone THEN NoPower ELSE power[g]]
    /\ UNCHANGED used

Next ==
    \/ \E h \in Id \ used : Burn(h) \/ \E a \in Power : Boot(h, a) \/ \E p \in live : Spawn(p, h, a)
    \/ \E h \in live : Prune(h)

Spec == Init /\ [][Next]_vars
=============================================================================
