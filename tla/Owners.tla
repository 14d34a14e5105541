------------------------------- MODULE Owners -------------------------------
(***************************************************************************)
(* Owners: a connector that holds things for instances, and what the swarm *)
(* does for it (Swarm::step and PumpHost in crates/drt-swarm, the hooks of *)
(* Connector and the table of Handles in crates/drt-connector).            *)
(*                                                                         *)
(* A step asks the connector who has to end and kills those instances,     *)
(* then asks what it has to say, and then drives: only there do programs   *)
(* call and are the calls in flight polled, whether or not the caller has  *)
(* been swapped out since.  A call that waits is an action of its caller   *)
(* that is not enabled yet: what it reads, it reads when it is polled.     *)
(***************************************************************************)
EXTENDS Integers, Sequences, FiniteSets, TLC

CONSTANTS Inst,      \* the instances
          MaxHandle  \* bound: handles issued in a behaviour

ASSUME OwnersAssumption == MaxHandle \in Nat \ {0}

VARIABLES gone,      \* the instances that were released
          pc,        \* where the step is: drive, or hooks between the two hooks
          table,     \* handle -> what the connector holds behind it
          next,      \* the next handle: they are never reused
          offers,    \* transfers not yet claimed, oldest first: <<from, to, handle>>
          ended      \* owners to report at the next ask

swarmVars == <<gone, pc>>
heldVars  == <<table, next, offers, ended>>

Handle == 1..MaxHandle

\* The first hook, the second, and what happens between them and the next.
Doomed(dead) == pc = "drive" /\ pc' = "hooks" /\ gone' = gone \cup dead
Told         == pc = "hooks" /\ pc' = "drive" /\ UNCHANGED gone
Driven(n)    == pc = "drive" /\ n \notin gone
Calls(n)     == Driven(n) /\ UNCHANGED swarmVars
Dies(n)      == Driven(n) /\ gone' = gone \cup {n} /\ UNCHANGED pc
-----------------------------------------------------------------------------
\* The handle table.

\* The elements of a sequence at some of its indices, in their order.
Only(seq, at) ==
    LET kept[i \in 0..Len(seq)] ==
          IF i = 0 THEN <<>> ELSE IF i \in at THEN Append(kept[i - 1], seq[i]) ELSE kept[i - 1]
    IN  kept[Len(seq)]

Holds(n, h)   == h \in DOMAIN table /\ table[h].owner = n
OwnedBy(dead) == {h \in DOMAIN table : table[h].owner \in dead}
Without(hs)   == [h \in DOMAIN table \ hs |-> table[h]]

With(t, h, entry) == [k \in DOMAIN t \cup {h} |-> IF k = h THEN entry ELSE t[k]]
Insert(entry)     == table' = With(table, next, entry) /\ next' = next + 1

\* Offers from or to an instance that is gone.
Living(dead) == Only(offers, {i \in DOMAIN offers : offers[i][1] \notin dead /\ offers[i][2] \notin dead})

Release(dead) == table' = Without(OwnedBy(dead)) /\ offers' = Living(dead)
-----------------------------------------------------------------------------
\* transfer, and the offer a claim takes.

Withdrawn(n, h) == Only(offers, {i \in DOMAIN offers : ~(offers[i][1] = n /\ offers[i][3] = h)})

\* A second transfer of the same handle replaces the first.
Transfer(n, to, h) == Holds(n, h) /\ to # n /\ offers' = Append(Withdrawn(n, h), <<n, to, h>>)

\* Any offer addressed to the caller (named is 0), or the one it names.
Addressed(n, named) == {i \in DOMAIN offers : offers[i][2] = n /\ named \in {0, offers[i][3]}}
Oldest(n, named)    == CHOOSE i \in Addressed(n, named) : \A j \in Addressed(n, named) : i <= j
Taken(i)            == Only(offers, DOMAIN offers \ {i})

OwnersInit ==
    gone = {} /\ pc = "drive" /\ table = <<>> /\ next = 1 /\ offers = <<>> /\ ended = {}
=============================================================================
