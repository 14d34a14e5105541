----------------------------- MODULE Endpoints -----------------------------
(***************************************************************************)
(* Endpoints: what the instances of one swarm push at each other           *)
(* (crates/drt-swarm/src/swarm.rs, route_endpoints and what it calls).     *)
(*                                                                         *)
(* A program binds a reference and pushes into an endpoint queue of its    *)
(* own.  Each step the swarm moves what waits there to the far end's       *)
(* inbox: into the engine when the far end is resident, into the wake      *)
(* buffer when it is cached and asked to be woken.  A message the far end  *)
(* has no room for is held, outside the instance, and retried first.  The  *)
(* far end's engine may fail a push: the message in hand is then lost.     *)
(*                                                                         *)
(* Routing runs inside a step with no guest running; each iteration of its *)
(* loops is one action here.  Programs and the host act while pc is idle.  *)
(***************************************************************************)
EXTENDS Integers, Sequences, FiniteSets

CONSTANTS Inst,         \* the instances
          Order,        \* their slots: a sequence without repetition
          Link,         \* the references programs hold: pairs <<sender, far end>>
          Foreign,      \* the links whose reference another swarm minted
          Waking,       \* the instances with wake_on_message
          DropOldest,   \* the instances whose inbox evicts when it is full
          EndpointCap,  \* capacity of an endpoint queue
          InboxCap,     \* capacity of an inbox
          MaxPending,   \* the wake buffer's bound
          MaxMsg        \* bound of the model: messages sent over a link

ASSUME EndpointsAssumption ==
    /\ IsFiniteSet(Inst)
    /\ Link \subseteq Inst \X Inst /\ Foreign \subseteq Link
    /\ Waking \subseteq Inst /\ DropOldest \subseteq Inst
    /\ Order \in [1..Cardinality(Inst) -> Inst] /\ \A x \in Inst : \E i \in DOMAIN Order : Order[i] = x
    /\ EndpointCap \in Nat \ {0} /\ InboxCap \in Nat \ {0}
    /\ MaxPending \in Nat \ {0} /\ MaxMsg \in Nat \ {0}

VARIABLES place,      \* resident, cached or gone
          declared,   \* whose inbox exists
          tokens,     \* the links a residency has bound, in token order
          open,       \* the links whose endpoint has not been closed
          out,        \* link -> the messages in the endpoint queue
          held,       \* instance -> <<far end, message>> refused and kept
          pending,    \* instance -> its wake buffer
          inbox,      \* instance -> its inbox, <<sender, message>>
          sent,       \* link -> messages sent, which number them
          read,       \* link -> the last message the far end read
          pc,         \* where routing is; "idle" outside it
          todo,       \* the slots it has yet to do, the current one first
          stopped,    \* the program it runs for, if one has just stopped
          token,      \* its token cursor
          work        \* the held messages route_slot has taken to retry

programVars == <<declared, tokens, open, out, sent, read>>
routeVars   == <<pc, todo, stopped, token, work>>
vars == <<place, held, pending, inbox, programVars, routeVars>>
-----------------------------------------------------------------------------
Me  == Head(todo)                     \* the instance routing is at
Far(l) == l[2]

\* The inbox after its engine has taken what it takes of msgs.
Fill(x, msgs) ==
    LET all == inbox[x] \o msgs
        n   == Len(all)
    IN  IF x \in DropOldest /\ n > InboxCap THEN SubSeq(all, n - InboxCap + 1, n)
        ELSE SubSeq(all, 1, IF n > InboxCap THEN InboxCap ELSE n)

\* push: the delivery table's answer when the engine takes the call.  Only
\* Accepted is Ok; DroppedOldest, Full and Disabled are all Limit.
Answer(t) ==
    CASE place[t] = "gone" -> "gone"
      [] place[t] = "resident" -> IF ~declared[t] THEN "unknown_queue"
                                  ELSE IF Len(inbox[t]) < InboxCap THEN "ok" ELSE "limit"
      [] place[t] = "cached" -> IF t \notin Waking THEN "gone"
                                ELSE IF Len(pending[t]) < MaxPending THEN "ok" ELSE "limit"

\* push: the engine of a resident may answer the call with an error instead.
MayFail(t) == place[t] = "resident" /\ declared[t]

\* push: what it does to the far end, whatever the table answers.
Deliver(t, msg) ==
    /\ inbox' = IF place[t] = "resident" /\ declared[t]
                THEN [inbox EXCEPT ![t] = Fill(t, <<msg>>)] ELSE inbox
    /\ pending' = IF place[t] = "cached" /\ Answer(t) = "ok"
                  THEN [pending EXCEPT ![t] = Append(@, msg)] ELSE pending

\* Mutant: only a full inbox is worth waiting for.
M_Hold(answer) == answer = "limit"

\* route_slot and route_one keep a message that met one of these.
Hold(answer) == answer \in {"limit", "unknown_queue"}

\* Mutant: a held message does not close its endpoint to new ones.
M_Blocked(s, t) == FALSE

\* A message already waits on this far end.
Blocked(s, t) == \E i \in DOMAIN held[s] : held[s][i][1] = t
-----------------------------------------------------------------------------
\* Programs, and the host, while no routing runs.

Bind(l) ==
    /\ pc = "idle" /\ place[l[1]] = "resident"
    /\ \A i \in DOMAIN tokens[l[1]] : tokens[l[1]][i] # l
    /\ tokens' = [tokens EXCEPT ![l[1]] = Append(@, l)]
    /\ UNCHANGED <<place, held, pending, inbox, declared, open, out, sent, read, routeVars>>

\* A push answered "full" or "gone" is the program's to handle: no change.
Send(l) ==
    /\ pc = "idle" /\ place[l[1]] = "resident" /\ l \in open
    /\ \E i \in DOMAIN tokens[l[1]] : tokens[l[1]][i] = l
    /\ Len(out[l]) < EndpointCap /\ sent[l] < MaxMsg
    /\ sent' = [sent EXCEPT ![l] = @ + 1]
    /\ out' = [out EXCEPT ![l] = Append(@, sent'[l])]
    /\ UNCHANGED <<place, held, pending, inbox, declared, tokens, open, read, routeVars>>

Declare(x) ==
    /\ pc = "idle" /\ place[x] = "resident" /\ ~declared[x]
    /\ declared' = [declared EXCEPT ![x] = TRUE]
    /\ UNCHANGED <<place, held, pending, inbox, tokens, open, out, sent, read, routeVars>>

Read(x) ==
    /\ pc = "idle" /\ place[x] = "resident" /\ inbox[x] # <<>>
    /\ LET m == Head(inbox[x]) IN read' = [read EXCEPT ![<<m[1], x>>] = m[2]]
    /\ inbox' = [inbox EXCEPT ![x] = Tail(@)]
    /\ UNCHANGED <<place, held, pending, declared, tokens, open, out, sent, routeVars>>

\* hibernate: queues ride the snapshot, the token table does not.
Hibernate(x) ==
    /\ pc = "idle" /\ place[x] = "resident"
    /\ place' = [place EXCEPT ![x] = "cached"]
    /\ tokens' = [tokens EXCEPT ![x] = <<>>]
    /\ UNCHANGED <<held, pending, inbox, declared, open, out, sent, read, routeVars>>

\* Mutant: the buffer drains newest first.
M_Drained(x) ==
    IF declared[x] THEN Fill(x, [i \in DOMAIN pending[x] |-> pending[x][Len(pending[x]) + 1 - i]])
                   ELSE inbox[x]

\* wake's loop: what the restored queue refuses is dropped.
Drained(x) == IF declared[x] THEN Fill(x, pending[x]) ELSE inbox[x]

\* wake.
Wake(x) ==
    /\ place' = [place EXCEPT ![x] = "resident"]
    /\ inbox' = [inbox EXCEPT ![x] = Drained(x)]
    /\ pending' = [pending EXCEPT ![x] = <<>>]
    /\ UNCHANGED <<held, programVars, routeVars>>

HostWake(x) == pc = "idle" /\ place[x] = "cached" /\ Wake(x)

\* release: the slot goes with everything in it.
Gone(x) ==
    /\ place' = [place EXCEPT ![x] = "gone"]
    /\ held' = [held EXCEPT ![x] = <<>>]
    /\ pending' = [pending EXCEPT ![x] = <<>>]
    /\ inbox' = [inbox EXCEPT ![x] = <<>>]
    /\ tokens' = [tokens EXCEPT ![x] = <<>>]
    /\ out' = [l \in Link |-> IF l[1] = x THEN <<>> ELSE out[l]]
    /\ UNCHANGED <<declared, open, sent, read>>

Kill(x) ==
    /\ pc = "idle" /\ place[x] # "gone"
    /\ Gone(x)
    /\ UNCHANGED routeVars
-----------------------------------------------------------------------------
\* Routing.  It runs over every slot at the start of a step, and over the
\* one slot of a program that has just stopped, before the slot is released.

Begin(slots, x) ==
    /\ pc = "idle"
    /\ pc' = "slot" /\ todo' = slots /\ stopped' = x
    /\ UNCHANGED <<place, held, pending, inbox, programVars, token, work>>

BeginStep == Begin(Order, {})
Stop(x)   == place[x] = "resident" /\ Begin(<<x>>, {x})

\* Mutant: a cached sender is passed over whole.
M_Alive(s) == place[s] = "resident"

\* route_slot leaves a free slot alone.
Alive(s) == place[s] # "gone"

\* route_slot takes the held messages to retry them.
Slot ==
    /\ pc = "slot" /\ todo # <<>>
    /\ \/ /\ ~Alive(Me)
          /\ todo' = Tail(todo)
          /\ UNCHANGED <<pc, held, work>>
       \/ /\ Alive(Me)
          /\ work' = held[Me] /\ held' = [held EXCEPT ![Me] = <<>>]
          /\ pc' = "held"
          /\ UNCHANGED todo
    /\ UNCHANGED <<place, pending, inbox, programVars, stopped, token>>

\* One held message: it lands, is kept for the next step, or its far end is
\* gone and it is dropped.
RetryHeld ==
    /\ pc = "held" /\ work # <<>>
    /\ LET t == Head(work)[1]
       IN  /\ Deliver(t, <<Me, Head(work)[2]>>)
           /\ held' = IF Hold(Answer(t)) THEN [held EXCEPT ![Me] = Append(@, Head(work))] ELSE held
    /\ work' = Tail(work)
    /\ UNCHANGED <<place, programVars, pc, todo, stopped, token>>

\* The far end's engine fails the push: the held message is dropped.
RetryFails ==
    /\ pc = "held" /\ work # <<>> /\ MayFail(Head(work)[1])
    /\ work' = Tail(work)
    /\ UNCHANGED <<place, held, pending, inbox, programVars, pc, todo, stopped, token>>

\* Endpoints are read out of a resident instance only.
HeldDone ==
    /\ pc = "held" /\ work = <<>>
    /\ \/ place[Me] = "resident" /\ pc' = "token" /\ token' = 1 /\ UNCHANGED todo
       \/ place[Me] # "resident" /\ pc' = "slot" /\ todo' = Tail(todo) /\ UNCHANGED token
    /\ UNCHANGED <<place, held, pending, inbox, programVars, stopped, work>>

Bound == pc = "token" /\ token <= Len(tokens[Me])
Here  == tokens[Me][token]            \* the link of the token routing is at

\* route_one returns: nothing waits, or a held message goes first.
SkipToken ==
    /\ Bound
    /\ out[Here] = <<>> \/ (Here \notin Foreign /\ Blocked(Me, Far(Here)))
    /\ token' = token + 1
    /\ UNCHANGED <<place, held, pending, inbox, programVars, pc, todo, stopped, work>>

\* A reference this swarm did not mint closes the endpoint.
CloseForeign ==
    /\ Bound /\ out[Here] # <<>> /\ Here \in Foreign
    /\ open' = open \ {Here}
    /\ token' = token + 1
    /\ UNCHANGED <<place, held, pending, inbox, declared, tokens, out, sent, read, pc, todo, stopped, work>>

\* One turn of route_one's loop: pop, push, and what the answer asks for.
Route ==
    /\ Bound /\ out[Here] # <<>> /\ Here \notin Foreign
    /\ ~Blocked(Me, Far(Here))
    /\ LET t == Far(Here)
           m == Head(out[Here])
       IN  /\ Deliver(t, <<Me, m>>)
           /\ out' = [out EXCEPT ![Here] = Tail(@)]
           /\ held' = IF Hold(Answer(t)) THEN [held EXCEPT ![Me] = Append(@, <<t, m>>)] ELSE held
           /\ open' = IF Hold(Answer(t)) \/ Answer(t) = "ok" THEN open ELSE open \ {Here}
           /\ token' = IF Answer(t) = "ok" THEN token ELSE token + 1
    /\ UNCHANGED <<place, declared, tokens, sent, read, pc, todo, stopped, work>>

\* The far end's engine fails the push: the message has been popped and is
\* lost, and the endpoint is closed although its far end lives.
RouteFails ==
    /\ Bound /\ out[Here] # <<>> /\ Here \notin Foreign
    /\ ~Blocked(Me, Far(Here)) /\ MayFail(Far(Here))
    /\ out' = [out EXCEPT ![Here] = Tail(@)]
    /\ open' = open \ {Here}
    /\ token' = token + 1
    /\ UNCHANGED <<place, held, pending, inbox, declared, tokens, sent, read, pc, todo, stopped, work>>

TokensDone ==
    /\ pc = "token" /\ ~Bound
    /\ pc' = "slot" /\ todo' = Tail(todo)
    /\ UNCHANGED <<place, held, pending, inbox, programVars, stopped, token, work>>

\* The step goes on to its wake loop; a stopped program's slot is released.
Routed ==
    /\ pc = "slot" /\ todo = <<>>
    /\ \/ stopped = {} /\ pc' = "wake" /\ UNCHANGED <<place, held, pending, inbox, programVars>>
       \/ \E x \in stopped : Gone(x) /\ pc' = "idle"
    /\ UNCHANGED <<todo, stopped, token, work>>

\* The wake loop.  An instance that will not restore is killed.
WakePending(x) ==
    /\ pc = "wake" /\ place[x] = "cached" /\ pending[x] # <<>>
    /\ Wake(x) \/ (Gone(x) /\ UNCHANGED routeVars)

WokenAll ==
    /\ pc = "wake" /\ \A x \in Inst : place[x] = "cached" => pending[x] = <<>>
    /\ pc' = "idle"
    /\ UNCHANGED <<place, held, pending, inbox, programVars, todo, stopped, token, work>>
-----------------------------------------------------------------------------
Init ==
    /\ place = [x \in Inst |-> "resident"] /\ declared = [x \in Inst |-> FALSE]
    /\ tokens = [x \in Inst |-> <<>>] /\ open = Link
    /\ out = [l \in Link |-> <<>>] /\ held = [x \in Inst |-> <<>>]
    /\ pending = [x \in Inst |-> <<>>] /\ inbox = [x \in Inst |-> <<>>]
    /\ sent = [l \in Link |-> 0] /\ read = [l \in Link |-> 0]
    /\ pc = "idle" /\ todo = <<>> /\ stopped = {} /\ token = 1 /\ work = <<>>

Programs ==
    \/ \E l \in Link : Bind(l) \/ Send(l)
    \/ \E x \in Inst : Declare(x) \/ Read(x) \/ Stop(x)

Host == \E x \in Inst : Hibernate(x) \/ HostWake(x) \/ Kill(x)

Routing ==
    \/ Slot \/ RetryHeld \/ RetryFails \/ HeldDone
    \/ SkipToken \/ CloseForeign \/ Route \/ RouteFails \/ TokensDone
    \/ Routed \/ WokenAll \/ \E x \in Inst : WakePending(x)

Next == BeginStep \/ Programs \/ Host \/ Routing

Spec == Init /\ [][Next]_vars

\* The driver keeps stepping and a step returns.  A step drives every resident
\* program after its wake loop, so a program that is resident again and again
\* is driven again and again; driven, it makes its inbox and reads it.
Fairness ==
    /\ WF_vars(Routing) /\ WF_vars(BeginStep)
    /\ \A x \in Inst : SF_vars(Declare(x)) /\ SF_vars(Read(x))

FairSpec == Spec /\ Fairness
-----------------------------------------------------------------------------
\* Properties.

(* Every variable has its type, and every queue on the way its bound.       *)
TypeOK ==
    /\ place \in [Inst -> {"resident", "cached", "gone"}] /\ declared \in [Inst -> BOOLEAN]
    /\ tokens \in [Inst -> Seq(Link)] /\ \A x \in Inst : \A i \in DOMAIN tokens[x] : tokens[x][i][1] = x
    /\ open \subseteq Link
    /\ held \in [Inst -> Seq(Inst \X Nat)] /\ pending \in [Inst -> Seq(Inst \X Nat)]
    /\ inbox \in [Inst -> Seq(Inst \X Nat)] /\ out \in [Link -> Seq(Nat)]
    /\ \A x \in Inst : /\ Len(inbox[x]) <= InboxCap /\ Len(pending[x]) <= MaxPending
                       /\ pending[x] # <<>> => place[x] = "cached" /\ x \in Waking
    /\ \A l \in Link : Len(out[l]) <= EndpointCap
    /\ sent \in [Link -> 0..MaxMsg] /\ read \in [Link -> Nat]
    /\ pc \in {"idle", "slot", "held", "token", "wake"} /\ todo \in Seq(Inst)
    /\ stopped \subseteq Inst /\ token \in Nat \ {0} /\ work \in Seq(Inst \X Nat)

\* The held messages of x that routing has taken and not yet tried again.
Retrying(x) == IF pc = "held" /\ Me = x THEN work ELSE <<>>

\* The numbers of who's messages in a sequence of <<who, message>>, and
\* whether they rise.
Numbers(q, who) == {q[i][2] : i \in {k \in DOMAIN q : q[k][1] = who}}
Rising(q, who)  == \A i, j \in DOMAIN q : i < j /\ q[i][1] = who /\ q[j][1] = who => q[i][2] < q[j][2]

\* The places a message of link l can be, from the far end back.
Arrived(l)  == Numbers(inbox[l[2]], l[1])
Buffered(l) == Numbers(pending[l[2]], l[1])
Kept(l)     == Numbers(held[l[1]], l[2]) \cup Numbers(Retrying(l[1]), l[2])
Queued(l)   == {out[l][i] : i \in DOMAIN out[l]}

\* The links whose far end's inbox refuses a message rather than evict one.
Lossless == {l \in Link : l[2] \notin DropOldest}

Before(A, B) == \A m \in A, n \in B : m < n

(* The test's "none lost, in order", for every interleaving of steps, reads,*)
(* swaps and stops: what is on the way from a sender to a far end is in the *)
(* order it was sent, no message twice, and all of it later than what the   *)
(* far end has read.  A message may be missing: see KeptWhileResident.  The *)
(* places follow each other, and each is in order; OneHeld is the held one. *)
(* An inbox that evicts may get a message twice: see HeldWasRefused.        *)
InOrder ==
    \A l \in Lossless :
        /\ Before({read[l]}, Arrived(l) \cup Buffered(l) \cup Kept(l) \cup Queued(l))
        /\ Before(Arrived(l), Buffered(l) \cup Kept(l) \cup Queued(l))
        /\ Before(Buffered(l), Kept(l) \cup Queued(l))
        /\ Before(Kept(l), Queued(l))
        /\ Rising(inbox[l[2]], l[1]) /\ Rising(pending[l[2]], l[1])
        /\ \A i, j \in DOMAIN out[l] : i < j => out[l][i] < out[l][j]

Distinct(q) == \A i, j \in DOMAIN q : q[i][1] = q[j][1] => i = j

(* "At most one per far end" (Slot::held): backpressure, not a buffer.  It  *)
(* holds while routing has some of them in its hands as well.               *)
OneHeld == \A x \in Inst : Distinct(held[x] \o Retrying(x))

\* Sent, not read and nowhere on the way.
Missing(l) ==
    {n \in (read[l] + 1)..sent[l] : n \notin Arrived(l) \cup Buffered(l) \cup Kept(l) \cup Queued(l)}

\* The message of l that this step's push lost to an error of the engine.
Failed(l) ==
    {n \in Kept(l)   : RetryFails /\ Me = l[1] /\ Head(work) = <<l[2], n>>}
    \cup {n \in Queued(l) : RouteFails /\ Here = l /\ Head(out[l]) = n}

(* The sender sees "full" rather than losing anything: while the far end    *)
(* stays resident and the sender lives, no message goes missing on the way, *)
(* not even before the far end has an inbox (route_one, route_slot), unless *)
(* the far end asked for its inbox to evict.  What does lose one is an      *)
(* error of the far end's engine, for which neither route_one nor           *)
(* route_slot holds the message: then exactly the one that was being pushed *)
(* goes, and nothing held or queued behind it.                              *)
KeptWhileResident ==
    [][\A l \in Lossless :
          place[l[2]] = "resident" /\ place'[l[2]] = "resident" /\ place'[l[1]] # "gone"
          => Missing(l)' \subseteq Missing(l) \cup Failed(l)]_vars

(* A held message lands, is dropped by an error of its far end's engine, or *)
(* its ends die, if its far end reads: it does not wait for its sender to   *)
(* be woken (route_slot, before the resident check).                        *)
HeldLands ==
    \A l \in Link :
       (\E i \in DOMAIN held[l[1]] : held[l[1]][i][1] = l[2])
       ~> (pc = "idle" /\ ~Blocked(l[1], l[2]))

(* Slot::held keeps messages "whose far end had no room (or no inbox yet)": *)
(* a message that is held is not already at its far end.                    *)
HeldWasRefused ==
    \A l \in Link : \A i \in DOMAIN held[l[1]] :
        held[l[1]][i][1] = l[2] =>
            \A j \in DOMAIN inbox[l[2]] : inbox[l[2]][j] # <<l[1], held[l[1]][i][2]>>
-----------------------------------------------------------------------------
\* The instances of the runs: 1 holds a reference to 2; 2 may also hold one to
\* itself that the swarm before a restart minted.

Slots  == <<1, 2>>
Single == {<<1, 2>>}
Stale  == {<<2, 2>>}
Mixed  == Single \cup Stale
=============================================================================
