----------------------------- MODULE PumpProofs -----------------------------
(***************************************************************************)
(* What the pump promises, for every number of instances, requests and     *)
(* room on host/replies.                                                   *)
(*                                                                         *)
(* None of the three promises is inductive.  That an answer is given once  *)
(* rests on the numbers of the requests still on host/calls, that answers  *)
(* stay in order on deliver having left nothing settled wherever there is  *)
(* room to drain, and both on the instance under the drive being alive.    *)
(***************************************************************************)
EXTENDS Pump, SequenceTheorems, TLAPS

(* Of an instance that made n requests: c holds the last of them, in       *)
(* order; of the others, those in F are in flight, the rest answered in a, *)
(* none of them both and none twice.                                       *)
Book(c, F, a, n) ==
    LET d == n - Len(c) IN
    /\ d >= 0
    /\ \A i \in 1..Len(c) : c[i] = d + i
    /\ \A r \in 1..d : r \in F \/ \E i \in 1..Len(a) : a[i] = r
    /\ \A r \in F : r \in 1..d
    /\ \A i \in 1..Len(a) : a[i] \in 1..d /\ a[i] \notin F
    /\ \A i, j \in 1..Len(a) : a[i] = a[j] => i = j

(* The answers a, of which l have left, are q and then t, place by place.  *)
Line(a, q, t, l) ==
    /\ Len(a) = l + Len(q) + Len(t)
    /\ \A i \in 1..Len(q) : a[l + i] = q[i]
    /\ \A i \in 1..Len(t) : a[l + Len(q) + i] = t[i]

Good(x) == Alive(x) => /\ Book(calls[x], inflight[x], answers[x], made[x])
                       /\ Line(answers[x], replies[x], settled[x], left[x])

(* What a poll has still to take is in flight, and nothing is owed to an   *)
(* instance that is gone.                                                  *)
Owed(x) ==
    /\ ready[x] \subseteq inflight[x] /\ (pc # "poll" => ready[x] = {})
    /\ ~Alive(x) => inflight[x] = {} /\ settled[x] = <<>>

(* The instance driven is resident, and while its calls are drained there  *)
(* is room only when nothing settled is left to deliver.                   *)
Driving ==
    /\ pc # "idle" => place[here] = "resident"
    /\ Draining /\ Room(here) => settled[here] = <<>>

IInv == TypeOK /\ Driving /\ \A x \in Node : Owed(x) /\ Good(x)
-----------------------------------------------------------------------------
\* The book and the line as sequences change.

(* An answer settles: it is the last of the answers and of the settled.    *)
LEMMA LineSettles ==
    ASSUME NEW a \in Seq(Nat), NEW q \in Seq(Nat), NEW t \in Seq(Nat), NEW l \in Nat, NEW r \in Nat,
           Line(a, q, t, l)
    PROVE  Line(Append(a, r), q, Append(t, r), l)
<1>1. /\ Len(Append(a, r)) = Len(a) + 1 /\ Append(a, r)[Len(a) + 1] = r
      /\ \A i \in 1..Len(a) : Append(a, r)[i] = a[i]
      /\ Len(Append(t, r)) = Len(t) + 1 /\ Append(t, r)[Len(t) + 1] = r
      /\ \A i \in 1..Len(t) : Append(t, r)[i] = t[i]
  BY AppendProperties
<1>2. ASSUME NEW i \in 1..Len(q) PROVE Append(a, r)[l + i] = q[i]
  BY <1>1, SMTT(30) DEF Line
<1>3. ASSUME NEW i \in 1..Len(t) + 1 PROVE Append(a, r)[l + Len(q) + i] = Append(t, r)[i]
  <2>1. CASE i = Len(t) + 1
    BY <1>1, <2>1 DEF Line
  <2>2. CASE i \in 1..Len(t)
    BY <1>1, <2>2, SMTT(30) DEF Line
  <2>3. i = Len(t) + 1 \/ i \in 1..Len(t)
    OBVIOUS
  <2>4. QED
    BY <2>1, <2>2, <2>3
<1>4. Len(Append(a, r)) = l + Len(q) + Len(Append(t, r))
  BY <1>1 DEF Line
<1>5. QED
  BY <1>1, <1>2, <1>3, <1>4 DEF Line

(* It lands at once, when nothing is settled.                              *)
LEMMA LineLands ==
    ASSUME NEW a \in Seq(Nat), NEW q \in Seq(Nat), NEW l \in Nat, NEW r \in Nat, Line(a, q, <<>>, l)
    PROVE  Line(Append(a, r), Append(q, r), <<>>, l)
<1>1. /\ Len(Append(a, r)) = Len(a) + 1 /\ Append(a, r)[Len(a) + 1] = r
      /\ \A i \in 1..Len(a) : Append(a, r)[i] = a[i]
      /\ Len(Append(q, r)) = Len(q) + 1 /\ Append(q, r)[Len(q) + 1] = r
      /\ \A i \in 1..Len(q) : Append(q, r)[i] = q[i]
  BY AppendProperties
<1>2. ASSUME NEW i \in 1..Len(q) + 1 PROVE Append(a, r)[l + i] = Append(q, r)[i]
  <2>1. CASE i = Len(q) + 1
    BY <1>1, <2>1 DEF Line
  <2>2. CASE i \in 1..Len(q)
    BY <1>1, <2>2 DEF Line
  <2>3. i = Len(q) + 1 \/ i \in 1..Len(q)
    OBVIOUS
  <2>4. QED
    BY <2>1, <2>2, <2>3
<1>3. Len(Append(a, r)) = l + Len(Append(q, r)) + Len(<<>>) /\ 1..Len(<<>>) = {}
  BY <1>1 DEF Line
<1>4. QED
  BY <1>1, <1>2, <1>3 DEF Line

(* The oldest settled answer lands.                                        *)
LEMMA LineDelivers ==
    ASSUME NEW a \in Seq(Nat), NEW q \in Seq(Nat), NEW t \in Seq(Nat), NEW l \in Nat,
           t # <<>>, Line(a, q, t, l)
    PROVE  Line(a, Append(q, Head(t)), Tail(t), l)
<1> DEFINE r == Head(t)
<1>1. /\ r = t[1] /\ r \in Nat /\ Tail(t) \in Seq(Nat) /\ Len(t) >= 1
      /\ Len(Tail(t)) = Len(t) - 1 /\ \A i \in 1..Len(t) - 1 : Tail(t)[i] = t[i + 1]
  OBVIOUS
<1>2. /\ Len(Append(q, r)) = Len(q) + 1 /\ Append(q, r)[Len(q) + 1] = r
      /\ \A i \in 1..Len(q) : Append(q, r)[i] = q[i]
  BY <1>1, AppendProperties
<1> HIDE DEF r
<1>3. ASSUME NEW i \in 1..Len(q) + 1 PROVE a[l + i] = Append(q, r)[i]
  <2>1. CASE i = Len(q) + 1
    BY <1>1, <1>2, <2>1 DEF Line
  <2>2. CASE i \in 1..Len(q)
    BY <1>2, <2>2 DEF Line
  <2>3. QED
    BY <2>1, <2>2
<1>4. ASSUME NEW i \in 1..Len(t) - 1 PROVE a[l + (Len(q) + 1) + i] = Tail(t)[i]
  <2>1. i + 1 \in 1..Len(t) /\ l + (Len(q) + 1) + i = l + Len(q) + (i + 1)
    BY <1>1
  <2>2. QED
    BY <1>1, <2>1 DEF Line
<1>5. QED
  BY <1>1, <1>2, <1>3, <1>4 DEF Line, r

(* The first reply leaves, read or evicted.                                *)
LEMMA LineLeaves ==
    ASSUME NEW a \in Seq(Nat), NEW q \in Seq(Nat), NEW t \in Seq(Nat), NEW l \in Nat,
           q # <<>>, Line(a, q, t, l)
    PROVE  Line(a, Tail(q), t, l + 1)
BY SMTT(30) DEF Line

(* The line is what AnswersInOrder says of it.                             *)
LEMMA LineIsOrder ==
    ASSUME NEW a \in Seq(Nat), NEW q \in Seq(Nat), NEW t \in Seq(Nat), NEW l \in Nat, Line(a, q, t, l)
    PROVE  SubSeq(a, l + 1, Len(a)) = q \o t
<1>1. /\ q \o t \in Seq(Nat) /\ Len(q \o t) = Len(q) + Len(t)
      /\ \A i \in 1..Len(q) + Len(t) : (q \o t)[i] = IF i <= Len(q) THEN q[i] ELSE t[i - Len(q)]
  BY ConcatProperties
<1>2. \A i \in l + 1..Len(a) : a[i] \in Nat
  OBVIOUS
<1>3. /\ SubSeq(a, l + 1, Len(a)) \in Seq(Nat)
      /\ Len(SubSeq(a, l + 1, Len(a))) = Len(q) + Len(t)
      /\ \A i \in 1..Len(q) + Len(t) : SubSeq(a, l + 1, Len(a))[i] = a[l + i]
  BY <1>2, SubSeqProperties DEF Line
<1>4. ASSUME NEW i \in 1..Len(q) + Len(t) PROVE a[l + i] = (q \o t)[i]
  <2>1. CASE i <= Len(q)
    BY <1>1, <2>1 DEF Line
  <2>2. CASE i > Len(q)
    <3>1. i - Len(q) \in 1..Len(t) /\ l + i = l + Len(q) + (i - Len(q))
      BY <2>2
    <3>2. a[l + i] = t[i - Len(q)]
      BY <3>1 DEF Line
    <3>3. QED
      BY <1>1, <2>2, <3>2
  <2>3. QED
    BY <2>1, <2>2
<1>5. QED
  BY <1>1, <1>3, <1>4, SeqEqual

(* A guest makes a request.                                                *)
LEMMA BookCalls ==
    ASSUME NEW c \in Seq(Nat), NEW F \in SUBSET Nat, NEW a \in Seq(Nat), NEW n \in Nat, Book(c, F, a, n)
    PROVE  Book(Append(c, n + 1), F, a, n + 1)
BY DEF Book

(* A request in flight is answered.                                        *)
LEMMA BookSettles ==
    ASSUME NEW c \in Seq(Nat), NEW F \in SUBSET Nat, NEW a \in Seq(Nat), NEW n \in Nat, Book(c, F, a, n),
           NEW r \in F
    PROVE  Book(c, F \ {r}, Append(a, r), n)
<1> DEFINE d == n - Len(c)
           b == Append(a, r)
<1>1. /\ Len(b) = Len(a) + 1 /\ b[Len(a) + 1] = r /\ \A i \in 1..Len(a) : b[i] = a[i]
  BY AppendProperties
<1>2. r \in 1..d /\ \A i \in 1..Len(a) : a[i] # r
  BY DEF Book
<1>3. ASSUME NEW s \in 1..d PROVE s \in F \ {r} \/ \E i \in 1..Len(b) : b[i] = s
  BY <1>1 DEF Book
<1>4. ASSUME NEW i \in 1..Len(b) PROVE b[i] \in 1..d /\ b[i] \notin F \ {r}
  <2>1. CASE i = Len(a) + 1
    BY <1>1, <1>2, <2>1
  <2>2. CASE i \in 1..Len(a)
    BY <1>1, <2>2 DEF Book
  <2>3. QED
    BY <1>1, <2>1, <2>2
<1>5. ASSUME NEW i \in 1..Len(b), NEW j \in 1..Len(b), b[i] = b[j] PROVE i = j
  <2>1. CASE i \in 1..Len(a) /\ j \in 1..Len(a)
    BY <1>1, <1>5, <2>1 DEF Book
  <2>2. CASE i = Len(a) + 1 \/ j = Len(a) + 1
    BY <1>1, <1>2, <1>5, <2>2
  <2>3. QED
    BY <1>1, <2>1, <2>2
<1>6. QED
  BY <1>3, <1>4, <1>5 DEF Book

(* A request is drained and put in flight ...                              *)
LEMMA BookFlies ==
    ASSUME NEW c \in Seq(Nat), NEW F \in SUBSET Nat, NEW a \in Seq(Nat), NEW n \in Nat, Book(c, F, a, n),
           c # <<>>
    PROVE  Book(Tail(c), F \cup {Head(c)}, a, n)
<1> DEFINE d == n - Len(c)
           r == Head(c)
<1>1. /\ r = c[1] /\ Tail(c) \in Seq(Nat) /\ Len(c) >= 1
      /\ Len(Tail(c)) = Len(c) - 1 /\ \A i \in 1..Len(c) - 1 : Tail(c)[i] = c[i + 1]
  OBVIOUS
<1>2. r = d + 1 /\ d >= 0 /\ n - Len(Tail(c)) = d + 1
  BY <1>1 DEF Book
<1> HIDE DEF r
<1>3. \A i \in 1..Len(Tail(c)) : Tail(c)[i] = (d + 1) + i
  BY <1>1 DEF Book
<1>4. ASSUME NEW s \in 1..d + 1 PROVE s \in F \cup {r} \/ \E i \in 1..Len(a) : a[i] = s
  <2>1. CASE s = d + 1
    BY <1>2, <2>1
  <2>2. CASE s \in 1..d
    BY <2>2 DEF Book
  <2>3. s = d + 1 \/ s \in 1..d
    BY <1>2
  <2>4. QED
    BY <2>1, <2>2, <2>3
<1>5. \A s \in F \cup {r} : s \in 1..d + 1
  BY <1>2 DEF Book
<1>6. \A i \in 1..Len(a) : a[i] \in 1..d + 1 /\ a[i] \notin F \cup {r}
  BY <1>2 DEF Book
<1>7. QED
  BY <1>2, <1>3, <1>4, <1>5, <1>6 DEF Book, r

(* ... or answered.                                                        *)
LEMMA BookAnswers ==
    ASSUME NEW c \in Seq(Nat), NEW F \in SUBSET Nat, NEW a \in Seq(Nat), NEW n \in Nat, Book(c, F, a, n),
           c # <<>>
    PROVE  Book(Tail(c), F, Append(a, Head(c)), n)
<1> DEFINE r == Head(c)
<1>1. Book(Tail(c), F \cup {r}, a, n)
  BY BookFlies
<1>2. Tail(c) \in Seq(Nat) /\ r \in Nat /\ Len(c) >= 1 /\ r = c[1]
  OBVIOUS
<1>3. r \notin F
  <2>1. r = (n - Len(c)) + 1
    BY <1>2 DEF Book
  <2>2. QED
    BY <2>1 DEF Book
<1>4. Book(Tail(c), (F \cup {r}) \ {r}, Append(a, r), n)
  BY <1>1, <1>2, BookSettles
<1>5. QED
  BY <1>3, <1>4

InOnePlace(c, F, a, n) ==
    /\ Elems(c) \cup F \cup Elems(a) = 1..n
    /\ Elems(c) \cap F = {} /\ Elems(a) \cap F = {} /\ Elems(c) \cap Elems(a) = {}
    /\ Once(c) /\ Once(a)

(* The book is what EachOnce says of it.                                   *)
LEMMA BookIsOnce ==
    ASSUME NEW c \in Seq(Nat), NEW F \in SUBSET Nat, NEW a \in Seq(Nat), NEW n \in Nat, Book(c, F, a, n)
    PROVE  InOnePlace(c, F, a, n)
<1> DEFINE d == n - Len(c)
<1>1. DOMAIN c = 1..Len(c) /\ DOMAIN a = 1..Len(a) /\ d \in Nat /\ Len(c) \in Nat
  BY DEF Book
<1>2. Elems(c) = (d + 1)..n
  <2>1. ASSUME NEW s \in (d + 1)..n PROVE s \in Elems(c)
    <3>1. s - d \in 1..Len(c) /\ c[s - d] = s
      BY <1>1 DEF Book
    <3>2. QED
      BY <1>1, <3>1 DEF Elems
  <2>2. ASSUME NEW s \in Elems(c) PROVE s \in (d + 1)..n
    BY <1>1, <2>2 DEF Book, Elems
  <2>3. QED
    BY <2>1, <2>2
<1>3. F \cup Elems(a) = 1..d /\ Elems(a) \cap F = {}
  <2>1. Elems(a) = {a[i] : i \in 1..Len(a)}
    BY <1>1 DEF Elems
  <2>2. \A s \in Elems(a) : s \in 1..d /\ s \notin F
    BY <2>1 DEF Book
  <2>3. \A s \in 1..d : s \in F \/ s \in Elems(a)
    BY <2>1 DEF Book
  <2>4. \A s \in F : s \in 1..d
    BY DEF Book
  <2>5. QED
    BY <2>2, <2>3, <2>4
<1>4. Once(a)
  BY <1>1 DEF Book, Once
<1>5. Once(c)
  BY <1>1 DEF Book, Once
<1>6. (1..d) \cup ((d + 1)..n) = 1..n /\ (1..d) \cap ((d + 1)..n) = {}
  BY <1>1 DEF Book
<1>7. QED
  BY <1>2, <1>3, <1>4, <1>5, <1>6 DEF InOnePlace
-----------------------------------------------------------------------------
\* The steps.

\* An instance's share of the tables.
Share(x) == <<place[x], made[x], calls[x], replies[x], inflight[x], settled[x], answers[x], left[x]>>

(* Nothing a step leaves alone of an instance is disturbed.                *)
LEMMA Frame ==
    ASSUME NEW x \in Node, Good(x), UNCHANGED Share(x)
    PROVE  Good(x)'
BY DEF Good, Share, Alive

(* The share of an instance has the types the lemmas above ask for.        *)
LEMMA Types ==
    ASSUME TypeOK, NEW x \in Node
    PROVE  /\ calls[x] \in Seq(Nat) /\ replies[x] \in Seq(Nat) /\ settled[x] \in Seq(Nat)
           /\ answers[x] \in Seq(Nat) /\ inflight[x] \in SUBSET Nat
           /\ made[x] \in Nat /\ left[x] \in Nat
<1>1. Req \subseteq Nat /\ 0..MaxCalls \subseteq Nat
  BY PumpAssumption DEF Req
<1>2. /\ calls[x] \in Seq(Req) /\ replies[x] \in Seq(Req) /\ settled[x] \in Seq(Req) /\ answers[x] \in Seq(Req)
      /\ inflight[x] \in SUBSET Req /\ made[x] \in 0..MaxCalls /\ left[x] \in Nat
  BY DEF TypeOK
<1>3. QED
  BY <1>1, <1>2, SeqMonotonic

\* The invariant holds at the start.
LEMMA InitInv == Init => IInv
<1> SUFFICES ASSUME Init PROVE IInv
  OBVIOUS
<1>1. TypeOK
  BY PumpAssumption DEF Init, TypeOK, Req
<1>2. Driving
  BY DEF Init, Driving, Draining
<1>3. ASSUME NEW x \in Node PROVE Owed(x) /\ Good(x)
  BY <1>3 DEF Init, Owed, Good, Alive, Book, Line
<1>4. QED
  BY <1>1, <1>2, <1>3 DEF IInv

(* Steps that move nothing between the tables.                             *)
LEMMA QuietStep ==
    ASSUME IInv,
           \/ \E x \in Node, R \in Ready : Drive(x, R)
           \/ Polled \/ NoQueues \/ DeliverDone \/ DrainDone \/ Parked
           \/ Declare("on") \/ Declare("off")
    PROVE  IInv'
<1> USE DEF IInv
<1>1. TypeOK'
  BY DEF TypeOK, Ready, Drive, Polled, NoQueues, DeliverDone, DrainDone, Parked, Declare, After, Delivering,
         Draining, guestVars, pumpVars
<1>2. Driving'
  BY DEF TypeOK, Drive, Polled, NoQueues, DeliverDone, DrainDone, Parked, Declare, After, Delivering,
         Draining, guestVars, pumpVars, Driving, Room, Accepts
<1>3. ASSUME NEW x \in Node PROVE Owed(x)'
  BY DEF TypeOK, Ready, Drive, Polled, NoQueues, DeliverDone, DrainDone, Parked, Declare, After, Delivering,
         Draining, guestVars, pumpVars, Owed, Alive
<1>4. ASSUME NEW x \in Node PROVE UNCHANGED Share(x)
  BY DEF Drive, Polled, NoQueues, DeliverDone, DrainDone, Parked, Declare, guestVars, pumpVars, Share
<1>5. QED
  BY <1>1, <1>2, <1>3, <1>4, Frame

(* poll: one call in flight is answered.                                   *)
LEMMA SettleStep ==
    ASSUME IInv, NEW y \in Node, NEW r \in ready[y], Settle(y, r)
    PROVE  IInv'
<1> USE DEF IInv
<1>1. r \in Req /\ r \in inflight[y] /\ Alive(y) /\ r \in Nat
  <2>1. r \in Req /\ r \in inflight[y] /\ Alive(y)
    BY DEF TypeOK, Owed
  <2>2. QED
    BY <2>1, PumpAssumption DEF Req
<1>2. TypeOK'
  BY <1>1 DEF TypeOK, Settle, guestVars
<1>3. Driving'
  BY DEF TypeOK, Settle, guestVars, Driving, Draining
<1>4. ASSUME NEW x \in Node PROVE Owed(x)'
  BY <1>1 DEF TypeOK, Settle, guestVars, Owed, Alive
<1>5. ASSUME NEW x \in Node, x # y PROVE UNCHANGED Share(x)
  BY <1>5 DEF TypeOK, Settle, guestVars, Share
<1>6. Good(y)'
  <2>1. /\ answers'[y] = Append(answers[y], r) /\ settled'[y] = Append(settled[y], r)
        /\ inflight'[y] = inflight[y] \ {r}
        /\ replies'[y] = replies[y] /\ left'[y] = left[y] /\ calls'[y] = calls[y] /\ made'[y] = made[y]
    BY DEF TypeOK, Settle, guestVars
  <2>2. Book(calls[y], inflight[y] \ {r}, Append(answers[y], r), made[y])
    BY <1>1, Types, BookSettles DEF Good
  <2>3. Line(Append(answers[y], r), replies[y], Append(settled[y], r), left[y])
    BY <1>1, Types, LineSettles DEF Good
  <2>4. QED
    BY <2>1, <2>2, <2>3 DEF Good
<1>7. QED
  BY <1>2, <1>3, <1>4, <1>5, <1>6, Frame

(* A push, where the queue accepts it, on types and the line: what it      *)
(* evicts has left, and the reply is last.                                 *)
LEMMA PushStep ==
    ASSUME TypeOK, NEW x \in Node, NEW r \in Req, Push(x, r)
    PROVE  \E base \in Seq(Req), l \in Nat :
               /\ replies' = [replies EXCEPT ![x] = Append(base, r)] /\ left' = [left EXCEPT ![x] = l]
               /\ Append(base, r) \in Seq(Req)
               /\ Len(Append(base, r)) <= ReplyCap /\ Len(Append(base, r)) >= Len(replies[x])
               /\ \A a, t \in Seq(Nat) : Line(a, replies[x], t, left[x]) => Line(a, base, t, l)
<1> DEFINE q    == replies[x]
           full == Len(q) >= ReplyCap
           base == IF full THEN Tail(q) ELSE q
           l    == IF full THEN left[x] + 1 ELSE left[x]
<1>1. q \in Seq(Req) /\ Len(q) <= ReplyCap /\ left[x] \in Nat /\ ReplyCap \in Nat \ {0} /\ q \in Seq(Nat)
  BY PumpAssumption, Types DEF TypeOK
<1>2. base \in Seq(Req) /\ l \in Nat /\ Len(base) < ReplyCap /\ Len(base) + 1 >= Len(q)
  <2>1. CASE full
    BY <2>1, <1>1, HeadTailProperties
  <2>2. CASE ~full
    BY <2>2, <1>1
  <2>3. QED
    BY <2>1, <2>2
<1>3. ASSUME NEW a \in Seq(Nat), NEW t \in Seq(Nat), Line(a, q, t, left[x])
      PROVE  Line(a, base, t, l)
  <2>1. CASE full
    <3>1. q # <<>>
      BY <1>1, <2>1
    <3>2. Line(a, Tail(q), t, left[x] + 1)
      BY <1>1, <1>3, <3>1, LineLeaves
    <3>3. QED
      BY <2>1, <3>2
  <2>2. CASE ~full
    BY <2>2, <1>3
  <2>3. QED
    BY <2>1, <2>2
<1>4. replies' = [replies EXCEPT ![x] = Append(base, r)] /\ left' = [left EXCEPT ![x] = l]
  <2>1. CASE full
    BY <2>1 DEF Push
  <2>2. CASE ~full
    BY <2>2 DEF Push
  <2>3. QED
    BY <2>1, <2>2
<1> HIDE DEF base, l, full
<1>5. Append(base, r) \in Seq(Req) /\ Len(Append(base, r)) = Len(base) + 1
  BY <1>2, AppendProperties
<1>6. Len(Append(base, r)) <= ReplyCap /\ Len(Append(base, r)) >= Len(q)
  BY <1>1, <1>2, <1>5
<1>7. QED
  BY <1>2, <1>3, <1>4, <1>5, <1>6

(* deliver: the oldest settled answer lands.                               *)
LEMMA DeliverStep ==
    ASSUME IInv, DeliverOne
    PROVE  IInv'
<1> USE DEF IInv
<1>0. PICK y \in Node : y = here
  BY DEF TypeOK
<1> DEFINE t == settled[y]
           r == Head(t)
<1>1. t \in Seq(Req) /\ t # <<>> /\ Push(y, r)
  BY <1>0 DEF DeliverOne, Oldest, TypeOK
<1>2. r \in Req /\ Tail(t) \in Seq(Req) /\ Alive(y)
  BY <1>0, <1>1, HeadTailProperties DEF DeliverOne, Delivering, Driving, Alive
<1>3. PICK base \in Seq(Req), l \in Nat :
               /\ replies' = [replies EXCEPT ![y] = Append(base, r)] /\ left' = [left EXCEPT ![y] = l]
               /\ Append(base, r) \in Seq(Req)
               /\ Len(Append(base, r)) <= ReplyCap /\ Len(Append(base, r)) >= Len(replies[y])
               /\ \A a, u \in Seq(Nat) : Line(a, replies[y], u, left[y]) => Line(a, base, u, l)
  BY <1>1, <1>2, PushStep
<1>4. TypeOK'
  BY <1>0, <1>1, <1>2, <1>3 DEF TypeOK, DeliverOne, guestVars
<1>5. Driving'
  BY DEF DeliverOne, Delivering, Driving, Draining, guestVars
<1>6. ASSUME NEW x \in Node PROVE Owed(x)'
  BY <1>0, <1>2 DEF DeliverOne, guestVars, Owed, Alive, TypeOK
<1>7. ASSUME NEW x \in Node, x # y PROVE UNCHANGED Share(x)
  BY <1>0, <1>3, <1>7 DEF DeliverOne, guestVars, Share, TypeOK
<1>8. Good(y)'
  <2>1. /\ settled'[y] = Tail(t) /\ replies'[y] = Append(base, r) /\ left'[y] = l
        /\ answers' = answers /\ calls' = calls /\ inflight' = inflight /\ made' = made
    BY <1>0, <1>1, <1>3 DEF DeliverOne, guestVars, TypeOK
  <2>2. base \in Seq(Nat) /\ t \in Seq(Nat) /\ answers[y] \in Seq(Nat)
    <3>1. Req \subseteq Nat
      BY PumpAssumption DEF Req
    <3>2. QED
      BY <1>1, <1>3, <3>1, Types, SeqMonotonic
  <2>3. Line(answers[y], base, t, l)
    BY <1>1, <1>2, <1>3, <2>2 DEF Good
  <2>4. Line(answers[y], Append(base, r), Tail(t), l)
    BY <1>1, <1>3, <2>2, <2>3, LineDelivers
  <2>5. QED
    BY <1>1, <1>2, <2>1, <2>4 DEF Good
<1>9. QED
  BY <1>1, <1>4, <1>5, <1>6, <1>7, <1>8, Frame

(* pump's loop: a request leaves host/calls, answered at once or in        *)
(* flight.                                                                 *)
LEMMA TakeStep ==
    ASSUME IInv, TakeCall
    PROVE  IInv'
<1> USE DEF IInv
<1>0. PICK y \in Node : y = here
  BY DEF TypeOK
<1> DEFINE c == calls[y]
           r == Head(c)
<1>1. c \in Seq(Req) /\ c # <<>> /\ c \in Seq(Nat) /\ r \in Req /\ r \in Nat /\ Tail(c) \in Seq(Req)
  BY <1>0, Types, HeadTailProperties DEF TakeCall, TypeOK
<1>2. Alive(y) /\ settled[y] = <<>> /\ Room(y)
  BY <1>0 DEF TakeCall, Driving, Draining, Alive
<1>3. calls' = [calls EXCEPT ![y] = Tail(c)] /\ UNCHANGED <<place, queue, made, ready, pc, here>>
  BY <1>0 DEF TakeCall, guestVars
<1>4. CASE inflight' = [inflight EXCEPT ![y] = @ \cup {r}] /\ UNCHANGED <<replies, settled, answers, left>>
  <2>1. TypeOK'
    BY <1>1, <1>3, <1>4 DEF TypeOK
  <2>2. Driving'
    BY <1>3, <1>4 DEF Driving, Draining, Room
  <2>3. ASSUME NEW x \in Node PROVE Owed(x)'
    BY <1>2, <1>3, <1>4 DEF Owed, Alive, TypeOK
  <2>4. ASSUME NEW x \in Node, x # y PROVE UNCHANGED Share(x)
    BY <1>3, <1>4, <2>4 DEF Share, TypeOK
  <2>5. Good(y)'
    <3>1. calls'[y] = Tail(c) /\ inflight'[y] = inflight[y] \cup {r}
      BY <1>3, <1>4 DEF TypeOK
    <3>2. Book(Tail(c), inflight[y] \cup {r}, answers[y], made[y])
      BY <1>1, <1>2, Types, BookFlies DEF Good
    <3>3. QED
      BY <1>2, <1>3, <1>4, <3>1, <3>2 DEF Good
  <2>6. QED
    BY <2>1, <2>2, <2>3, <2>4, <2>5, Frame
<1>5. CASE Land(y, r) /\ UNCHANGED inflight
  <2>1. Accepts(y)
    BY <1>2 DEF Accepts
  <2>2. Push(y, r) /\ UNCHANGED settled /\ answers' = [answers EXCEPT ![y] = Append(@, r)]
    BY <1>5, <2>1 DEF Land
  <2>3. PICK base \in Seq(Req), l \in Nat :
               /\ replies' = [replies EXCEPT ![y] = Append(base, r)] /\ left' = [left EXCEPT ![y] = l]
               /\ Append(base, r) \in Seq(Req)
               /\ Len(Append(base, r)) <= ReplyCap /\ Len(Append(base, r)) >= Len(replies[y])
               /\ \A a, u \in Seq(Nat) : Line(a, replies[y], u, left[y]) => Line(a, base, u, l)
    BY <1>1, <2>2, PushStep
  <2>4. TypeOK'
    <3>1. Append(answers[y], r) \in Seq(Req)
      BY <1>1, AppendProperties DEF TypeOK
    <3>2. answers' \in [Node -> Seq(Req)] /\ replies' \in [Node -> Seq(Req)] /\ left' \in [Node -> Nat]
      BY <2>2, <2>3, <3>1 DEF TypeOK
    <3>3. \A x \in Node : Len(replies'[x]) <= ReplyCap
      BY <2>3 DEF TypeOK
    <3>4. QED
      BY <1>1, <1>3, <1>5, <2>2, <3>2, <3>3 DEF TypeOK
  <2>5. Driving'
    BY <1>0, <1>2, <1>3, <2>2 DEF Driving, Draining, TypeOK
  <2>6. ASSUME NEW x \in Node PROVE Owed(x)'
    BY <1>2, <1>3, <1>5, <2>2 DEF Owed, Alive, TypeOK
  <2>7. ASSUME NEW x \in Node, x # y PROVE UNCHANGED Share(x)
    BY <1>3, <1>5, <2>2, <2>3, <2>7 DEF Share, TypeOK
  <2>8. Good(y)'
    <3>1. /\ calls'[y] = Tail(c) /\ answers'[y] = Append(answers[y], r) /\ replies'[y] = Append(base, r)
          /\ left'[y] = l /\ inflight'[y] = inflight[y] /\ settled'[y] = <<>> /\ made'[y] = made[y]
      BY <1>2, <1>3, <1>5, <2>2, <2>3 DEF TypeOK
    <3>2. Book(Tail(c), inflight[y], Append(answers[y], r), made[y])
      BY <1>1, <1>2, Types, BookAnswers DEF Good
    <3>3. base \in Seq(Nat) /\ answers[y] \in Seq(Nat) /\ <<>> \in Seq(Nat)
      <4>1. Req \subseteq Nat
        BY PumpAssumption DEF Req
      <4>2. QED
        BY <2>3, <4>1, Types, SeqMonotonic, EmptySeq
    <3>4. Line(answers[y], base, <<>>, l)
      BY <1>2, <2>3, <3>3 DEF Good
    <3>5. Line(Append(answers[y], r), Append(base, r), <<>>, l)
      BY <1>1, <2>3, <3>3, <3>4, LineLands
    <3>6. QED
      BY <3>1, <3>2, <3>5 DEF Good
  <2>9. QED
    BY <2>4, <2>5, <2>6, <2>7, <2>8, Frame
<1>6. QED
  BY <1>0, <1>4, <1>5 DEF TakeCall

(* The guest makes a request, or reads a reply.                            *)
LEMMA GuestStep ==
    ASSUME IInv, Call \/ Read
    PROVE  IInv'
<1> USE DEF IInv
<1>0. PICK y \in Node : y = here
  BY DEF TypeOK
<1>1. Alive(y) /\ ~Draining
  BY <1>0 DEF Call, Read, Driving, Draining, Alive
<1>2. CASE Call
  <2>1. made[y] \in Nat /\ made[y] + 1 \in Req /\ made[y] + 1 \in 0..MaxCalls /\ Append(calls[y], made[y] + 1) \in Seq(Req)
    <3>1. made[y] \in 0..MaxCalls /\ made[y] < MaxCalls /\ calls[y] \in Seq(Req)
      BY <1>0, <1>2 DEF Call, TypeOK
    <3>2. made[y] \in Nat /\ made[y] + 1 \in Req /\ made[y] + 1 \in 0..MaxCalls
      BY <3>1, PumpAssumption DEF Req
    <3>3. QED
      BY <3>1, <3>2, AppendProperties
  <2>2. /\ made' = [made EXCEPT ![y] = made[y] + 1]
        /\ calls' = [calls EXCEPT ![y] = Append(calls[y], made[y] + 1)]
        /\ UNCHANGED <<place, queue, replies, inflight, ready, settled, answers, left, pc, here>>
    BY <1>0, <1>2 DEF Call
  <2>3. TypeOK'
    BY <2>1, <2>2 DEF TypeOK
  <2>4. Driving'
    BY <1>1, <2>2 DEF Driving, Draining
  <2>5. ASSUME NEW x \in Node PROVE Owed(x)'
    BY <2>2 DEF Owed, Alive
  <2>6. ASSUME NEW x \in Node, x # y PROVE UNCHANGED Share(x)
    BY <2>2, <2>6 DEF Share, TypeOK
  <2>7. Good(y)'
    <3>1. made'[y] = made[y] + 1 /\ calls'[y] = Append(calls[y], made[y] + 1)
      BY <2>2 DEF TypeOK
    <3>2. Book(Append(calls[y], made[y] + 1), inflight[y], answers[y], made[y] + 1)
      BY <1>1, Types, BookCalls DEF Good
    <3>3. QED
      BY <1>1, <2>2, <3>1, <3>2 DEF Good
  <2>8. QED
    BY <2>3, <2>4, <2>5, <2>6, <2>7, Frame
<1>3. CASE Read
  <2>1. replies[y] \in Seq(Req) /\ replies[y] # <<>> /\ left[y] \in Nat
    BY <1>0, <1>3 DEF Read, TypeOK
  <2>2. /\ replies' = [replies EXCEPT ![y] = Tail(replies[y])] /\ left' = [left EXCEPT ![y] = left[y] + 1]
        /\ UNCHANGED <<place, queue, made, calls, inflight, ready, settled, answers, pc, here>>
    BY <1>0, <1>3 DEF Read, guestVars
  <2>3. TypeOK'
    <3>1. Tail(replies[y]) \in Seq(Req) /\ Len(Tail(replies[y])) <= ReplyCap /\ left[y] + 1 \in Nat
      <4>1. Len(replies[y]) <= ReplyCap /\ ReplyCap \in Nat
        BY PumpAssumption DEF TypeOK
      <4>2. Tail(replies[y]) \in Seq(Req) /\ Len(Tail(replies[y])) = Len(replies[y]) - 1 /\ Len(replies[y]) \in Nat
        BY <2>1, HeadTailProperties
      <4>3. QED
        BY <2>1, <4>1, <4>2
    <3>2. replies' \in [Node -> Seq(Req)] /\ left' \in [Node -> Nat]
      BY <2>2, <3>1 DEF TypeOK
    <3>3. \A x \in Node : Len(replies'[x]) <= ReplyCap
      BY <2>2, <3>1 DEF TypeOK
    <3>4. QED
      BY <2>2, <3>2, <3>3 DEF TypeOK
  <2>4. Driving'
    BY <1>1, <2>2 DEF Driving, Draining
  <2>5. ASSUME NEW x \in Node PROVE Owed(x)'
    BY <2>2 DEF Owed, Alive
  <2>6. ASSUME NEW x \in Node, x # y PROVE UNCHANGED Share(x)
    BY <2>2, <2>6 DEF Share, TypeOK
  <2>7. Good(y)'
    <3>1. replies'[y] = Tail(replies[y]) /\ left'[y] = left[y] + 1
      BY <2>2 DEF TypeOK
    <3>2. Line(answers[y], Tail(replies[y]), settled[y], left[y] + 1)
      BY <1>1, <2>1, Types, LineLeaves DEF Good
    <3>3. QED
      BY <1>1, <2>2, <3>1, <3>2 DEF Good
  <2>8. QED
    BY <2>3, <2>4, <2>5, <2>6, <2>7, Frame
<1>4. QED
  BY <1>2, <1>3

(* An instance stops or is killed: it takes what it was owed with it.      *)
LEMMA ReleaseStep ==
    ASSUME IInv, Stopped \/ \E x \in Node : Kill(x)
    PROVE  IInv'
<1> USE DEF IInv
<1>1. PICK y \in Node : Released(y) /\ pc' = "idle" /\ pc # "poll" /\ UNCHANGED here
  BY DEF Stopped, Kill, TypeOK
<1>2. /\ place' = [place EXCEPT ![y] = "gone"] /\ queue' = [queue EXCEPT ![y] = "absent"]
      /\ calls' = [calls EXCEPT ![y] = <<>>] /\ replies' = [replies EXCEPT ![y] = <<>>]
      /\ inflight' = [inflight EXCEPT ![y] = {}] /\ settled' = [settled EXCEPT ![y] = <<>>]
      /\ UNCHANGED <<made, ready, answers, left>>
  BY <1>1 DEF Released, Forget
<1>3. TypeOK'
  <2>1. <<>> \in Seq(Req) /\ Len(<<>>) <= ReplyCap
    BY PumpAssumption, EmptySeq
  <2>2. /\ calls' \in [Node -> Seq(Req)] /\ replies' \in [Node -> Seq(Req)] /\ settled' \in [Node -> Seq(Req)]
        /\ inflight' \in [Node -> SUBSET Req]
    BY <1>2, <2>1 DEF TypeOK
  <2>3. \A x \in Node : Len(replies'[x]) <= ReplyCap
    BY <1>2, <2>1 DEF TypeOK
  <2>4. QED
    BY <1>1, <1>2, <2>2, <2>3 DEF TypeOK
<1>4. Driving'
  BY <1>1 DEF Driving, Draining
<1>5. ASSUME NEW x \in Node PROVE Owed(x)'
  BY <1>1, <1>2 DEF Owed, Alive, TypeOK
<1>6. ASSUME NEW x \in Node, x # y PROVE UNCHANGED Share(x)
  BY <1>2, <1>6 DEF Share, TypeOK
<1>7. Good(y)'
  BY <1>2 DEF Good, Alive, TypeOK
<1>8. QED
  BY <1>3, <1>4, <1>5, <1>6, <1>7, Frame

(* A swap in or out moves nothing of what the pump holds.                  *)
LEMMA SwapStep ==
    ASSUME IInv, \E x \in Node : Hibernate(x) \/ Wake(x)
    PROVE  IInv'
<1> USE DEF IInv
<1>1. PICK y \in Node : Hibernate(y) \/ Wake(y)
  OBVIOUS
<1>2. /\ pc = "idle" /\ Alive(y) /\ \E p \in {"resident", "cached"} : place' = [place EXCEPT ![y] = p]
      /\ UNCHANGED <<queue, made, pumpVars, pc, here>>
  BY <1>1 DEF Hibernate, Wake, SwapOut, SwapIn, Detached, Alive
<1>3. TypeOK' /\ Driving'
  BY <1>2 DEF TypeOK, Driving, Draining, pumpVars
<1>4. ASSUME NEW x \in Node PROVE Alive(x)' <=> Alive(x)
  BY <1>2 DEF Alive, TypeOK
<1>5. ASSUME NEW x \in Node PROVE Owed(x)' /\ Good(x)'
  BY <1>2, <1>4 DEF Owed, Good, pumpVars
<1>6. QED
  BY <1>3, <1>5

\* Every step keeps it.
LEMMA NextInv == IInv /\ [Next]_vars => IInv'
<1> SUFFICES ASSUME IInv, [Next]_vars PROVE IInv'
  OBVIOUS
<1>1. CASE UNCHANGED vars
  <2>1. TypeOK' /\ Driving'
    BY <1>1 DEF IInv, vars, guestVars, pumpVars, TypeOK, Driving, Draining, Room
  <2>2. ASSUME NEW x \in Node PROVE Owed(x)' /\ Good(x)'
    BY <1>1 DEF IInv, vars, guestVars, pumpVars, Owed, Good, Alive
  <2>3. QED
    BY <2>1, <2>2 DEF IInv
<1>2. CASE Next
  BY <1>2, QuietStep, SettleStep, DeliverStep, TakeStep, GuestStep, ReleaseStep, SwapStep
     DEF Next, Pumping, Guest
<1>3. QED
  BY <1>1, <1>2
-----------------------------------------------------------------------------
(* The inductive invariant holds in every state of the pump.               *)
THEOREM Invariance == Spec => []IInv
BY InitInv, NextInv, PTL DEF Spec

(* Every request a living instance made waits, is in flight or has its one *)
(* answer: none is lost and none answered twice (pump, poll, forget).      *)
THEOREM AnsweredOnce == Spec => []EachOnce
<1>1. ASSUME IInv PROVE EachOnce
  <2> SUFFICES ASSUME NEW x \in Node, Alive(x)
               PROVE  InOnePlace(calls[x], inflight[x], answers[x], made[x])
    BY DEF EachOnce, InOnePlace
  <2>1. Book(calls[x], inflight[x], answers[x], made[x])
    BY <1>1 DEF IInv, Good
  <2>2. /\ calls[x] \in Seq(Nat) /\ answers[x] \in Seq(Nat) /\ inflight[x] \in SUBSET Nat /\ made[x] \in Nat
    BY <1>1, Types DEF IInv
  <2>3. QED
    BY <2>1, <2>2, BookIsOnce
<1>2. QED
  BY <1>1, Invariance, PTL

(* Answers reach host/replies in the order the host had them, and a direct *)
(* one never overtakes one that settled (deliver, land).                   *)
THEOREM OrderKept == Spec => []AnswersInOrder
<1>1. IInv => AnswersInOrder
  BY Types, LineIsOrder, ZenonT(30) DEF IInv, Good, AnswersInOrder
<1>2. QED
  BY <1>1, Invariance, PTL

(* The pump holds nothing for an instance that is gone (forget).           *)
THEOREM NothingOwedToTheDead == Spec => []OwedToTheLiving
<1>1. IInv => OwedToTheLiving
  BY DEF IInv, Owed, OwedToTheLiving
<1>2. QED
  BY <1>1, Invariance, PTL
=============================================================================
