---------------------------- MODULE NetworkProofs ----------------------------
(***************************************************************************)
(* Proofs about the network side of drt (MCNetwork): what is said of a     *)
(* session is true, and what arrives arrives in order, for every value of  *)
(* the constants.  Each part has its inductive invariant: P2pInv, RelayInv,*)
(* WispInv and BridgesInv; a behaviour is one part's (NetworkInv).         *)
(***************************************************************************)
EXTENDS MCNetwork, FiniteSetTheorems, TLAPS

\* Every set of numbers with an element has a least element.
LEMMA LeastNumber ==
    ASSUME NEW T \in SUBSET Nat, T # {}
    PROVE  \E x \in T : \A y \in T : x <= y
<1> DEFINE Segments == {0..n : n \in T}
<1> DEFINE R == StrictSubsetOrdering(Nat)
<1>1. Segments \subseteq FiniteSubsetsOf(Nat)
  <2>1. \A n \in T : n \in Int /\ IsFiniteSet(0..n) /\ 0..n \in SUBSET Nat
    BY FS_Interval
  <2> QED
    BY <2>1 DEF FiniteSubsetsOf
<1>2. Segments # {}
  OBVIOUS
<1>3. IsWellFoundedOn(R, FiniteSubsetsOf(Nat))
  BY FS_StrictSubsetOrderingWellFounded
<1>4. \E s \in Segments : \A r \in Segments : ~ (<<r, s>> \in R)
  <2> HIDE DEF Segments, R
  <2> QED
    BY <1>1, <1>2, <1>3, WFMin
<1>5. PICK m \in T : \A n \in T : ~ (<<0..n, 0..m>> \in R)
  BY <1>4
<1>6. ASSUME NEW n \in T, n < m
      PROVE  FALSE
  <2>1. m \in 0..m /\ m \notin 0..n
    BY <1>6
  <2>2. 0..n \subseteq 0..m /\ 0..n # 0..m
    BY <2>1, <1>6
  <2>3. <<0..n, 0..m>> \in R
    BY <2>2 DEF StrictSubsetOrdering
  <2> QED
    BY <2>3, <1>5
<1> QED
  BY <1>6

\* Induction over the naturals, for a set of them.
LEMMA Induction ==
    ASSUME NEW T \in SUBSET Nat, 0 \in T, \A n \in T : n + 1 \in T
    PROVE  \A n \in Nat : n \in T
<1> SUFFICES ASSUME \E n \in Nat : n \notin T
             PROVE  FALSE
  OBVIOUS
<1> DEFINE Rest == Nat \ T
<1>1. PICK x \in Rest : \A y \in Rest : x <= y
  BY LeastNumber
<1>2. x # 0 /\ x - 1 \in Nat
  BY <1>1
<1>3. x - 1 \in T
  BY <1>1, <1>2
<1> QED
  BY <1>1, <1>2, <1>3

\* f[n] is what a sequence has at some of its first n indices.
Filter(seq, at, f) ==
    f = [i \in 0..Len(seq) |-> IF i = 0 THEN <<>>
                               ELSE IF i \in at THEN Append(f[i - 1], seq[i]) ELSE f[i - 1]]

\* There is such a function: what is written by recursion unfolds.
LEMMA FilterExists ==
    ASSUME NEW seq, NEW at, Len(seq) \in Nat
    PROVE  \E f : Filter(seq, at, f)
<1> DEFINE Upto(n, f) ==
             f = [i \in 0..n |-> IF i = 0 THEN <<>>
                                 ELSE IF i \in at THEN Append(f[i - 1], seq[i]) ELSE f[i - 1]]
<1> DEFINE Has == {n \in Nat : \E f : Upto(n, f)}
<1>1. 0 \in Has
  <2>1. \E f : Upto(0, f)
    <3>1. Upto(0, [i \in 0..0 |-> <<>>])
      OBVIOUS
    <3> HIDE DEF Upto
    <3> QED
      BY <3>1
  <2> QED
    BY <2>1
<1>2. ASSUME NEW n \in Has
      PROVE  n + 1 \in Has
  <2>1. PICK f : Upto(n, f)
    OBVIOUS
  <2> DEFINE g == [i \in 0..(n + 1) |-> IF i <= n THEN f[i]
                                        ELSE IF i \in at THEN Append(f[n], seq[i]) ELSE f[n]]
  <2>2. Upto(n + 1, g)
    <3>1. n \in Nat
      OBVIOUS
    <3>2. \A i \in 0..n : g[i] = f[i]
      BY <3>1
    <3>3. ASSUME NEW i \in 0..n
          PROVE  g[i] = IF i = 0 THEN <<>> ELSE IF i \in at THEN Append(g[i - 1], seq[i]) ELSE g[i - 1]
      <4>1. i # 0 => g[i - 1] = f[i - 1]
        BY <3>1, <3>2
      <4>2. f[i] = IF i = 0 THEN <<>> ELSE IF i \in at THEN Append(f[i - 1], seq[i]) ELSE f[i - 1]
        <5> HIDE DEF g
        <5> QED
          BY <2>1, Zenon
      <4> QED
        <5> HIDE DEF g, Upto
        <5> QED
          BY <3>2, <4>1, <4>2
    <3>4. g[n + 1] = IF n + 1 \in at THEN Append(g[n], seq[n + 1]) ELSE g[n]
      BY <3>1, <3>2
    <3>5. \A i \in 0..(n + 1) : i \in 0..n \/ (i = n + 1 /\ i # 0 /\ i - 1 = n)
      BY <3>1
    <3>6. \A i \in 0..(n + 1) :
             g[i] = IF i = 0 THEN <<>> ELSE IF i \in at THEN Append(g[i - 1], seq[i]) ELSE g[i - 1]
      <4> HIDE DEF g
      <4> QED
        BY <3>3, <3>4, <3>5
    <3> QED
      BY <3>6
  <2>3. n + 1 \in Nat
    OBVIOUS
  <2> HIDE DEF Upto, g
  <2> QED
    BY <2>2, <2>3
<1>3. \A n \in Nat : n \in Has
  <2>1. Has \in SUBSET Nat
    OBVIOUS
  <2> HIDE DEF Has
  <2> QED
    BY <1>1, <1>2, <2>1, Induction
<1>4. \E f : Upto(Len(seq), f)
  BY <1>3
<1> QED
  BY <1>4 DEF Filter

\* A sequence picked out of seq: g says where each element comes from.
Picked(seq, at, r, g) ==
    /\ g \in [1..Len(r) -> at]
    /\ \A i \in 1..Len(r) : r[i] = seq[g[i]]
    /\ \A i, j \in 1..Len(r) : i < j => g[i] < g[j]

\* One more index after all those picked so far.
LEMMA PickedMore ==
    ASSUME NEW X, NEW seq \in Seq(X), NEW at \in SUBSET (1..Len(seq)), NEW n \in Nat,
           NEW r \in Seq(X), NEW g, Picked(seq, {i \in at : i <= n}, r, g), n + 1 \in at
    PROVE  \E g2 : Picked(seq, {i \in at : i <= n + 1}, Append(r, seq[n + 1]), g2)
<1> DEFINE r2 == Append(r, seq[n + 1])
<1> DEFINE g2 == [i \in 1..(Len(r) + 1) |-> IF i <= Len(r) THEN g[i] ELSE n + 1]
<1>1. seq[n + 1] \in X /\ Len(r) \in Nat
  OBVIOUS
<1>2. Len(r2) = Len(r) + 1 /\ r2[Len(r) + 1] = seq[n + 1]
  BY <1>1
<1>3. \A i \in 1..Len(r) : r2[i] = r[i]
  BY <1>1
<1>4. \A i \in 1..Len(r) : g2[i] = g[i] /\ g[i] \in at /\ g[i] <= n /\ g[i] \in Nat
  <2> SUFFICES ASSUME NEW i \in 1..Len(r)
               PROVE  g2[i] = g[i] /\ g[i] \in at /\ g[i] <= n /\ g[i] \in Nat
    OBVIOUS
  <2>1. g[i] \in {k \in at : k <= n}
    BY DEF Picked
  <2>2. g2[i] = g[i]
    BY <1>1
  <2>3. \A k \in at : k \in Nat
    OBVIOUS
  <2> HIDE DEF g2
  <2> QED
    BY <2>1, <2>2, <2>3
<1>5. g2[Len(r) + 1] = n + 1
  BY <1>1
<1>6. g2 \in [1..Len(r2) -> {i \in at : i <= n + 1}]
  <2>1. \A i \in 1..(Len(r) + 1) : i \in 1..Len(r) \/ i = Len(r) + 1
    BY <1>1
  <2>2. \A i \in 1..(Len(r) + 1) : g2[i] \in {k \in at : k <= n + 1}
    <3>1. \A i \in 1..Len(r) : g[i] <= n + 1
      <4> HIDE DEF g2
      <4> QED
        BY <1>4
    <3> HIDE DEF g2
    <3> QED
      BY <2>1, <3>1, <1>4, <1>5
  <2> HIDE DEF r2
  <2> QED
    BY <2>2, <1>2
<1>7. \A i \in 1..Len(r2) : r2[i] = seq[g2[i]]
  <2>1. \A i \in 1..Len(r) : r2[i] = seq[g2[i]]
    BY <1>3, <1>4 DEF Picked
  <2>2. \A i \in 1..Len(r2) : i \in 1..Len(r) \/ i = Len(r) + 1
    BY <1>1, <1>2
  <2> HIDE DEF r2, g2
  <2> QED
    BY <2>1, <2>2, <1>2, <1>5
<1>8. \A i, j \in 1..Len(r2) : i < j => g2[i] < g2[j]
  <2> SUFFICES ASSUME NEW i \in 1..Len(r2), NEW j \in 1..Len(r2), i < j
               PROVE  g2[i] < g2[j]
    OBVIOUS
  <2>1. i \in 1..Len(r) /\ (j \in 1..Len(r) \/ j = Len(r) + 1)
    BY <1>1, <1>2
  <2>2. CASE j \in 1..Len(r)
    <3> HIDE DEF g2
    <3> QED
      BY <2>1, <2>2, <1>4 DEF Picked
  <2>3. CASE j = Len(r) + 1
    <3> HIDE DEF g2
    <3> QED
      BY <2>1, <2>3, <1>4, <1>5
  <2> QED
    BY <2>1, <2>2, <2>3
<1> HIDE DEF r2, g2
<1>9. Picked(seq, {i \in at : i <= n + 1}, r2, g2)
  BY <1>6, <1>7, <1>8 DEF Picked
<1> QED
  BY <1>9 DEF r2

\* A filter picks: every element is one of the sequence's, at one of the
\* indices, and the order is the sequence's own.
LEMMA FilterPicks ==
    ASSUME NEW X, NEW seq \in Seq(X), NEW at \in SUBSET (1..Len(seq)), NEW f, Filter(seq, at, f)
    PROVE  f[Len(seq)] \in Seq(X) /\ \E g : Picked(seq, at, f[Len(seq)], g)
<1>0. Len(seq) \in Nat
  OBVIOUS
<1>1. f = [i \in 0..Len(seq) |->
             IF i = 0 THEN <<>>
             ELSE IF i \in at THEN Append(f[i - 1], seq[i]) ELSE f[i - 1]]
  BY DEF Filter
<1>2. f[0] = <<>> /\ \A n \in Nat : n + 1 <= Len(seq) =>
         f[n + 1] = IF n + 1 \in at THEN Append(f[n], seq[n + 1]) ELSE f[n]
  <2>1. f[0] = <<>>
    BY <1>0, <1>1
  <2>2. ASSUME NEW n \in Nat, n + 1 <= Len(seq)
        PROVE  f[n + 1] = IF n + 1 \in at THEN Append(f[n], seq[n + 1]) ELSE f[n]
    <3>1. n + 1 \in 0..Len(seq) /\ n + 1 # 0 /\ (n + 1) - 1 = n
      BY <2>2, <1>0
    <3>2. f[n + 1] = IF n + 1 = 0 THEN <<>>
                     ELSE IF n + 1 \in at THEN Append(f[(n + 1) - 1], seq[n + 1]) ELSE f[(n + 1) - 1]
      BY <1>1, <3>1, Zenon
    <3> QED
      BY <3>1, <3>2
  <2> QED
    BY <2>1, <2>2
<1> DEFINE Sofar(n) == f[n] \in Seq(X) /\ \E g : Picked(seq, {i \in at : i <= n}, f[n], g)
<1> DEFINE T == {n \in Nat : n <= Len(seq) => Sofar(n)}
<1>3. 0 \in T
  <2>1. Picked(seq, {i \in at : i <= 0}, <<>>, <<>>)
    BY DEF Picked
  <2>2. <<>> \in Seq(X)
    OBVIOUS
  <2> QED
    BY <2>1, <2>2, <1>2
<1>4. ASSUME NEW n \in T
      PROVE  n + 1 \in T
  <2>1. n \in Nat /\ n + 1 \in Nat
    OBVIOUS
  <2> SUFFICES ASSUME n + 1 <= Len(seq)
               PROVE  Sofar(n + 1)
    BY <2>1
  <2>2. Sofar(n)
    <3> HIDE DEF Sofar
    <3> QED
      BY <2>1, <1>0
  <2>3. PICK g : Picked(seq, {i \in at : i <= n}, f[n], g)
    BY <2>2
  <2>4. CASE n + 1 \in at
    <3>1. f[n + 1] = Append(f[n], seq[n + 1])
      BY <1>2, <2>1, <2>4
    <3>2. f[n + 1] \in Seq(X)
      BY <3>1, <2>2, <2>1
    <3>3. \E g2 : Picked(seq, {i \in at : i <= n + 1}, f[n + 1], g2)
      <4>1. f[n] \in Seq(X)
        BY <2>2
      <4>2. \E g2 : Picked(seq, {i \in at : i <= n + 1}, Append(f[n], seq[n + 1]), g2)
        <5> HIDE DEF T, Sofar
        <5> QED
          BY <2>1, <2>3, <2>4, <4>1, PickedMore
      <4> QED
        BY <3>1, <4>2
    <3> QED
      BY <3>2, <3>3
  <2>5. CASE n + 1 \notin at
    <3>1. f[n + 1] = f[n]
      BY <1>2, <2>1, <2>5
    <3>2. {i \in at : i <= n} = {i \in at : i <= n + 1}
      <4>1. \A i \in at : i \in Nat /\ i # n + 1
        BY <2>5
      <4>2. \A i \in at : i <= n <=> i <= n + 1
        BY <2>1, <4>1
      <4> HIDE DEF T, Sofar
      <4> QED
        BY <4>2
    <3> QED
      BY <2>2, <3>1, <3>2
  <2> QED
    BY <2>4, <2>5
<1>5. \A n \in Nat : n \in T
  <2>1. T \in SUBSET Nat
    OBVIOUS
  <2> HIDE DEF T
  <2> QED
    BY <1>3, <1>4, <2>1, Induction
<1>6. Sofar(Len(seq))
  <2> HIDE DEF Sofar
  <2> QED
    BY <1>5, <1>0
<1>7. {i \in at : i <= Len(seq)} = at
  <2>1. \A i \in at : i <= Len(seq)
    BY <1>0
  <2> QED
    BY <2>1
<1> QED
  BY <1>6, <1>7

(***************************************************************************)
(* The pairing host.                                                       *)
(***************************************************************************)

\* A report that says a session is up is about one that was.
Report(e)  == (P2p!Peer \X {"down"}) \cup (e \X {"up"})

\* A command that opens a session of a name is for one the rule allowed.
Command(a) == {c \in {"open", "call", "close"} \X P2p!Peer : c[1] # "close" /\ c[2] \in Names => c[2] \in a}

Following(e) ==
    [st : {"none", "asking", "waiting", "done"}, name : Names \cup {"none"}, inbox : Seq(Report(e)),
     outcome : {"none", "declined", "refused", "unreachable", "connected"}]

P2pInv ==
    /\ pair \in [Pairs -> Following(ever)]
    /\ commands \in Seq(Command(P2p!Asked))
    /\ sess \in [P2p!Peer -> {"none", "setup", "up"}]
    /\ reports \in Seq(Report(ever)) /\ ever \subseteq P2p!Peer
    /\ \A q \in Pairs : pair[q].outcome = "connected" => pair[q].st = "done" /\ pair[q].name \in ever
    /\ \A q \in Pairs : pair[q].st \in {"asking", "waiting"} =>
          pair[q].name \in Names /\ <<q, pair[q].name>> \in Allowed
    /\ \A q \in Pairs : q \notin page => pair[q].st = "none"
    /\ P2p!OnlyAllowed

\* At first nothing was announced.
LEMMA P2pFirst == P2p!Init => P2pInv
<1> SUFFICES ASSUME P2p!Init
             PROVE  P2pInv
  OBVIOUS
<1>1. Names \subseteq P2p!Peer
  BY DEF P2p!Peer
<1>2. P2p!OnlyAllowed
  BY <1>1 DEF P2p!Init, P2p!OnlyAllowed
<1> QED
  BY <1>2 DEF P2p!Init, P2pInv, Following

\* What is known of reports stays so when another session comes up, and a
\* command stays allowed when another entry is.
LEMMA ReportsGrow ==
    ASSUME NEW e \in SUBSET P2p!Peer, NEW f \in SUBSET P2p!Peer, e \subseteq f
    PROVE  Seq(Report(e)) \subseteq Seq(Report(f)) /\ Following(e) \subseteq Following(f)
<1>1. Report(e) \subseteq Report(f)
  BY DEF Report
<1>2. Seq(Report(e)) \subseteq Seq(Report(f))
  BY <1>1
<1> QED
  BY <1>2 DEF Following

LEMMA CommandsGrow ==
    ASSUME NEW a, NEW b, a \subseteq b
    PROVE  Seq(Command(a)) \subseteq Seq(Command(b))
<1>1. Command(a) \subseteq Command(b)
  BY DEF Command
<1> QED
  BY <1>1

\* A queue of reports, less the first one or with one more.
LEMMA ReportSeq ==
    ASSUME NEW e, NEW s \in Seq(Report(e))
    PROVE  /\ \A r \in Report(e) : Append(s, r) \in Seq(Report(e))
           /\ s # <<>> => Head(s) \in Report(e) /\ Tail(s) \in Seq(Report(e))
           /\ P2p!Kept(s) \in Seq(Report(e))
<1>1. LAG \in Nat
  BY NetworkAssumption
<1>2. Len(s) > LAG => SubSeq(s, 2, Len(s)) \in Seq(Report(e))
  BY <1>1
<1>3. SubSeq(s, 1, Len(s)) \in Seq(Report(e))
  OBVIOUS
<1>4. P2p!Kept(s) \in Seq(Report(e))
  BY <1>2, <1>3 DEF P2p!Kept
<1> QED
  BY <1>4

\* A task that ended: why, and that it listens no longer.
LEMMA OutcomeIs ==
    ASSUME NEW e, pair \in [Pairs -> Following(e)], NEW q \in Pairs,
           NEW o \in {"declined", "refused", "unreachable", "connected"}
    PROVE  /\ P2p!Outcome(q, o) \in [Pairs -> Following(e)]
           /\ \A p \in Pairs : P2p!Outcome(q, o)[p] =
                 IF p = q THEN [st |-> "done", name |-> pair[q].name, inbox |-> <<>>, outcome |-> o] ELSE pair[p]
<1>1. \A p \in Pairs : P2p!Outcome(q, o)[p] =
          IF p = q THEN [st |-> "done", name |-> pair[q].name, inbox |-> <<>>, outcome |-> o] ELSE pair[p]
  <2>1. \A p \in Pairs : p # q => P2p!Outcome(q, o)[p] = pair[p]
    BY DEF P2p!Outcome
  <2> DEFINE e1 == [pair[q] EXCEPT !.st = "done", !.outcome = o, !.inbox = <<>>]
  <2>2. P2p!Outcome(q, o)[q] = e1
    BY DEF P2p!Outcome
  <2>3. pair[q] \in Following(e)
    OBVIOUS
  <2>4. e1 = [st |-> "done", name |-> pair[q].name, inbox |-> <<>>, outcome |-> o]
    <3>1. PICK st, nm, inb, oc : pair[q] = [st |-> st, name |-> nm, inbox |-> inb, outcome |-> oc]
      BY <2>3 DEF Following
    <3>2. e1 = [[st |-> st, name |-> nm, inbox |-> inb, outcome |-> oc] EXCEPT !.st = "done", !.outcome = o, !.inbox = <<>>]
      BY <3>1
    <3>3. pair[q].name = nm
      BY <3>1
    <3> HIDE DEF e1
    <3> QED
      BY <3>2, <3>3
  <2> QED
    BY <2>1, <2>2, <2>4
<1>2. [st |-> "done", name |-> pair[q].name, inbox |-> <<>>, outcome |-> o] \in Following(e)
  <2>1. pair[q] \in Following(e)
    OBVIOUS
  <2> QED
    BY <2>1 DEF Following
<1>3. P2p!Outcome(q, o) = [p \in Pairs |-> P2p!Outcome(q, o)[p]]
  BY DEF P2p!Outcome
<1>4. \A p \in Pairs : P2p!Outcome(q, o)[p] \in Following(e)
  BY <1>1, <1>2
<1> QED
  BY <1>1, <1>3, <1>4

\* Every step of the pairing host keeps its invariant.
LEMMA P2pKept ==
    ASSUME P2pInv, P2p!Next
    PROVE  P2pInv'
<1>0. /\ Names \subseteq P2p!Peer /\ Calls \subseteq P2p!Peer /\ Direct \subseteq P2p!Peer
      /\ Names \cap (Calls \cup Direct) = {} /\ Allowed \subseteq Pairs \X Names
  BY NetworkAssumption DEF P2p!Peer
<1>t. /\ pair \in [Pairs -> Following(ever)] /\ commands \in Seq(Command(P2p!Asked))
      /\ sess \in [P2p!Peer -> {"none", "setup", "up"}]
      /\ reports \in Seq(Report(ever)) /\ ever \subseteq P2p!Peer
  BY DEF P2pInv
<1>i. /\ \A q \in Pairs : pair[q].outcome = "connected" => pair[q].st = "done" /\ pair[q].name \in ever
      /\ \A q \in Pairs : pair[q].st \in {"asking", "waiting"} =>
            pair[q].name \in Names /\ <<q, pair[q].name>> \in Allowed
      /\ \A q \in Pairs : q \notin page => pair[q].st = "none"
      /\ \A n \in Names : sess[n] # "none" \/ n \in ever => n \in P2p!Asked
  BY DEF P2pInv, P2p!OnlyAllowed

\* A step in which the tasks stay what they were to the rule, or one more is.
<1>k. ASSUME P2p!Asked \subseteq P2p!Asked', page \subseteq page',
             pair' \in [Pairs -> Following(ever')], commands' \in Seq(Command(P2p!Asked')),
             sess' \in [P2p!Peer -> {"none", "setup", "up"}],
             reports' \in Seq(Report(ever')), ever' \subseteq P2p!Peer,
             \A q \in Pairs :
                /\ pair'[q].outcome = "connected" => pair'[q].st = "done" /\ pair'[q].name \in ever'
                /\ pair'[q].st \in {"asking", "waiting"} => pair'[q].name \in Names /\ <<q, pair'[q].name>> \in Allowed
                /\ pair[q].st = "none" /\ q \notin page' => pair'[q].st = "none",
             \A n \in Names : sess'[n] # "none" \/ n \in ever' => sess[n] # "none" \/ n \in ever \/ n \in P2p!Asked
      PROVE  P2pInv'
  <2>1. (\A n \in Names : sess[n] # "none" \/ n \in ever => n \in P2p!Asked)'
    BY <1>k, <1>i
  <2>2. \A q \in Pairs : q \notin page' => pair'[q].st = "none"
    BY <1>k, <1>i
  <2> QED
    BY <1>k, <2>1, <2>2 DEF P2pInv, P2p!OnlyAllowed
<1>a. ASSUME \A q \in Pairs : pair[q].st # "none" => pair'[q].st # "none" /\ pair'[q].name = pair[q].name
      PROVE  P2p!Asked \subseteq P2p!Asked'
  BY <1>a DEF P2p!Asked, P2p!Own
<1>s. ASSUME UNCHANGED pair
      PROVE  P2p!Asked' = P2p!Asked
  BY <1>s DEF P2p!Asked, P2p!Own
<1>1. ASSUME NEW c \in Calls, commands' = Append(commands, <<"open", c>>), page' = page \cup {c},
             UNCHANGED <<pair, sess, ever, reports>>
      PROVE  P2pInv'
  <2>1. <<"open", c>> \in Command(P2p!Asked)
    BY <1>0 DEF Command
  <2>2. commands' \in Seq(Command(P2p!Asked)) /\ P2p!Asked' = P2p!Asked
    BY <1>1, <1>t, <1>s, <2>1
  <2> QED
    BY <2>2, <1>1, <1>t, <1>i, <1>k

<1>o. ASSUME NEW q \in Pairs, NEW o \in {"refused", "unreachable", "connected"},
             o = "connected" => pair[q].name \in ever, pair[q].st \in {"asking", "waiting"},
             pair' = P2p!Outcome(q, o), commands' \in Seq(Command(P2p!Asked)), UNCHANGED <<page, sess, ever, reports>>
      PROVE  P2pInv'
  <2>0. o \in {"declined", "refused", "unreachable", "connected"}
    OBVIOUS
  <2>1. /\ pair' \in [Pairs -> Following(ever)]
        /\ \A p \in Pairs : pair'[p] =
              IF p = q THEN [st |-> "done", name |-> pair[q].name, inbox |-> <<>>, outcome |-> o] ELSE pair[p]
    <3>1. pair \in [Pairs -> Following(ever)] /\ pair' = P2p!Outcome(q, o)
      BY <1>o, <1>t
    <3>2. /\ P2p!Outcome(q, o) \in [Pairs -> Following(ever)]
          /\ \A p \in Pairs : P2p!Outcome(q, o)[p] =
                IF p = q THEN [st |-> "done", name |-> pair[q].name, inbox |-> <<>>, outcome |-> o] ELSE pair[p]
      BY <2>0, <3>1, OutcomeIs
    <3> QED
      BY <3>1, <3>2
  <2>2. \A p \in Pairs : /\ pair'[p].name = pair[p].name
                         /\ p # q => pair'[p].st = pair[p].st /\ pair'[p].outcome = pair[p].outcome
                         /\ p = q => pair'[p].st = "done" /\ pair'[p].outcome = o
    BY <2>1
  <2>3. P2p!Asked \subseteq P2p!Asked'
    BY <2>2, <1>a
  <2>4. commands' \in Seq(Command(P2p!Asked'))
    BY <1>o, <2>3, CommandsGrow
  <2>5. \A p \in Pairs :
           /\ pair'[p].outcome = "connected" => pair'[p].st = "done" /\ pair'[p].name \in ever
           /\ pair'[p].st \in {"asking", "waiting"} => pair'[p].name \in Names /\ <<p, pair'[p].name>> \in Allowed
           /\ pair[p].st = "none" => pair'[p].st = "none"
    BY <1>o, <1>i, <2>2
  <2> QED
    BY <1>o, <2>1, <2>3, <2>4, <2>5, <1>t, <1>k
<1>2. ASSUME NEW q \in Pairs, P2p!PollPair(q)
      PROVE  P2pInv'
  <2>1. UNCHANGED <<commands, sess, ever, reports>> /\ page' = page \cup {q} /\ q \notin page
    BY <1>2 DEF P2p!PollPair, P2p!hostVars
  <2>2. PICK n \in Names :
           IF <<q, n>> \in Allowed THEN pair' = [pair EXCEPT ![q].st = "asking", ![q].name = n]
           ELSE pair' = [pair EXCEPT ![q].st = "done", ![q].name = n, ![q].outcome = "declined"]
    BY <1>2 DEF P2p!PollPair
  <2>3. pair[q].st = "none"
    BY <2>1, <1>i
  <2>4. /\ pair' \in [Pairs -> Following(ever)]
        /\ \A p \in Pairs : p # q => pair'[p] = pair[p]
        /\ pair'[q].name = n
        /\ \/ <<q, n>> \in Allowed /\ pair'[q].st = "asking" /\ pair'[q].outcome = pair[q].outcome
           \/ pair'[q].st = "done" /\ pair'[q].outcome = "declined"
    <3>1. CASE <<q, n>> \in Allowed
      <4>1. pair' = [pair EXCEPT ![q] = [pair[q] EXCEPT !.st = "asking", !.name = n]]
        BY <2>2, <3>1, <1>t
      <4> QED
        BY <3>1, <4>1, <1>t DEF Following
    <3>2. CASE <<q, n>> \notin Allowed
      <4>1. pair' = [pair EXCEPT ![q] = [pair[q] EXCEPT !.st = "done", !.name = n, !.outcome = "declined"]]
        BY <2>2, <3>2, <1>t
      <4> QED
        BY <3>2, <4>1, <1>t DEF Following
    <3> QED
      BY <3>1, <3>2
  <2>5. P2p!Asked \subseteq P2p!Asked'
    BY <2>3, <2>4, <1>a
  <2>6. commands' \in Seq(Command(P2p!Asked'))
    BY <2>1, <2>5, <1>t, CommandsGrow
  <2>7. pair'[q].outcome # "connected"
    BY <2>3, <2>4, <1>i
  <2>8. \A p \in Pairs :
           /\ pair'[p].outcome = "connected" => pair'[p].st = "done" /\ pair'[p].name \in ever
           /\ pair'[p].st \in {"asking", "waiting"} => pair'[p].name \in Names /\ <<p, pair'[p].name>> \in Allowed
           /\ pair[p].st = "none" /\ p \notin page' => pair'[p].st = "none"
    BY <2>1, <2>4, <2>7, <1>i
  <2> QED
    BY <2>1, <2>4, <2>5, <2>6, <2>8, <1>t, <1>k
<1>3. ASSUME NEW q \in Pairs, P2p!Answered(q)
      PROVE  P2pInv'
  <2>1. UNCHANGED <<page, sess, ever, reports>> /\ pair[q].st = "asking"
    BY <1>3 DEF P2p!Answered, P2p!hostVars
  <2>2. pair[q].name \in Names /\ <<q, pair[q].name>> \in Allowed /\ pair[q].outcome # "connected"
    BY <2>1, <1>i
  <2>3. CASE \E o \in {"refused", "unreachable"} : pair' = P2p!Outcome(q, o) /\ UNCHANGED commands
    BY <2>1, <2>3, <1>o, <1>t
  <2>4. CASE pair' = [pair EXCEPT ![q].st = "waiting"] /\ P2p!Sends(<<"call", pair[q].name>>)
    <3>1. pair[q].name \in P2p!Asked
      BY <2>1, <2>2 DEF P2p!Asked, P2p!Own
    <3>2. <<"call", pair[q].name>> \in Command(P2p!Asked)
      BY <1>0, <2>2, <3>1 DEF Command
    <3>3. commands' \in Seq(Command(P2p!Asked))
      BY <2>4, <3>2, <1>t DEF P2p!Sends
    <3>4. pair' \in [Pairs -> Following(ever)]
      BY <2>4, <1>t DEF Following
    <3>5. \A p \in Pairs : /\ pair'[p].outcome = pair[p].outcome /\ pair'[p].name = pair[p].name
                           /\ p # q => pair'[p].st = pair[p].st
                           /\ p = q => pair'[p].st = "waiting"
      BY <2>4, <1>t DEF Following
    <3>6. P2p!Asked \subseteq P2p!Asked'
      BY <3>5, <1>a
    <3>7. commands' \in Seq(Command(P2p!Asked'))
      BY <3>3, <3>6, CommandsGrow
    <3>8. \A p \in Pairs :
             /\ pair'[p].outcome = "connected" => pair'[p].st = "done" /\ pair'[p].name \in ever
             /\ pair'[p].st \in {"asking", "waiting"} => pair'[p].name \in Names /\ <<p, pair'[p].name>> \in Allowed
             /\ pair[p].st = "none" => pair'[p].st = "none"
      BY <2>1, <2>2, <3>5, <1>i
    <3> QED
      BY <2>1, <3>4, <3>6, <3>7, <3>8, <1>t, <1>k
  <2> QED
    BY <1>3, <2>3, <2>4 DEF P2p!Answered, P2p!Own
\* A step of the tasks that changes what they have heard, and no more.
<1>h. ASSUME pair' \in [Pairs -> Following(ever)],
             \A p \in Pairs : pair'[p].st = pair[p].st /\ pair'[p].outcome = pair[p].outcome /\ pair'[p].name = pair[p].name,
             reports' \in Seq(Report(ever)), UNCHANGED <<page, commands, sess, ever>>
      PROVE  P2pInv'
  <2>1. P2p!Asked \subseteq P2p!Asked'
    BY <1>h, <1>a
  <2>2. commands' \in Seq(Command(P2p!Asked'))
    BY <1>h, <2>1, <1>t, CommandsGrow
  <2> QED
    BY <1>h, <2>1, <2>2, <1>t, <1>i, <1>k
<1>4. ASSUME NEW q \in Pairs, P2p!Hears(q)
      PROVE  P2pInv'
  <2>1. UNCHANGED <<page, commands, sess, ever, reports>> /\ pair[q].inbox # <<>> /\ pair[q].st = "waiting"
    BY <1>4 DEF P2p!Hears, P2p!hostVars
  <2> DEFINE r == Head(pair[q].inbox)
  <2>2. pair[q].inbox \in Seq(Report(ever))
    BY <1>t DEF Following
  <2>3. r \in Report(ever) /\ Tail(pair[q].inbox) \in Seq(Report(ever))
    BY <2>1, <2>2, ReportSeq
  <2>4. pair' = IF r[1] # pair[q].name THEN [pair EXCEPT ![q].inbox = Tail(@)]
                ELSE P2p!Outcome(q, IF r[2] = "up" THEN "connected" ELSE "unreachable")
    BY <1>4 DEF P2p!Hears, P2p!Own
  <2>5. r[2] = "up" => r[1] \in ever
    BY <2>3 DEF Report
  <2> HIDE DEF r
  <2>6. CASE r[1] # pair[q].name
    <3>1. pair' = [pair EXCEPT ![q].inbox = Tail(@)]
      BY <2>4, <2>6
    <3>2. pair' \in [Pairs -> Following(ever)]
      BY <3>1, <2>3, <1>t DEF Following
    <3>3. \A p \in Pairs : pair'[p].st = pair[p].st /\ pair'[p].outcome = pair[p].outcome /\ pair'[p].name = pair[p].name
      BY <3>1, <1>t DEF Following
    <3> QED
      BY <2>1, <3>2, <3>3, <1>t, <1>h
  <2>7. CASE r[1] = pair[q].name /\ r[2] = "up"
    BY <2>1, <2>4, <2>5, <2>7, <1>o, <1>t
  <2>8. CASE r[1] = pair[q].name /\ r[2] # "up"
    BY <2>1, <2>4, <2>8, <1>o, <1>t
  <2> QED
    BY <2>6, <2>7, <2>8
<1>5. ASSUME NEW q \in Pairs, P2p!GiveUp(q)
      PROVE  P2pInv'
  <2>0. pair[q].st = "waiting" /\ pair[q].name \in Names
    BY <1>5, <1>i DEF P2p!GiveUp
  <2>1. <<"close", pair[q].name>> \in Command(P2p!Asked)
    BY <1>0, <2>0 DEF Command
  <2>2. commands' \in Seq(Command(P2p!Asked))
    BY <1>5, <2>1, <1>t DEF P2p!GiveUp, P2p!Sends, P2p!Own
  <2>3. pair' = P2p!Outcome(q, "unreachable") /\ UNCHANGED <<page, sess, ever, reports>>
    BY <1>5 DEF P2p!GiveUp, P2p!hostVars
  <2> QED
    BY <2>0, <2>2, <2>3, <1>o
<1>6. ASSUME P2p!Broadcast
      PROVE  P2pInv'
  <2>1. UNCHANGED <<page, commands, sess, ever>> /\ reports # <<>> /\ reports' = Tail(reports)
    BY <1>6 DEF P2p!Broadcast, P2p!hostVars
  <2>2. Head(reports) \in Report(ever) /\ reports' \in Seq(Report(ever))
    BY <2>1, <1>t, ReportSeq
  <2> DEFINE h(p) == P2p!Kept(Append(pair[p].inbox, Head(reports)))
  <2>3. ASSUME NEW p \in Pairs
        PROVE  h(p) \in Seq(Report(ever))
    <3>1. pair[p].inbox \in Seq(Report(ever))
      BY <1>t DEF Following
    <3>2. Append(pair[p].inbox, Head(reports)) \in Seq(Report(ever))
      BY <3>1, <2>2, ReportSeq
    <3> QED
      BY <3>2, ReportSeq
  <2>4. pair' = [p \in Pairs |-> IF pair[p].st = "waiting" THEN [pair[p] EXCEPT !.inbox = h(p)] ELSE pair[p]]
    BY <1>6 DEF P2p!Broadcast
  <2> HIDE DEF h
  <2>5. ASSUME NEW p \in Pairs
        PROVE  /\ pair'[p] \in Following(ever) /\ pair'[p].st = pair[p].st
               /\ pair'[p].outcome = pair[p].outcome /\ pair'[p].name = pair[p].name
    BY <2>3, <2>4, <1>t DEF Following
  <2>6. pair' \in [Pairs -> Following(ever)]
    BY <2>4, <2>5
  <2> QED
    BY <2>1, <2>2, <2>5, <2>6, <1>h
\* A step of the host, which leaves the tasks as they are.
<1>l. ASSUME UNCHANGED pair, page \subseteq page', commands' \in Seq(Command(P2p!Asked)),
             sess' \in [P2p!Peer -> {"none", "setup", "up"}],
             ever \subseteq ever', ever' \subseteq P2p!Peer, reports' \in Seq(Report(ever')),
             \A n \in Names : sess'[n] # "none" \/ n \in ever' => sess[n] # "none" \/ n \in ever \/ n \in P2p!Asked
      PROVE  P2pInv'
  <2>1. P2p!Asked' = P2p!Asked
    BY <1>l, <1>s
  <2>2. Following(ever) \subseteq Following(ever')
    BY <1>l, <1>t, ReportsGrow
  <2>3. pair' \in [Pairs -> Following(ever')]
    BY <1>l, <2>2, <1>t
  <2>4. \A q \in Pairs :
           /\ pair'[q].outcome = "connected" => pair'[q].st = "done" /\ pair'[q].name \in ever'
           /\ pair'[q].st \in {"asking", "waiting"} => pair'[q].name \in Names /\ <<q, pair'[q].name>> \in Allowed
           /\ pair[q].st = "none" => pair'[q].st = "none"
    BY <1>l, <1>i
  <2> QED
    BY <1>l, <2>1, <2>3, <2>4, <1>k
<1>7. ASSUME NEW p \in P2p!Peer, P2p!Ends(p), commands' \in Seq(Command(P2p!Asked)), UNCHANGED <<page, pair, ever>>
      PROVE  P2pInv'
  <2>1. <<p, "down">> \in Report(ever)
    BY DEF Report
  <2>2. reports' \in Seq(Report(ever)) /\ sess' = [sess EXCEPT ![p] = "none"]
    BY <2>1, <1>7, <1>t, ReportSeq DEF P2p!Ends
  <2>3. sess' \in [P2p!Peer -> {"none", "setup", "up"}] /\ \A n \in Names : sess'[n] # "none" => sess[n] # "none"
    BY <2>2, <1>0, <1>t
  <2> QED
    BY <1>7, <2>2, <2>3, <1>t, <1>l
<1>8. ASSUME NEW p \in P2p!Peer, p \in Names => p \in P2p!Asked, sess' = [sess EXCEPT ![p] = "setup"],
             commands' \in Seq(Command(P2p!Asked)), page \subseteq page', UNCHANGED <<pair, ever, reports>>
      PROVE  P2pInv'
  <2>1. /\ sess' \in [P2p!Peer -> {"none", "setup", "up"}]
        /\ \A n \in Names : sess'[n] # "none" => sess[n] # "none" \/ n = p
    BY <1>8, <1>0, <1>t
  <2> QED
    BY <1>8, <2>1, <1>t, <1>l
<1>9. ASSUME P2p!OnCommand
      PROVE  P2pInv'
  <2> DEFINE c == Head(commands)
  <2>1. UNCHANGED <<page, pair, ever>> /\ commands # <<>> /\ commands' = Tail(commands)
    BY <1>9 DEF P2p!OnCommand, P2p!parkVars
  <2>2. c \in Command(P2p!Asked) /\ commands' \in Seq(Command(P2p!Asked))
    BY <2>1, <1>t
  <2>3. c[2] \in P2p!Peer /\ (c[1] # "close" /\ c[2] \in Names => c[2] \in P2p!Asked)
    BY <2>2 DEF Command
  <2>4. \/ c[1] # "close" /\ P2p!OpenSession(c[2])
        \/ c[1] = "close" /\ sess[c[2]] # "none" /\ P2p!Ends(c[2])
        \/ c[1] = "close" /\ sess[c[2]] = "none" /\ UNCHANGED <<sess, reports>>
    BY <1>9 DEF P2p!OnCommand
  <2> HIDE DEF c
  <2>5. CASE c[1] # "close" /\ P2p!OpenSession(c[2])
    <3>1. CASE reports' = Append(reports, <<c[2], "down">>) /\ UNCHANGED sess
      <4>1. <<c[2], "down">> \in Report(ever)
        BY <2>3 DEF Report
      <4>2. reports' \in Seq(Report(ever))
        BY <4>1, <3>1, <1>t, ReportSeq
      <4> QED
        BY <2>1, <2>2, <3>1, <4>2, <1>t, <1>l
    <3>2. CASE sess' = [sess EXCEPT ![c[2]] = "setup"] /\ UNCHANGED reports
      BY <2>1, <2>2, <2>3, <2>5, <3>2, <1>8
    <3> QED
      BY <2>5, <3>1, <3>2 DEF P2p!OpenSession
  <2>6. CASE P2p!Ends(c[2])
    BY <2>1, <2>2, <2>3, <2>6, <1>7
  <2>7. CASE UNCHANGED <<sess, reports>>
    BY <2>1, <2>2, <2>7, <1>t, <1>l
  <2> QED
    BY <2>4, <2>5, <2>6, <2>7
<1>10. ASSUME NEW p \in P2p!Peer, P2p!Connected(p)
       PROVE  P2pInv'
  <2>1. /\ sess[p] = "setup" /\ sess' = [sess EXCEPT ![p] = "up"] /\ ever' = ever \cup {p}
        /\ reports' = Append(reports, <<p, "up">>) /\ UNCHANGED <<page, pair, commands>>
    BY <1>10 DEF P2p!Connected, P2p!parkVars
  <2>2. ever' \subseteq P2p!Peer /\ ever \subseteq ever'
    BY <2>1, <1>t
  <2>3. Seq(Report(ever)) \subseteq Seq(Report(ever'))
    BY <2>2, <1>t, ReportsGrow
  <2>4. <<p, "up">> \in Report(ever')
    BY <2>1 DEF Report
  <2>5. reports \in Seq(Report(ever'))
    BY <2>3, <1>t
  <2>6. reports' \in Seq(Report(ever'))
    BY <2>1, <2>4, <2>5, ReportSeq
  <2>7. sess' \in [P2p!Peer -> {"none", "setup", "up"}]
    BY <2>1, <1>t
  <2>8. \A n \in Names : sess'[n] # "none" \/ n \in ever' => sess[n] # "none" \/ n \in ever
    BY <2>1, <1>0, <1>t
  <2> QED
    BY <2>1, <2>2, <2>6, <2>7, <2>8, <1>t, <1>l
<1>11. ASSUME NEW p \in Direct, P2p!DirectSession(p)
       PROVE  P2pInv'
  BY <1>11, <1>8, <1>0, <1>t DEF P2p!DirectSession
<1>12. ASSUME NEW p \in P2p!Peer, P2p!NotAdmitted(p) \/ P2p!NeverConnected(p) \/ P2p!Disconnected(p)
       PROVE  P2pInv'
  BY <1>12, <1>7, <1>t DEF P2p!NotAdmitted, P2p!NeverConnected, P2p!Disconnected, P2p!parkVars
<1>13. ASSUME NEW c \in Calls, P2p!PollCall(c) \/ P2p!SignalCall(c)
       PROVE  P2pInv'
  BY <1>13, <1>1 DEF P2p!PollCall, P2p!SignalCall, P2p!Sends, P2p!hostVars
<1> QED
  BY <1>2, <1>3, <1>4, <1>5, <1>6, <1>9, <1>10, <1>11, <1>12, <1>13 DEF P2p!Next, P2p!Parking, P2p!Hosting

\* What was told of a pairing is true and nobody is called whom the rule
\* forbids.
LEMMA P2pTells == P2pInv => P2p!ToldTrue /\ P2p!OnlyAllowed
  BY DEF P2pInv, P2p!ToldTrue, P2p!Own

(***************************************************************************)
(* The relay.                                                              *)
(***************************************************************************)

RelayTypes ==
    /\ ws \in [Relay!Sock -> Relay!Task] /\ lot \in Seq(Legs)
    /\ asks \in Seq(Relay!Sock) /\ queue \in Seq(Relay!Sock \cup {0})
    /\ replies \in Seq(Relay!Sock \X {"yes", "no"})

\* A websocket is asked about once: while its question is on the way to the
\* program nothing has been answered.
AskedOnce ==
    /\ \A i, j \in 1..Len(asks) : asks[i] = asks[j] => i = j
    /\ \A i, j \in 1..Len(queue) : queue[i] = queue[j] /\ queue[i] # 0 => i = j
    /\ \A i \in 1..Len(asks), j \in 1..Len(queue) : asks[i] # queue[j]
    /\ \A i \in 1..Len(asks) : ws[asks[i]].st # "none" /\ ws[asks[i]].said = "nothing"
    /\ \A i \in 1..Len(queue) : queue[i] # 0 => ws[queue[i]].st # "none" /\ ws[queue[i]].said = "nothing"

\* What the program answered is what its answers say, and what the relay
\* hears; and who goes on heard yes.
Answered ==
    /\ \A i \in 1..Len(replies) : ws[replies[i][1]].said = replies[i][2]
    /\ \A s \in Relay!Sock :
         /\ ws[s].heard = "yes" => ws[s].said = "yes"
         /\ ws[s].st \notin {"none", "asking", "shut"} => ws[s].said = "yes"
         /\ ws[s].st = "none" => ws[s].said = "nothing"

Unplaced == {"none", "asking", "let", "shut"}

\* A leg is once in the lot or with one caller, and was parked before.
PlacedOnce ==
    /\ \A i, j \in 1..Len(lot) : lot[i] = lot[j] => i = j
    /\ \A i \in 1..Len(lot) : ws[lot[i]].st \notin Unplaced /\ \A c \in Callers : ws[c].far # lot[i]
    /\ \A c \in Callers : ws[c].far # 0 =>
         /\ ws[c].st \in {"taken", "spliced", "over"} /\ ws[ws[c].far].st \notin Unplaced
         /\ \A d \in Callers : ws[d].far = ws[c].far => d = c

RelayInv == RelayTypes /\ AskedOnce /\ Answered /\ PlacedOnce

\* At first nobody dialled.
LEMMA RelayFirst == Relay!Init => RelayInv
<1> SUFFICES ASSUME Relay!Init
             PROVE  RelayInv
  OBVIOUS
<1>1. /\ ws = [s \in Relay!Sock |-> Relay!Fresh] /\ lot = <<>> /\ asks = <<>> /\ queue = <<>> /\ replies = <<>>
  BY DEF Relay!Init
<1>2. Relay!Fresh \in Relay!Task
  BY NetworkAssumption DEF Relay!Fresh, Relay!Task
<1>3. RelayTypes
  BY <1>1, <1>2 DEF RelayTypes
<1>4. \A s \in Relay!Sock : ws[s].st = "none" /\ ws[s].said = "nothing" /\ ws[s].heard = "nothing" /\ ws[s].far = 0
  BY <1>1 DEF Relay!Fresh
<1>5. Callers \subseteq Relay!Sock
  BY DEF Relay!Sock
<1> QED
  BY <1>1, <1>3, <1>4, <1>5 DEF RelayInv, AskedOnce, Answered, PlacedOnce

\* The parts of a task that a step of the splice leaves alone.
Later == {"listed", "parked", "leaving", "taken", "spliced", "over"}

\* A step in which tasks go on, and nobody is asked, answered, parked or taken.
LEMMA TasksGoOn ==
    ASSUME RelayInv, UNCHANGED <<lot, asks, queue, replies>>, ws' \in [Relay!Sock -> Relay!Task],
           \A s \in Relay!Sock :
              /\ ws'[s].heard = ws[s].heard /\ ws'[s].said = ws[s].said /\ ws'[s].far = ws[s].far
              /\ ws'[s].st = ws[s].st \/ (ws[s].st \in Later /\ ws'[s].st \in Later)
              /\ s \in Callers /\ ws[s].st \in {"taken", "spliced", "over"}
                   => ws'[s].st \in {"taken", "spliced", "over"}
    PROVE  RelayInv'
<1>0. Callers \subseteq Relay!Sock /\ Legs \subseteq Relay!Sock /\ 0 \notin Relay!Sock
  BY NetworkAssumption DEF Relay!Sock
<1>t. /\ lot \in Seq(Legs) /\ asks \in Seq(Relay!Sock) /\ queue \in Seq(Relay!Sock \cup {0})
      /\ replies \in Seq(Relay!Sock \X {"yes", "no"}) /\ ws \in [Relay!Sock -> Relay!Task]
  BY DEF RelayInv, RelayTypes
<1>1. RelayTypes'
  BY <1>t DEF RelayTypes
<1>2. \A s \in Relay!Sock : /\ ws'[s].st = "none" <=> ws[s].st = "none"
                            /\ ws'[s].st \in Unplaced <=> ws[s].st \in Unplaced
                            /\ ws'[s].st \in {"none", "asking", "shut"} <=> ws[s].st \in {"none", "asking", "shut"}
  BY DEF Later, Unplaced
<1>3. AskedOnce'
  <2>1. \A i \in 1..Len(asks) : asks[i] \in Relay!Sock
    BY <1>t
  <2>2. \A i \in 1..Len(queue) : queue[i] # 0 => queue[i] \in Relay!Sock
    BY <1>t
  <2> QED
    BY <1>2, <2>1, <2>2 DEF RelayInv, AskedOnce
<1>4. Answered'
  <2>1. \A i \in 1..Len(replies) : replies[i][1] \in Relay!Sock
    BY <1>t
  <2> QED
    BY <1>2, <2>1 DEF RelayInv, Answered
<1>5. PlacedOnce'
  <2>1. \A i \in 1..Len(lot) : lot[i] \in Relay!Sock
    BY <1>0, <1>t
  <2>2. \A c \in Callers : ws[c].far # 0 => ws[c].far \in Relay!Sock
    BY <1>0, <1>t DEF Relay!Task
  <2> QED
    BY <1>0, <1>2, <2>1, <2>2 DEF RelayInv, PlacedOnce
<1> QED
  BY <1>1, <1>3, <1>4, <1>5 DEF RelayInv

\* One task's step of that kind.
LEMMA TaskGoesOn ==
    ASSUME RelayInv, UNCHANGED <<lot, asks, queue, replies>>, NEW s \in Relay!Sock, NEW r \in Relay!Task,
           ws' = [ws EXCEPT ![s] = r],
           r.heard = ws[s].heard, r.said = ws[s].said, r.far = ws[s].far,
           r.st = ws[s].st \/ (ws[s].st \in Later /\ r.st \in Later),
           s \in Callers /\ ws[s].st \in {"taken", "spliced", "over"} => r.st \in {"taken", "spliced", "over"}
    PROVE  RelayInv'
<1>1. ws \in [Relay!Sock -> Relay!Task]
  BY DEF RelayInv, RelayTypes
<1>2. ws' \in [Relay!Sock -> Relay!Task] /\ \A q \in Relay!Sock : ws'[q] = IF q = s THEN r ELSE ws[q]
  BY <1>1
<1> QED
  BY <1>2, TasksGoOn

\* What the steps of the relay are made of.
LEMMA RelaySets ==
    ASSUME RelayInv
    PROVE  /\ Callers \subseteq Relay!Sock /\ Legs \subseteq Relay!Sock /\ 0 \notin Relay!Sock
           /\ Legs \cap Callers = {} /\ CHANNEL \in Nat /\ QueueCap \in Nat
           /\ lot \in Seq(Legs) /\ asks \in Seq(Relay!Sock) /\ queue \in Seq(Relay!Sock \cup {0})
           /\ replies \in Seq(Relay!Sock \X {"yes", "no"}) /\ ws \in [Relay!Sock -> Relay!Task]
  BY NetworkAssumption DEF Relay!Sock, RelayInv, RelayTypes

\* A websocket that was let in moves on, and a caller only past its claim.
LEMMA TaskMoves ==
    ASSUME RelayInv, NEW s \in Relay!Sock, UNCHANGED <<lot, asks, queue, replies>>,
           NEW st \in Later, Relay!Moves(s, st), ws[s].st \in Later,
           s \in Callers => st \in {"taken", "spliced", "over"}
    PROVE  RelayInv'
<1> DEFINE r == [ws[s] EXCEPT !.st = st]
<1>1. ws[s] \in Relay!Task
  BY RelaySets
<1>2. r \in Relay!Task /\ r.heard = ws[s].heard /\ r.said = ws[s].said /\ r.far = ws[s].far /\ r.st = st
  BY <1>1 DEF Relay!Task, Later
<1>3. ws' = [ws EXCEPT ![s] = r]
  BY DEF Relay!Moves, Relay!Sets
<1> HIDE DEF r
<1> QED
  BY <1>2, <1>3, TaskGoesOn

\* The steps of a parked leg but its sweep (park_leg).
LEMMA ParkSteps ==
    ASSUME RelayInv, NEW s \in Legs,
           \/ Relay!Announce(s) \/ Relay!DeviceByte(s) \/ Relay!DevicePush(s) \/ Relay!ToDevice(s)
           \/ Relay!DeviceTook(s) \/ Relay!HungUp(s) \/ Relay!DeviceGone(s) \/ Relay!ParkIdle(s)
    PROVE  RelayInv'
<1>0. s \in Relay!Sock /\ s \notin Callers /\ ws[s] \in Relay!Task /\ CHANNEL \in Nat
  BY RelaySets
<1>r. /\ ws[s].hold \in BOOLEAN /\ ws[s].claimed \in BOOLEAN
      /\ ws[s].toDevice \in 0..CHANNEL /\ ws[s].fromDevice \in 0..CHANNEL
  BY <1>0 DEF Relay!Task
<1>1. CASE Relay!Announce(s)
  BY <1>0, <1>1, TaskMoves DEF Relay!Announce, Relay!At, Relay!bridgeVars, Later
<1>2. CASE Relay!HungUp(s) \/ Relay!DeviceGone(s) \/ Relay!ParkIdle(s)
  BY <1>0, <1>2, TaskMoves DEF Relay!HungUp, Relay!DeviceGone, Relay!ParkIdle, Relay!Quiet, Relay!At, Relay!bridgeVars, Later
<1>3. CASE Relay!DeviceByte(s)
  <2> DEFINE r == [ws[s] EXCEPT !.claimed = TRUE, !.hold = TRUE]
  <2>1. ws' = [ws EXCEPT ![s] = r] /\ UNCHANGED <<lot, asks, queue, replies>>
    BY <1>3 DEF Relay!DeviceByte, Relay!Sets, Relay!Quiet, Relay!bridgeVars
  <2>2. r \in Relay!Task /\ r.heard = ws[s].heard /\ r.said = ws[s].said /\ r.far = ws[s].far /\ r.st = ws[s].st
    BY <1>0 DEF Relay!Task
  <2> HIDE DEF r
  <2> QED
    BY <1>0, <2>1, <2>2, TaskGoesOn
<1>4. CASE Relay!DevicePush(s)
  <2>0. UNCHANGED <<lot, asks, queue, replies>> /\ ws[s].st = "parked"
    BY <1>4 DEF Relay!DevicePush, Relay!Quiet, Relay!bridgeVars, Relay!At
  <2>1. CASE ws[s].fromDevice < CHANNEL /\ Relay!Sets(s, [ws[s] EXCEPT !.hold = FALSE, !.fromDevice = @ + 1])
    <3> DEFINE r == [ws[s] EXCEPT !.hold = FALSE, !.fromDevice = @ + 1]
    <3>1. ws' = [ws EXCEPT ![s] = r]
      BY <2>1 DEF Relay!Sets
    <3>2. ws[s].fromDevice + 1 \in 0..CHANNEL
      BY <1>0, <1>r, <2>1
    <3>3. r \in Relay!Task /\ r.heard = ws[s].heard /\ r.said = ws[s].said /\ r.far = ws[s].far /\ r.st = ws[s].st
      BY <1>0, <3>2 DEF Relay!Task
    <3> HIDE DEF r
    <3> QED
      BY <1>0, <2>0, <3>1, <3>3, TaskGoesOn
  <2>2. CASE Relay!Moves(s, "leaving")
    BY <1>0, <2>0, <2>2, TaskMoves DEF Later
  <2> QED
    BY <1>4, <2>1, <2>2 DEF Relay!DevicePush
<1>5. CASE Relay!ToDevice(s)
  <2>0. UNCHANGED <<lot, asks, queue, replies>> /\ ws[s].st = "parked" /\ ws[s].toDevice > 0
    BY <1>5 DEF Relay!ToDevice, Relay!Quiet, Relay!bridgeVars, Relay!At
  <2> DEFINE r == [ws[s] EXCEPT !.claimed = TRUE, !.toDevice = @ - 1, !.writes = TRUE]
  <2>1. ws' = [ws EXCEPT ![s] = r]
    BY <1>5 DEF Relay!ToDevice, Relay!Sets
  <2>2. ws[s].toDevice - 1 \in 0..CHANNEL
    BY <1>0, <1>r, <2>0
  <2>3. r \in Relay!Task /\ r.heard = ws[s].heard /\ r.said = ws[s].said /\ r.far = ws[s].far /\ r.st = ws[s].st
    BY <1>0, <2>2 DEF Relay!Task
  <2> HIDE DEF r
  <2> QED
    BY <1>0, <2>0, <2>1, <2>3, TaskGoesOn
<1>6. CASE Relay!DeviceTook(s)
  <2>0. UNCHANGED <<lot, asks, queue, replies>> /\ ws[s].st = "parked"
    BY <1>6 DEF Relay!DeviceTook, Relay!Quiet, Relay!bridgeVars, Relay!At
  <2>1. PICK st \in {"parked", "leaving"} : ws' = [ws EXCEPT ![s] = [ws[s] EXCEPT !.writes = FALSE, !.st = st]]
    BY <1>6 DEF Relay!DeviceTook, Relay!Sets
  <2> DEFINE r == [ws[s] EXCEPT !.writes = FALSE, !.st = st]
  <2>2. r \in Relay!Task /\ r.heard = ws[s].heard /\ r.said = ws[s].said /\ r.far = ws[s].far /\ r.st = st
    BY <1>0 DEF Relay!Task
  <2>3. st \in Later /\ ws[s].st \in Later
    BY <2>0 DEF Later
  <2>4. ws' = [ws EXCEPT ![s] = r]
    BY <2>1
  <2> HIDE DEF r
  <2> QED
    BY <1>0, <2>0, <2>2, <2>3, <2>4, TaskGoesOn
<1> QED
  BY <1>1, <1>2, <1>3, <1>4, <1>5, <1>6

\* The steps of a caller once it has its leg (claim_leg).
LEMMA ClaimSteps ==
    ASSUME RelayInv, NEW c \in Callers,
           \/ Relay!Claimed(c) \/ Relay!CallerByte(c) \/ Relay!CallerPush(c) \/ Relay!ToCaller(c)
           \/ Relay!CallerTook(c) \/ Relay!DeviceLeft(c) \/ Relay!CallerGone(c)
    PROVE  RelayInv'
<1>0. c \in Relay!Sock /\ ws[c] \in Relay!Task /\ CHANNEL \in Nat
  BY RelaySets
<1>1. CASE Relay!Claimed(c)
  BY <1>0, <1>1, TaskMoves DEF Relay!Claimed, Relay!At, Relay!bridgeVars, Later
<1>e. ASSUME ws[c].st = "spliced", Relay!Ends(c)
      PROVE  RelayInv'
  BY <1>0, <1>e, TaskMoves DEF Relay!Ends, Relay!bridgeVars, Later
<1>2. CASE Relay!DeviceLeft(c) \/ Relay!CallerGone(c)
  BY <1>2, <1>e DEF Relay!DeviceLeft, Relay!CallerGone, Relay!At
<1>3. CASE Relay!CallerByte(c)
  <2> DEFINE r == [ws[c] EXCEPT !.hold = TRUE]
  <2>1. ws' = [ws EXCEPT ![c] = r] /\ UNCHANGED <<lot, asks, queue, replies>>
    BY <1>3 DEF Relay!CallerByte, Relay!Sets, Relay!Quiet, Relay!bridgeVars
  <2>2. r \in Relay!Task /\ r.heard = ws[c].heard /\ r.said = ws[c].said /\ r.far = ws[c].far /\ r.st = ws[c].st
    BY <1>0 DEF Relay!Task
  <2> HIDE DEF r
  <2> QED
    BY <1>0, <2>1, <2>2, TaskGoesOn
<1> DEFINE l == ws[c].far
<1>f. l \in Legs \cup {0} /\ (l # 0 => l \in Relay!Sock /\ l # c /\ ws[l] \in Relay!Task)
  <2>1. l \in Legs \cup {0}
    BY <1>0 DEF Relay!Task
  <2> QED
    BY <2>1, RelaySets
<1>4. CASE Relay!CallerPush(c)
  <2>0. ws[c].st = "spliced"
    BY <1>4 DEF Relay!CallerPush, Relay!At
  <2>1. CASE /\ ws[l].toDevice < CHANNEL /\ UNCHANGED <<lot, asks, queue, replies>>
             /\ ws' = [ws EXCEPT ![c].hold = FALSE, ![l].toDevice = @ + 1]
    <3> DEFINE r == [ws[c] EXCEPT !.hold = FALSE]
    <3>1. r \in Relay!Task /\ r.heard = ws[c].heard /\ r.said = ws[c].said /\ r.far = ws[c].far /\ r.st = ws[c].st
      BY <1>0 DEF Relay!Task
    <3>2. CASE l = 0
      <4>1. ws' = [ws EXCEPT ![c] = r]
        BY <2>1, <3>2, RelaySets
      <4> HIDE DEF r
      <4> QED
        BY <1>0, <2>1, <3>1, <4>1, TaskGoesOn
    <3>3. CASE l # 0
      <4> DEFINE q == [ws[l] EXCEPT !.toDevice = @ + 1]
      <4>1. ws[l].toDevice + 1 \in 0..CHANNEL
        BY <1>0, <1>f, <2>1, <3>3 DEF Relay!Task
      <4>2. q \in Relay!Task /\ q.heard = ws[l].heard /\ q.said = ws[l].said /\ q.far = ws[l].far /\ q.st = ws[l].st
        BY <1>f, <3>3, <4>1 DEF Relay!Task
      <4>3. ws' = [[ws EXCEPT ![c] = r] EXCEPT ![l] = q]
        BY <1>0, <1>f, <2>1, <3>3, RelaySets
      <4> HIDE DEF q, r, l
      <4>4. /\ ws' \in [Relay!Sock -> Relay!Task]
            /\ \A p \in Relay!Sock : ws'[p] = IF p = l THEN q ELSE IF p = c THEN r ELSE ws[p]
        BY <1>0, <1>f, <3>1, <3>3, <4>2, <4>3, RelaySets
      <4>5. \A p \in Relay!Sock : /\ ws'[p].heard = ws[p].heard /\ ws'[p].said = ws[p].said
                                  /\ ws'[p].far = ws[p].far /\ ws'[p].st = ws[p].st
        BY <3>1, <4>2, <4>4
      <4> QED
        BY <2>1, <4>4, <4>5, TasksGoOn
    <3> QED
      BY <3>2, <3>3
  <2> QED
    BY <1>4, <1>e, <2>0, <2>1 DEF Relay!CallerPush, Relay!Far, Relay!Quiet, Relay!bridgeVars
<1>w. ASSUME NEW w \in BOOLEAN
      PROVE  /\ [ws[c] EXCEPT !.writes = w] \in Relay!Task
             /\ [ws[c] EXCEPT !.writes = w].heard = ws[c].heard /\ [ws[c] EXCEPT !.writes = w].said = ws[c].said
             /\ [ws[c] EXCEPT !.writes = w].far = ws[c].far /\ [ws[c] EXCEPT !.writes = w].st = ws[c].st
  BY <1>0 DEF Relay!Task
<1>5. CASE Relay!ToCaller(c)
  <2>0. ws[c].st = "spliced" /\ ws[l].fromDevice > 0 /\ UNCHANGED <<lot, asks, queue, replies>>
    BY <1>5 DEF Relay!ToCaller, Relay!At, Relay!Far, Relay!Quiet, Relay!bridgeVars
  <2>1. ws' = [ws EXCEPT ![l].fromDevice = @ - 1, ![c].writes = TRUE]
    BY <1>5 DEF Relay!ToCaller
  <2> DEFINE r == [ws[c] EXCEPT !.writes = TRUE]
  <2>2. r \in Relay!Task /\ r.heard = ws[c].heard /\ r.said = ws[c].said /\ r.far = ws[c].far /\ r.st = ws[c].st
    BY <1>w
  <2>3. CASE l = 0
    <3>1. ws' = [ws EXCEPT ![c] = r]
      BY <2>1, <2>3, RelaySets
    <3> HIDE DEF r
    <3> QED
      BY <1>0, <2>0, <2>2, <3>1, TaskGoesOn
  <2>4. CASE l # 0
    <3> DEFINE q == [ws[l] EXCEPT !.fromDevice = @ - 1]
    <3>1. ws[l].fromDevice - 1 \in 0..CHANNEL
      BY <1>0, <1>f, <2>0, <2>4 DEF Relay!Task
    <3>2. q \in Relay!Task /\ q.heard = ws[l].heard /\ q.said = ws[l].said /\ q.far = ws[l].far /\ q.st = ws[l].st
      BY <1>f, <2>4, <3>1 DEF Relay!Task
    <3>3. ws' = [[ws EXCEPT ![l] = q] EXCEPT ![c] = r]
      BY <1>0, <1>f, <2>1, <2>4, RelaySets
    <3> HIDE DEF q, r, l
    <3>4. /\ ws' \in [Relay!Sock -> Relay!Task]
          /\ \A p \in Relay!Sock : ws'[p] = IF p = c THEN r ELSE IF p = l THEN q ELSE ws[p]
      BY <1>0, <1>f, <2>2, <2>4, <3>2, <3>3, RelaySets
    <3>5. \A p \in Relay!Sock : /\ ws'[p].heard = ws[p].heard /\ ws'[p].said = ws[p].said
                                /\ ws'[p].far = ws[p].far /\ ws'[p].st = ws[p].st
      BY <2>2, <3>2, <3>4
    <3> QED
      BY <2>0, <3>4, <3>5, TasksGoOn
  <2> QED
    BY <2>3, <2>4
<1>6. CASE Relay!CallerTook(c)
  <2>0. ws[c].st = "spliced"
    BY <1>6 DEF Relay!CallerTook, Relay!At
  <2>1. CASE ws' = [ws EXCEPT ![c] = [ws[c] EXCEPT !.writes = FALSE]] /\ UNCHANGED <<lot, asks, queue, replies>>
    <3> DEFINE r == [ws[c] EXCEPT !.writes = FALSE]
    <3>1. r \in Relay!Task /\ r.heard = ws[c].heard /\ r.said = ws[c].said /\ r.far = ws[c].far /\ r.st = ws[c].st
      BY <1>w
    <3>2. ws' = [ws EXCEPT ![c] = r]
      BY <2>1
    <3> HIDE DEF r
    <3> QED
      BY <1>0, <2>1, <3>1, <3>2, TaskGoesOn
  <2> QED
    BY <1>6, <1>e, <2>0, <2>1 DEF Relay!CallerTook, Relay!Sets, Relay!Quiet, Relay!bridgeVars
<1> QED
  BY <1>1, <1>2, <1>3, <1>4, <1>5, <1>6

\* A task that starts to write to its peer.
LEMMA PingsKept ==
    ASSUME RelayInv, NEW s \in Relay!Sock, Relay!Pings(s)
    PROVE  RelayInv'
<1>1. ws[s] \in Relay!Task
  BY RelaySets
<1> DEFINE r == [ws[s] EXCEPT !.writes = TRUE]
<1>2. r \in Relay!Task /\ r.heard = ws[s].heard /\ r.said = ws[s].said /\ r.far = ws[s].far /\ r.st = ws[s].st
  BY <1>1 DEF Relay!Task
<1>3. ws' = [ws EXCEPT ![s] = r] /\ UNCHANGED <<lot, asks, queue, replies>>
  BY DEF Relay!Pings, Relay!Sets, Relay!Quiet, Relay!bridgeVars
<1> HIDE DEF r
<1> QED
  BY <1>2, <1>3, TaskGoesOn

\* The lot and its claims, in a step that neither parks nor claims.
LEMMA PlacedStays ==
    ASSUME RelayInv, lot' = lot,
           \A s \in Relay!Sock : /\ ws'[s].far = ws[s].far
                                 /\ ws[s].st \notin Unplaced => ws'[s].st = ws[s].st
    PROVE  PlacedOnce'
<1>1. \A i \in 1..Len(lot) : lot[i] \in Relay!Sock
  BY RelaySets
<1>2. \A c \in Callers : c \in Relay!Sock /\ (ws[c].far # 0 => ws[c].far \in Relay!Sock)
  BY RelaySets DEF Relay!Task
<1>3. \A c \in Callers : ws[c].far # 0 => ws[c].st \notin Unplaced
  BY DEF RelayInv, PlacedOnce, Unplaced
<1> QED
  BY <1>1, <1>2, <1>3 DEF RelayInv, PlacedOnce

\* A websocket is asked about when it dials, and was not before (handle).
LEMMA DialKept ==
    ASSUME RelayInv, NEW s \in Relay!Sock, Relay!Dial(s)
    PROVE  RelayInv'
<1>0. ws[s].st = "none" /\ UNCHANGED <<lot, queue, replies>> /\ ws[s] \in Relay!Task
  BY RelaySets DEF Relay!Dial, Relay!At
<1>1. PICK st \in {"asking", "shut"} :
          ws' = [ws EXCEPT ![s] = [ws[s] EXCEPT !.st = st]] /\ asks' = IF st = "asking" THEN Append(asks, s) ELSE asks
  BY DEF Relay!Dial, Relay!Moves, Relay!Sets
<1> DEFINE r == [ws[s] EXCEPT !.st = st]
<1>2. r \in Relay!Task /\ r.heard = ws[s].heard /\ r.said = ws[s].said /\ r.far = ws[s].far /\ r.st = st
  BY <1>0 DEF Relay!Task
<1>3. ws' = [ws EXCEPT ![s] = r]
  BY <1>1
<1> HIDE DEF r
<1>4. ws' \in [Relay!Sock -> Relay!Task] /\ \A p \in Relay!Sock : ws'[p] = IF p = s THEN r ELSE ws[p]
  BY <1>2, <1>3, RelaySets
<1>5. \A p \in Relay!Sock :
        /\ ws'[p].heard = ws[p].heard /\ ws'[p].said = ws[p].said /\ ws'[p].far = ws[p].far
        /\ ws'[p].st = IF p = s THEN st ELSE ws[p].st
  BY <1>2, <1>4
<1>6. ws[s].said = "nothing"
  BY <1>0 DEF RelayInv, Answered
<1>7. asks' \in Seq(Relay!Sock)
  BY <1>1, RelaySets
<1>8. RelayTypes'
  BY <1>0, <1>4, <1>7, RelaySets DEF RelayTypes
<1>9. Answered'
  <2>1. \A i \in 1..Len(replies) : replies[i][1] \in Relay!Sock
    BY RelaySets
  <2> QED
    BY <1>0, <1>5, <1>6, <2>1 DEF RelayInv, Answered
<1>10. PlacedOnce'
  BY <1>0, <1>5, PlacedStays DEF Unplaced
<1>11. AskedOnce'
  <2>1. /\ \A i \in 1..Len(asks) : asks[i] # s /\ asks[i] \in Relay!Sock
        /\ \A i \in 1..Len(queue) : queue[i] # s /\ (queue[i] # 0 => queue[i] \in Relay!Sock)
    BY <1>0, RelaySets, SMTT(30) DEF RelayInv, AskedOnce
  <2>2. CASE st = "shut"
    <3>1. asks' = asks
      BY <1>1, <2>2
    <3> QED
      BY <1>0, <1>5, <2>1, <3>1 DEF RelayInv, AskedOnce
  <2>3. CASE st = "asking"
    <3>1. asks' = Append(asks, s)
      BY <1>1, <2>3
    <3>2. /\ Len(asks') = Len(asks) + 1 /\ asks'[Len(asks) + 1] = s /\ Len(asks) \in Nat
          /\ \A i \in 1..Len(asks) : asks'[i] = asks[i]
      BY <3>1, RelaySets
    <3>3. \A i \in 1..Len(asks') : i \in 1..Len(asks) \/ i = Len(asks) + 1
      BY <3>2
    <3>4. \A i, j \in 1..Len(asks') : asks'[i] = asks'[j] => i = j
      BY <2>1, <3>2, <3>3 DEF RelayInv, AskedOnce
    <3>5. \A i \in 1..Len(asks'), j \in 1..Len(queue) : asks'[i] # queue[j]
      BY <2>1, <3>2, <3>3 DEF RelayInv, AskedOnce
    <3>6. \A i \in 1..Len(asks') : ws'[asks'[i]].st # "none" /\ ws'[asks'[i]].said = "nothing"
      BY <2>1, <2>3, <3>2, <3>3, <1>5, <1>6 DEF RelayInv, AskedOnce
    <3>7. \A i \in 1..Len(queue) : queue[i] # 0 => ws'[queue[i]].st # "none" /\ ws'[queue[i]].said = "nothing"
      BY <2>1, <1>5 DEF RelayInv, AskedOnce
    <3>8. \A i, j \in 1..Len(queue) : queue[i] = queue[j] /\ queue[i] # 0 => i = j
      BY DEF RelayInv, AskedOnce
    <3> QED
      BY <1>0, <3>4, <3>5, <3>6, <3>7, <3>8 DEF AskedOnce
  <2> QED
    BY <2>2, <2>3
<1> QED
  BY <1>8, <1>9, <1>10, <1>11 DEF RelayInv

\* A websocket goes on when it heard yes (Relay::admitted).
LEMMA AdmittedKept ==
    ASSUME RelayInv, NEW s \in Relay!Sock, Relay!Admitted(s)
    PROVE  RelayInv'
<1>0. ws[s].st = "asking" /\ UNCHANGED <<lot, asks, queue, replies>> /\ ws[s] \in Relay!Task
  BY RelaySets DEF Relay!Admitted, Relay!At, Relay!bridgeVars
<1>1. PICK st \in {"let", "shut"} :
          ws' = [ws EXCEPT ![s] = [ws[s] EXCEPT !.st = st]] /\ (st = "let" => ws[s].heard = "yes")
  BY DEF Relay!Admitted, Relay!Moves, Relay!Sets
<1> DEFINE r == [ws[s] EXCEPT !.st = st]
<1>2. r \in Relay!Task /\ r.heard = ws[s].heard /\ r.said = ws[s].said /\ r.far = ws[s].far /\ r.st = st
  BY <1>0 DEF Relay!Task
<1>3. ws' = [ws EXCEPT ![s] = r]
  BY <1>1
<1> HIDE DEF r
<1>4. ws' \in [Relay!Sock -> Relay!Task] /\ \A p \in Relay!Sock : ws'[p] = IF p = s THEN r ELSE ws[p]
  BY <1>2, <1>3, RelaySets
<1>5. \A p \in Relay!Sock :
        /\ ws'[p].heard = ws[p].heard /\ ws'[p].said = ws[p].said /\ ws'[p].far = ws[p].far
        /\ ws'[p].st = IF p = s THEN st ELSE ws[p].st
  BY <1>2, <1>4
<1>6. st = "let" => ws[s].said = "yes"
  BY <1>1 DEF RelayInv, Answered
<1>7. RelayTypes'
  BY <1>0, <1>4, RelaySets DEF RelayTypes
<1>8. Answered'
  <2>1. \A i \in 1..Len(replies) : replies[i][1] \in Relay!Sock
    BY RelaySets
  <2> QED
    BY <1>0, <1>1, <1>5, <1>6, <2>1 DEF RelayInv, Answered
<1>9. PlacedOnce'
  BY <1>0, <1>5, PlacedStays DEF Unplaced
<1>10. AskedOnce'
  <2>1. /\ \A i \in 1..Len(asks) : asks[i] \in Relay!Sock
        /\ \A i \in 1..Len(queue) : queue[i] # 0 => queue[i] \in Relay!Sock
    BY RelaySets
  <2> QED
    BY <1>0, <1>1, <1>5, <2>1 DEF RelayInv, AskedOnce
<1> QED
  BY <1>7, <1>8, <1>9, <1>10 DEF RelayInv

\* An event takes a place of the queue and asks nothing.
LEMMA DeliverEventKept ==
    ASSUME RelayInv, Relay!DeliverEvent
    PROVE  RelayInv'
<1>0. UNCHANGED <<ws, lot, asks, replies>> /\ queue' = IF Len(queue) < QueueCap THEN Append(queue, 0) ELSE queue
  BY DEF Relay!DeliverEvent
<1>1. queue' \in Seq(Relay!Sock \cup {0})
  BY <1>0, RelaySets
<1>2. \A i \in 1..Len(queue') : queue'[i] # 0 => i \in 1..Len(queue) /\ queue'[i] = queue[i]
  <2>1. CASE queue' = queue
    BY <2>1
  <2>2. CASE queue' = Append(queue, 0)
    <3>1. queue \in Seq(Relay!Sock \cup {0}) /\ Len(queue) \in Nat
      BY RelaySets
    <3>2. Len(queue') = Len(queue) + 1 /\ queue'[Len(queue) + 1] = 0 /\ \A i \in 1..Len(queue) : queue'[i] = queue[i]
      BY <2>2, <3>1
    <3>3. \A i \in 1..Len(queue') : i \in 1..Len(queue) \/ i = Len(queue) + 1
      BY <3>1, <3>2
    <3> QED
      BY <3>2, <3>3
  <2> QED
    BY <1>0, <2>1, <2>2
<1>3. RelayTypes'
  BY <1>0, <1>1, RelaySets DEF RelayTypes
<1>4. \A i \in 1..Len(asks) : asks[i] # 0
  BY RelaySets
<1>5. AskedOnce'
  BY <1>0, <1>2, <1>4 DEF RelayInv, AskedOnce
<1>6. Answered' /\ PlacedOnce'
  BY <1>0 DEF RelayInv, Answered, PlacedOnce
<1> QED
  BY <1>3, <1>5, <1>6 DEF RelayInv

\* A sequence without its first element, or with one more.
LEMMA QueueSteps ==
    ASSUME NEW X, NEW s \in Seq(X)
    PROVE  /\ s # <<>> => /\ Head(s) = s[1] /\ 1 \in 1..Len(s) /\ Tail(s) \in Seq(X) /\ Len(Tail(s)) = Len(s) - 1
                          /\ \A i \in 1..Len(Tail(s)) : Tail(s)[i] = s[i + 1] /\ i + 1 \in 1..Len(s)
           /\ \A x \in X : /\ Append(s, x) \in Seq(X) /\ Len(Append(s, x)) = Len(s) + 1
                           /\ Append(s, x)[Len(s) + 1] = x
                           /\ \A i \in 1..Len(s) : Append(s, x)[i] = s[i]
                           /\ \A i \in 1..Len(Append(s, x)) : i \in 1..Len(s) \/ i = Len(s) + 1
  OBVIOUS

\* The oldest question is asked of nobody else, and goes.
LEMMA FirstAsk ==
    ASSUME RelayInv, asks # <<>>
    PROVE  /\ Head(asks) \in Relay!Sock /\ Tail(asks) \in Seq(Relay!Sock)
           /\ \A i \in 1..Len(Tail(asks)) : Tail(asks)[i] = asks[i + 1] /\ i + 1 \in 1..Len(asks) /\ Tail(asks)[i] # Head(asks)
           /\ \A i \in 1..Len(queue) : queue[i] # Head(asks)
           /\ ws[Head(asks)].st # "none" /\ ws[Head(asks)].said = "nothing"
<1>1. /\ Head(asks) = asks[1] /\ 1 \in 1..Len(asks) /\ Tail(asks) \in Seq(Relay!Sock)
      /\ \A i \in 1..Len(Tail(asks)) : Tail(asks)[i] = asks[i + 1] /\ i + 1 \in 1..Len(asks)
  BY RelaySets, QueueSteps
<1>2. \A i \in 1..Len(Tail(asks)) : i + 1 # 1
  OBVIOUS
<1>3. Head(asks) \in Relay!Sock
  BY <1>1, RelaySets
<1> QED
  BY <1>1, <1>2, <1>3 DEF RelayInv, AskedOnce

\* A question passes from the relay to the queue, or is answered no
\* (RelayBridge::deliver).
LEMMA DeliverAskKept ==
    ASSUME RelayInv, Relay!DeliverAsk
    PROVE  RelayInv'
<1> DEFINE s == Head(asks)
<1>0. asks # <<>> /\ asks' = Tail(asks) /\ Relay!Ask(s) /\ UNCHANGED <<lot, replies>>
  BY DEF Relay!DeliverAsk
<1>1. /\ s \in Relay!Sock /\ asks' \in Seq(Relay!Sock)
      /\ \A i \in 1..Len(asks') : asks'[i] = asks[i + 1] /\ i + 1 \in 1..Len(asks) /\ asks'[i] # s
      /\ \A i \in 1..Len(queue) : queue[i] # s
      /\ ws[s].st # "none" /\ ws[s].said = "nothing"
  BY <1>0, FirstAsk
<1>2. /\ \A i, j \in 1..Len(asks') : asks'[i] = asks'[j] => i = j
      /\ \A i \in 1..Len(asks'), j \in 1..Len(queue) : asks'[i] # queue[j]
      /\ \A i \in 1..Len(asks') : asks'[i] \in Relay!Sock /\ ws[asks'[i]].st # "none" /\ ws[asks'[i]].said = "nothing"
  <2>1. \A i, j \in 1..Len(asks') : i + 1 = j + 1 => i = j
    OBVIOUS
  <2> HIDE DEF s
  <2> QED
    BY <1>1, <2>1, RelaySets DEF RelayInv, AskedOnce
<1> HIDE DEF s
<1>3. CASE queue' = Append(queue, s) /\ UNCHANGED ws
  <2>1. /\ queue' \in Seq(Relay!Sock \cup {0}) /\ Len(queue') = Len(queue) + 1 /\ queue'[Len(queue) + 1] = s
        /\ \A i \in 1..Len(queue) : queue'[i] = queue[i]
        /\ \A i \in 1..Len(queue') : i \in 1..Len(queue) \/ i = Len(queue) + 1
    BY <1>1, <1>3, RelaySets, QueueSteps
  <2>2. RelayTypes'
    BY <1>0, <1>1, <1>3, <2>1, RelaySets DEF RelayTypes
  <2>3. \A i, j \in 1..Len(queue') : queue'[i] = queue'[j] /\ queue'[i] # 0 => i = j
    BY <1>1, <2>1 DEF RelayInv, AskedOnce
  <2>4. \A i \in 1..Len(asks'), j \in 1..Len(queue') : asks'[i] # queue'[j]
    BY <1>1, <1>2, <2>1
  <2>5. \A i \in 1..Len(queue') : queue'[i] # 0 => ws[queue'[i]].st # "none" /\ ws[queue'[i]].said = "nothing"
    BY <1>1, <2>1 DEF RelayInv, AskedOnce
  <2>6. AskedOnce'
    BY <1>2, <1>3, <2>3, <2>4, <2>5 DEF AskedOnce
  <2>7. Answered' /\ PlacedOnce'
    BY <1>0, <1>3 DEF RelayInv, Answered, PlacedOnce
  <2> QED
    BY <2>2, <2>6, <2>7 DEF RelayInv
<1>4. CASE ws' = [ws EXCEPT ![s] = [ws[s] EXCEPT !.heard = "no"]] /\ UNCHANGED queue
  <2> DEFINE r == [ws[s] EXCEPT !.heard = "no"]
  <2>1. ws[s] \in Relay!Task
    BY <1>1, RelaySets
  <2>2. r \in Relay!Task /\ r.heard = "no" /\ r.said = ws[s].said /\ r.far = ws[s].far /\ r.st = ws[s].st
    BY <2>1 DEF Relay!Task
  <2>3. ws' = [ws EXCEPT ![s] = r]
    BY <1>4
  <2> HIDE DEF r
  <2>4. ws' \in [Relay!Sock -> Relay!Task] /\ \A p \in Relay!Sock : ws'[p] = IF p = s THEN r ELSE ws[p]
    BY <2>2, <2>3, RelaySets
  <2>5. \A p \in Relay!Sock :
          /\ ws'[p].heard = IF p = s THEN "no" ELSE ws[p].heard
          /\ ws'[p].said = ws[p].said /\ ws'[p].far = ws[p].far /\ ws'[p].st = ws[p].st
    BY <2>2, <2>4
  <2>6. RelayTypes'
    BY <1>0, <1>1, <1>4, <2>4, RelaySets DEF RelayTypes
  <2>7. AskedOnce'
    <3>1. \A i \in 1..Len(queue) : queue[i] # 0 => queue[i] \in Relay!Sock
      BY RelaySets
    <3>2. \A i, j \in 1..Len(queue) : queue[i] = queue[j] /\ queue[i] # 0 => i = j
      BY DEF RelayInv, AskedOnce
    <3>3. \A i \in 1..Len(queue) : queue[i] # 0 => ws'[queue[i]].st # "none" /\ ws'[queue[i]].said = "nothing"
      BY <3>1, <2>5 DEF RelayInv, AskedOnce
    <3>4. \A i \in 1..Len(asks') : ws'[asks'[i]].st # "none" /\ ws'[asks'[i]].said = "nothing"
      BY <1>2, <2>5
    <3> QED
      BY <1>2, <1>4, <3>2, <3>3, <3>4 DEF AskedOnce
  <2>8. Answered'
    <3>1. \A i \in 1..Len(replies) : replies[i][1] \in Relay!Sock
      BY RelaySets
    <3> QED
      BY <1>0, <2>5, <3>1 DEF RelayInv, Answered
  <2>9. PlacedOnce'
    BY <1>0, <2>5, PlacedStays
  <2> QED
    BY <2>6, <2>7, <2>8, <2>9 DEF RelayInv
<1> QED
  BY <1>0, <1>3, <1>4 DEF Relay!Ask, Relay!Sets

\* An answer is heard by the websocket it names (RelayBridge::collect).
LEMMA CollectKept ==
    ASSUME RelayInv, Relay!Collect
    PROVE  RelayInv'
<1> DEFINE s == Head(replies)[1]
<1> DEFINE ok == Head(replies)[2]
<1>0. replies # <<>> /\ replies' = Tail(replies) /\ UNCHANGED <<lot, asks, queue>>
  BY DEF Relay!Collect
<1>1. /\ Head(replies) = replies[1] /\ 1 \in 1..Len(replies) /\ replies' \in Seq(Relay!Sock \X {"yes", "no"})
      /\ \A i \in 1..Len(replies') : replies'[i] = replies[i + 1] /\ i + 1 \in 1..Len(replies)
  BY <1>0, RelaySets, QueueSteps
<1>2. s \in Relay!Sock /\ ok \in {"yes", "no"} /\ ws[s].said = ok
  BY <1>1, RelaySets DEF RelayInv, Answered
<1>3. ws' = ws \/ ws' = [ws EXCEPT ![s] = [ws[s] EXCEPT !.heard = ok]]
  BY DEF Relay!Collect, Relay!Sets
<1> HIDE DEF s, ok
<1>4. CASE ws' = ws
  <2>1. RelayTypes'
    BY <1>0, <1>1, <1>4, RelaySets DEF RelayTypes
  <2>2. AskedOnce' /\ PlacedOnce'
    BY <1>0, <1>4 DEF RelayInv, AskedOnce, PlacedOnce
  <2>3. Answered'
    BY <1>1, <1>4 DEF RelayInv, Answered
  <2> QED
    BY <2>1, <2>2, <2>3 DEF RelayInv
<1>5. CASE ws' = [ws EXCEPT ![s] = [ws[s] EXCEPT !.heard = ok]]
  <2> DEFINE r == [ws[s] EXCEPT !.heard = ok]
  <2>1. ws[s] \in Relay!Task
    BY <1>2, RelaySets
  <2>2. r \in Relay!Task /\ r.heard = ok /\ r.said = ws[s].said /\ r.far = ws[s].far /\ r.st = ws[s].st
    BY <1>2, <2>1 DEF Relay!Task
  <2>3. ws' = [ws EXCEPT ![s] = r]
    BY <1>5
  <2> HIDE DEF r
  <2>4. ws' \in [Relay!Sock -> Relay!Task] /\ \A p \in Relay!Sock : ws'[p] = IF p = s THEN r ELSE ws[p]
    BY <2>2, <2>3, RelaySets
  <2>5. \A p \in Relay!Sock :
          /\ ws'[p].heard = IF p = s THEN ok ELSE ws[p].heard
          /\ ws'[p].said = ws[p].said /\ ws'[p].far = ws[p].far /\ ws'[p].st = ws[p].st
    BY <2>2, <2>4
  <2>6. RelayTypes'
    BY <1>0, <1>1, <2>4, RelaySets DEF RelayTypes
  <2>7. AskedOnce'
    <3>1. /\ \A i \in 1..Len(asks) : asks[i] \in Relay!Sock
          /\ \A i \in 1..Len(queue) : queue[i] # 0 => queue[i] \in Relay!Sock
      BY RelaySets
    <3> QED
      BY <1>0, <2>5, <3>1, SMTT(30) DEF RelayInv, AskedOnce
  <2>8. Answered'
    <3>1. \A i \in 1..Len(replies) : replies[i][1] \in Relay!Sock
      BY RelaySets
    <3>2. \A i \in 1..Len(replies') : ws'[replies'[i][1]].said = replies'[i][2]
      BY <1>1, <2>5, <3>1 DEF RelayInv, Answered
    <3> QED
      BY <1>2, <2>5, <3>2 DEF RelayInv, Answered
  <2>9. PlacedOnce'
    BY <1>0, <2>5, PlacedStays
  <2> QED
    BY <2>6, <2>7, <2>8, <2>9 DEF RelayInv
<1> QED
  BY <1>3, <1>4, <1>5

\* The program reads one entry of its queue and answers it, or not.
LEMMA ProgramKept ==
    ASSUME RelayInv, Relay!Program
    PROVE  RelayInv'
<1> DEFINE s == Head(queue)
<1>0. queue # <<>> /\ queue' = Tail(queue) /\ UNCHANGED <<lot, asks>>
  BY DEF Relay!Program
<1>1. /\ s = queue[1] /\ 1 \in 1..Len(queue) /\ queue' \in Seq(Relay!Sock \cup {0})
      /\ \A i \in 1..Len(queue') : queue'[i] = queue[i + 1] /\ i + 1 \in 1..Len(queue) /\ i + 1 # 1
  BY <1>0, RelaySets, QueueSteps
<1>2. s # 0 => /\ s \in Relay!Sock /\ ws[s].said = "nothing" /\ ws[s].st # "none"
               /\ \A i \in 1..Len(queue') : queue'[i] # s
               /\ \A i \in 1..Len(asks) : asks[i] # s
  <2> HIDE DEF s
  <2> QED
    BY <1>1, RelaySets DEF RelayInv, AskedOnce
<1>3. /\ \A i, j \in 1..Len(queue') : queue'[i] = queue'[j] /\ queue'[i] # 0 => i = j
      /\ \A i \in 1..Len(asks), j \in 1..Len(queue') : asks[i] # queue'[j]
      /\ \A i \in 1..Len(queue') : queue'[i] # 0 => /\ queue'[i] \in Relay!Sock
                                                   /\ ws[queue'[i]].st # "none" /\ ws[queue'[i]].said = "nothing"
  <2> HIDE DEF s
  <2>1. \A i, j \in 1..Len(queue') : queue'[i] = queue'[j] /\ queue'[i] # 0 => i = j
    <3> SUFFICES ASSUME NEW i \in 1..Len(queue'), NEW j \in 1..Len(queue'), queue'[i] = queue'[j], queue'[i] # 0
                 PROVE  i = j
      OBVIOUS
    <3>1. i + 1 = j + 1
      BY <1>1 DEF RelayInv, AskedOnce
    <3> QED
      BY <3>1
  <2>2. \A i \in 1..Len(asks), j \in 1..Len(queue') : asks[i] # queue'[j]
    BY <1>1, SMTT(30) DEF RelayInv, AskedOnce
  <2>3. \A i \in 1..Len(queue') : queue'[i] # 0 => /\ queue'[i] \in Relay!Sock
                                                    /\ ws[queue'[i]].st # "none" /\ ws[queue'[i]].said = "nothing"
    BY <1>1, RelaySets, SMTT(30) DEF RelayInv, AskedOnce
  <2> QED
    BY <2>1, <2>2, <2>3
<1>4. \/ UNCHANGED <<ws, replies>>
      \/ \E ok \in {"yes", "no"} : /\ s # 0 /\ replies' = Append(replies, <<s, ok>>)
                                   /\ ws' = [ws EXCEPT ![s] = [ws[s] EXCEPT !.said = ok]]
  BY DEF Relay!Program, Relay!Sets
<1> HIDE DEF s
<1>5. CASE UNCHANGED <<ws, replies>>
  <2>1. RelayTypes'
    BY <1>0, <1>1, <1>5, RelaySets DEF RelayTypes
  <2>2. AskedOnce'
    BY <1>0, <1>3, <1>5 DEF RelayInv, AskedOnce
  <2>3. Answered' /\ PlacedOnce'
    BY <1>0, <1>5 DEF RelayInv, Answered, PlacedOnce
  <2> QED
    BY <2>1, <2>2, <2>3 DEF RelayInv
<1>6. ASSUME NEW ok \in {"yes", "no"}, s # 0, replies' = Append(replies, <<s, ok>>),
             ws' = [ws EXCEPT ![s] = [ws[s] EXCEPT !.said = ok]]
      PROVE  RelayInv'
  <2> DEFINE r == [ws[s] EXCEPT !.said = ok]
  <2>1. ws[s] \in Relay!Task
    BY <1>2, <1>6, RelaySets
  <2>2. r \in Relay!Task /\ r.heard = ws[s].heard /\ r.said = ok /\ r.far = ws[s].far /\ r.st = ws[s].st
    BY <2>1 DEF Relay!Task
  <2>3. ws' = [ws EXCEPT ![s] = r]
    BY <1>6
  <2> HIDE DEF r
  <2>4. ws' \in [Relay!Sock -> Relay!Task] /\ \A p \in Relay!Sock : ws'[p] = IF p = s THEN r ELSE ws[p]
    BY <2>2, <2>3, RelaySets
  <2>5. \A p \in Relay!Sock :
          /\ ws'[p].said = IF p = s THEN ok ELSE ws[p].said
          /\ ws'[p].heard = ws[p].heard /\ ws'[p].far = ws[p].far /\ ws'[p].st = ws[p].st
    BY <2>2, <2>4
  <2>6. <<s, ok>> \in Relay!Sock \X {"yes", "no"}
    BY <1>2, <1>6
  <2>7. /\ replies' \in Seq(Relay!Sock \X {"yes", "no"}) /\ replies'[Len(replies) + 1] = <<s, ok>>
        /\ \A i \in 1..Len(replies) : replies'[i] = replies[i]
        /\ \A i \in 1..Len(replies') : i \in 1..Len(replies) \/ i = Len(replies) + 1
    BY <1>6, <2>6, RelaySets, QueueSteps
  <2>8. RelayTypes'
    BY <1>0, <1>1, <2>4, <2>7, RelaySets DEF RelayTypes
  <2>9. AskedOnce'
    <3>1. \A i \in 1..Len(asks) : asks[i] \in Relay!Sock
      BY RelaySets
    <3>2. \A i \in 1..Len(asks) : ws'[asks[i]].st # "none" /\ ws'[asks[i]].said = "nothing"
      BY <1>2, <1>6, <2>5, <3>1 DEF RelayInv, AskedOnce
    <3>3. \A i \in 1..Len(queue') : queue'[i] # 0 => ws'[queue'[i]].st # "none" /\ ws'[queue'[i]].said = "nothing"
      BY <1>2, <1>3, <1>6, <2>5
    <3>4. \A i, j \in 1..Len(asks) : asks[i] = asks[j] => i = j
      BY DEF RelayInv, AskedOnce
    <3> QED
      BY <1>0, <1>3, <3>2, <3>3, <3>4 DEF AskedOnce
  <2>10. Answered'
    <3>1. \A i \in 1..Len(replies) : replies[i][1] \in Relay!Sock /\ replies[i][2] \in {"yes", "no"}
      BY RelaySets
    <3>2. \A i \in 1..Len(replies) : replies[i][1] # s
      BY <1>2, <1>6, <3>1 DEF RelayInv, Answered
    <3>3. \A i \in 1..Len(replies') : ws'[replies'[i][1]].said = replies'[i][2]
      <4>1. \A i \in 1..Len(replies) : ws'[replies'[i][1]].said = replies'[i][2]
        BY <2>5, <2>7, <3>1, <3>2 DEF RelayInv, Answered
      <4>2. ws'[<<s, ok>>[1]].said = <<s, ok>>[2]
        BY <1>2, <1>6, <2>5
      <4> QED
        BY <2>7, <4>1, <4>2
    <3>4. ws[s].heard # "yes" /\ ws[s].st \in {"none", "asking", "shut"} /\ ws[s].st # "none"
      BY <1>2, <1>6 DEF RelayInv, Answered
    <3> QED
      BY <2>5, <3>3, <3>4 DEF RelayInv, Answered
  <2>11. PlacedOnce'
    BY <1>0, <2>5, PlacedStays
  <2> QED
    BY <2>8, <2>9, <2>10, <2>11 DEF RelayInv
<1> QED
  BY <1>4, <1>5, <1>6

\* Questions and answers, in a step that leaves them alone.
LEMMA AskedStays ==
    ASSUME RelayInv, UNCHANGED <<asks, queue, replies>>,
           \A s \in Relay!Sock :
              /\ ws'[s].heard = ws[s].heard /\ ws'[s].said = ws[s].said
              /\ ws'[s].st = "none" <=> ws[s].st = "none"
              /\ ws'[s].st \notin {"none", "asking", "shut"} => ws[s].st \notin {"none", "asking", "shut"}
    PROVE  AskedOnce' /\ Answered'
<1>1. /\ \A i \in 1..Len(asks) : asks[i] \in Relay!Sock
      /\ \A i \in 1..Len(queue) : queue[i] # 0 => queue[i] \in Relay!Sock
      /\ \A i \in 1..Len(replies) : replies[i][1] \in Relay!Sock
  BY RelaySets
<1>2. AskedOnce'
  BY <1>1 DEF RelayInv, AskedOnce
<1>3. Answered'
  BY <1>1 DEF RelayInv, Answered
<1> QED
  BY <1>2, <1>3

\* A leg let in joins the lot, where it was not.
LEMMA ParkKept ==
    ASSUME RelayInv, NEW s \in Legs, Relay!Park(s)
    PROVE  RelayInv'
<1>0. /\ ws[s].st = "let" /\ lot' = Append(lot, s) /\ UNCHANGED <<asks, queue, replies>>
      /\ s \in Relay!Sock /\ s # 0 /\ s \notin Callers /\ ws[s] \in Relay!Task
  BY RelaySets DEF Relay!Park, Relay!At, Relay!bridgeVars
<1> DEFINE r == [ws[s] EXCEPT !.st = "listed"]
<1>1. r \in Relay!Task /\ r.heard = ws[s].heard /\ r.said = ws[s].said /\ r.far = ws[s].far /\ r.st = "listed"
  BY <1>0 DEF Relay!Task
<1>2. ws' = [ws EXCEPT ![s] = r]
  BY DEF Relay!Park, Relay!Moves, Relay!Sets
<1> HIDE DEF r
<1>3. ws' \in [Relay!Sock -> Relay!Task] /\ \A p \in Relay!Sock : ws'[p] = IF p = s THEN r ELSE ws[p]
  BY <1>1, <1>2, RelaySets
<1>4. \A p \in Relay!Sock :
        /\ ws'[p].heard = ws[p].heard /\ ws'[p].said = ws[p].said /\ ws'[p].far = ws[p].far
        /\ ws'[p].st = IF p = s THEN "listed" ELSE ws[p].st
  BY <1>1, <1>3
<1>5. /\ lot' \in Seq(Legs) /\ Len(lot') = Len(lot) + 1 /\ lot'[Len(lot) + 1] = s
      /\ \A i \in 1..Len(lot) : lot'[i] = lot[i]
      /\ \A i \in 1..Len(lot') : i \in 1..Len(lot) \/ i = Len(lot) + 1
  BY <1>0, RelaySets, QueueSteps
<1>6. RelayTypes'
  BY <1>0, <1>3, <1>5, RelaySets DEF RelayTypes
<1>7. AskedOnce' /\ Answered'
  BY <1>0, <1>4, AskedStays
<1>8. PlacedOnce'
  <2>1. /\ \A i \in 1..Len(lot) : lot[i] \in Relay!Sock /\ lot[i] # s
        /\ \A c \in Callers : c \in Relay!Sock /\ c # s /\ ws[c].far # s /\ (ws[c].far # 0 => ws[c].far \in Relay!Sock)
    <3>1. \A i \in 1..Len(lot) : lot[i] \in Relay!Sock /\ lot[i] # s
      BY <1>0, RelaySets DEF RelayInv, PlacedOnce, Unplaced
    <3>2. \A c \in Callers : c \in Relay!Sock /\ (ws[c].far # 0 => ws[c].far \in Relay!Sock)
      BY RelaySets DEF Relay!Task
    <3>3. \A c \in Callers : ws[c].far # s
      BY <1>0 DEF RelayInv, PlacedOnce, Unplaced
    <3> QED
      BY <1>0, <3>1, <3>2, <3>3
  <2>2. \A i, j \in 1..Len(lot') : lot'[i] = lot'[j] => i = j
    BY <1>5, <2>1 DEF RelayInv, PlacedOnce
  <2>3. \A i \in 1..Len(lot) : ws'[lot[i]].st \notin Unplaced /\ \A c \in Callers : ws'[c].far # lot[i]
    BY <1>4, <2>1 DEF RelayInv, PlacedOnce
  <2>4. ws'[s].st \notin Unplaced /\ \A c \in Callers : ws'[c].far # s
    BY <1>0, <1>4, <2>1 DEF Unplaced
  <2>5. \A i \in 1..Len(lot') : ws'[lot'[i]].st \notin Unplaced /\ \A c \in Callers : ws'[c].far # lot'[i]
    BY <1>5, <2>3, <2>4
  <2>6. \A c \in Callers : ws'[c].far # 0 =>
           /\ ws'[c].st \in {"taken", "spliced", "over"} /\ ws'[ws'[c].far].st \notin Unplaced
           /\ \A d \in Callers : ws'[d].far = ws'[c].far => d = c
    BY <1>4, <2>1 DEF RelayInv, PlacedOnce
  <2> QED
    BY <2>2, <2>5, <2>6 DEF PlacedOnce
<1> QED
  BY <1>6, <1>7, <1>8 DEF RelayInv

\* The caller takes the oldest leg, and the lot has it no more.
LEMMA ClaimKept ==
    ASSUME RelayInv, NEW c \in Callers, Relay!Claim(c)
    PROVE  RelayInv'
<1>0. /\ ws[c].st = "let" /\ UNCHANGED <<asks, queue, replies>>
      /\ c \in Relay!Sock /\ c \notin Legs /\ ws[c] \in Relay!Task
  BY RelaySets DEF Relay!Claim, Relay!At, Relay!bridgeVars
<1>far. ws[c].far = 0
  BY <1>0 DEF RelayInv, PlacedOnce
<1>said. ws[c].said = "yes"
  BY <1>0 DEF RelayInv, Answered
<1>1. CASE lot = <<>>
  <2> DEFINE r == [ws[c] EXCEPT !.st = "shut"]
  <2>1. r \in Relay!Task /\ r.heard = ws[c].heard /\ r.said = ws[c].said /\ r.far = ws[c].far /\ r.st = "shut"
    BY <1>0 DEF Relay!Task
  <2>2. ws' = [ws EXCEPT ![c] = r] /\ lot' = lot
    BY <1>1 DEF Relay!Claim, Relay!Moves, Relay!Sets
  <2> HIDE DEF r
  <2>3. ws' \in [Relay!Sock -> Relay!Task] /\ \A p \in Relay!Sock : ws'[p] = IF p = c THEN r ELSE ws[p]
    BY <1>0, <2>1, <2>2, RelaySets
  <2>4. \A p \in Relay!Sock :
          /\ ws'[p].heard = ws[p].heard /\ ws'[p].said = ws[p].said /\ ws'[p].far = ws[p].far
          /\ ws'[p].st = IF p = c THEN "shut" ELSE ws[p].st
    BY <2>1, <2>3
  <2>5. RelayTypes'
    BY <1>0, <2>2, <2>3, RelaySets DEF RelayTypes
  <2>6. AskedOnce' /\ Answered'
    BY <1>0, <2>4, AskedStays
  <2>7. PlacedOnce'
    BY <1>0, <2>2, <2>4, PlacedStays DEF Unplaced
  <2> QED
    BY <2>5, <2>6, <2>7 DEF RelayInv
<1>2. CASE lot # <<>>
  <2> DEFINE l == Head(lot)
  <2> DEFINE r == [ws[c] EXCEPT !.st = "taken", !.far = l]
  <2>1. /\ l = lot[1] /\ 1 \in 1..Len(lot) /\ lot' = Tail(lot) /\ lot' \in Seq(Legs) /\ l \in Legs
        /\ \A i \in 1..Len(lot') : lot'[i] = lot[i + 1] /\ i + 1 \in 1..Len(lot) /\ i + 1 # 1
    <3>1. lot' = Tail(lot)
      BY <1>2 DEF Relay!Claim
    <3>2. lot \in Seq(Legs) /\ lot # <<>>
      BY <1>2, RelaySets
    <3>3. /\ Head(lot) = lot[1] /\ 1 \in 1..Len(lot) /\ Tail(lot) \in Seq(Legs)
          /\ \A i \in 1..Len(Tail(lot)) : Tail(lot)[i] = lot[i + 1] /\ i + 1 \in 1..Len(lot)
      BY <3>2, QueueSteps
    <3>4. lot[1] \in Legs
      BY <3>2, <3>3
    <3>5. \A i \in 1..Len(lot') : i + 1 # 1
      OBVIOUS
    <3> QED
      BY <3>1, <3>3, <3>4, <3>5
  <2>2. ws' = [ws EXCEPT ![c] = r]
    BY <1>2 DEF Relay!Claim, Relay!Sets
  <2> HIDE DEF l
  <2>3. r \in Relay!Task /\ r.heard = ws[c].heard /\ r.said = ws[c].said /\ r.far = l /\ r.st = "taken"
    BY <1>0, <2>1 DEF Relay!Task
  <2> HIDE DEF r
  <2>4. ws' \in [Relay!Sock -> Relay!Task] /\ \A p \in Relay!Sock : ws'[p] = IF p = c THEN r ELSE ws[p]
    BY <1>0, <2>2, <2>3, RelaySets
  <2>5. \A p \in Relay!Sock :
          /\ ws'[p].heard = ws[p].heard /\ ws'[p].said = ws[p].said
          /\ ws'[p].far = IF p = c THEN l ELSE ws[p].far
          /\ ws'[p].st = IF p = c THEN "taken" ELSE ws[p].st
    BY <2>3, <2>4
  <2>6. RelayTypes'
    BY <1>0, <2>1, <2>4, RelaySets DEF RelayTypes
  <2>7. AskedOnce' /\ Answered'
    BY <1>0, <2>5, AskedStays
  <2>8. PlacedOnce'
    <3>1. /\ \A i \in 1..Len(lot) : lot[i] \in Relay!Sock /\ lot[i] # c
          /\ \A d \in Callers : d \in Relay!Sock /\ (ws[d].far # 0 => ws[d].far \in Relay!Sock /\ ws[d].far # c)
      BY <1>0, RelaySets, SMTT(30) DEF Relay!Task
    <3>2. \A i \in 1..Len(lot') : lot'[i] # l
      BY <2>1 DEF RelayInv, PlacedOnce
    <3>3. \A i, j \in 1..Len(lot') : lot'[i] = lot'[j] => i = j
      <4> SUFFICES ASSUME NEW i \in 1..Len(lot'), NEW j \in 1..Len(lot'), lot'[i] = lot'[j]
                   PROVE  i = j
        OBVIOUS
      <4>1. i + 1 = j + 1
        BY <2>1 DEF RelayInv, PlacedOnce
      <4> QED
        BY <4>1
    <3>4. \A i \in 1..Len(lot') : ws'[lot'[i]].st \notin Unplaced /\ \A d \in Callers : ws'[d].far # lot'[i]
      <4> SUFFICES ASSUME NEW i \in 1..Len(lot')
                   PROVE  ws'[lot'[i]].st \notin Unplaced /\ \A d \in Callers : ws'[d].far # lot'[i]
        OBVIOUS
      <4>1. /\ lot'[i] \in Relay!Sock /\ lot'[i] # c /\ ws[lot'[i]].st \notin Unplaced
            /\ \A d \in Callers : ws[d].far # lot'[i]
        BY <2>1, <3>1 DEF RelayInv, PlacedOnce
      <4> QED
        BY <2>5, <3>1, <3>2, <4>1
    <3>5. l \in Relay!Sock /\ l # c /\ l # 0 /\ ws[l].st \notin Unplaced /\ \A d \in Callers : ws[d].far # l
      BY <2>1, <3>1, RelaySets DEF RelayInv, PlacedOnce
    <3>6. \A d \in Callers : ws'[d].far # 0 =>
             /\ ws'[d].st \in {"taken", "spliced", "over"} /\ ws'[ws'[d].far].st \notin Unplaced
             /\ \A e \in Callers : ws'[e].far = ws'[d].far => e = d
      <4> SUFFICES ASSUME NEW d \in Callers, ws'[d].far # 0
                   PROVE  /\ ws'[d].st \in {"taken", "spliced", "over"} /\ ws'[ws'[d].far].st \notin Unplaced
                          /\ \A e \in Callers : ws'[e].far = ws'[d].far => e = d
        OBVIOUS
      <4>1. CASE d = c
        BY <2>5, <3>1, <3>5, <4>1
      <4>2. CASE d # c
        <5>1. ws'[d].far = ws[d].far /\ ws'[d].st = ws[d].st
          BY <2>5, <3>1, <4>2
        <5>2. ws[d].far # l /\ ws[d].far # c /\ ws[d].far \in Relay!Sock
          BY <3>1, <3>5, <5>1
        <5>3. ws'[ws[d].far].st = ws[ws[d].far].st
          BY <2>5, <5>2
        <5>4. \A e \in Callers : ws'[e].far = ws[d].far => ws[e].far = ws[d].far
          BY <2>5, <3>1, <5>2
        <5> QED
          BY <5>1, <5>3, <5>4 DEF RelayInv, PlacedOnce
      <4> QED
        BY <4>1, <4>2
    <3> QED
      BY <3>3, <3>4, <3>6 DEF PlacedOnce
  <2> QED
    BY <2>6, <2>7, <2>8 DEF RelayInv
<1> QED
  BY <1>1, <1>2

\* The sweep keeps legs of the lot, each once.
LEMMA LivingPicks ==
    ASSUME lot \in Seq(Legs)
    PROVE  Relay!Living(lot) \in Seq(Legs)
           /\ \E g : Picked(lot, {i \in 1..Len(lot) : ~Relay!At(lot[i], "over")}, Relay!Living(lot), g)
<1> DEFINE at == {i \in 1..Len(lot) : ~Relay!At(lot[i], "over")}
<1> DEFINE Kept(f) == f = [i \in 0..Len(lot) |->
             IF i = 0 THEN <<>> ELSE IF Relay!At(lot[i], "over") THEN f[i - 1] ELSE Append(f[i - 1], lot[i])]
<1>1. Len(lot) \in Nat
  OBVIOUS
<1>2. ASSUME NEW f
      PROVE  Kept(f) <=> Filter(lot, at, f)
  <2>1. \A i \in 0..Len(lot) : i # 0 => (i \in at <=> ~Relay!At(lot[i], "over"))
    BY <1>1
  <2> HIDE DEF at
  <2>2. [i \in 0..Len(lot) |->
           IF i = 0 THEN <<>> ELSE IF Relay!At(lot[i], "over") THEN f[i - 1] ELSE Append(f[i - 1], lot[i])]
        = [i \in 0..Len(lot) |->
             IF i = 0 THEN <<>> ELSE IF i \in at THEN Append(f[i - 1], lot[i]) ELSE f[i - 1]]
    BY <2>1
  <2> QED
    BY <2>2 DEF Filter
<1>3. \E f : Kept(f)
  <2>1. PICK f : Filter(lot, at, f)
    BY <1>1, FilterExists
  <2> HIDE DEF Kept, at
  <2> QED
    BY <1>2, <2>1
<1> DEFINE F == CHOOSE f : Kept(f)
<1>4. Kept(F)
  <2> HIDE DEF Kept
  <2> QED
    BY <1>3
<1>5. Relay!Living(lot) = F[Len(lot)]
  BY DEF Relay!Living
<1>6. Filter(lot, at, F)
  <2> HIDE DEF Kept, at, F
  <2> QED
    BY <1>2, <1>4
<1>7. at \in SUBSET (1..Len(lot))
  OBVIOUS
<1> HIDE DEF at, F
<1>8. F[Len(lot)] \in Seq(Legs) /\ \E g : Picked(lot, at, F[Len(lot)], g)
  BY <1>6, <1>7, FilterPicks
<1> QED
  BY <1>5, <1>8 DEF at

\* A sweep takes legs out of the lot and adds none.
LEMMA SweepKept ==
    ASSUME RelayInv, NEW s \in Legs, Relay!Sweep(s)
    PROVE  RelayInv'
<1>0. /\ ws[s].st = "leaving" /\ lot' = Relay!Living(lot) /\ UNCHANGED <<asks, queue, replies>>
      /\ s \in Relay!Sock /\ s \notin Callers /\ ws[s] \in Relay!Task
  BY RelaySets DEF Relay!Sweep, Relay!At, Relay!bridgeVars
<1> DEFINE r == [ws[s] EXCEPT !.st = "over"]
<1>1. r \in Relay!Task /\ r.heard = ws[s].heard /\ r.said = ws[s].said /\ r.far = ws[s].far /\ r.st = "over"
  BY <1>0 DEF Relay!Task
<1>2. ws' = [ws EXCEPT ![s] = r]
  BY DEF Relay!Sweep, Relay!Moves, Relay!Sets
<1> HIDE DEF r
<1>3. ws' \in [Relay!Sock -> Relay!Task] /\ \A p \in Relay!Sock : ws'[p] = IF p = s THEN r ELSE ws[p]
  BY <1>1, <1>2, RelaySets
<1>4. \A p \in Relay!Sock :
        /\ ws'[p].heard = ws[p].heard /\ ws'[p].said = ws[p].said /\ ws'[p].far = ws[p].far
        /\ ws'[p].st = IF p = s THEN "over" ELSE ws[p].st
  BY <1>1, <1>3
<1> DEFINE at == {i \in 1..Len(lot) : ~Relay!At(lot[i], "over")}
<1>5. lot' \in Seq(Legs) /\ \E g : Picked(lot, at, lot', g)
  BY <1>0, RelaySets, LivingPicks
<1>6. PICK g : Picked(lot, at, lot', g)
  BY <1>5
<1>7. /\ \A i \in 1..Len(lot') : g[i] \in 1..Len(lot) /\ lot'[i] = lot[g[i]]
      /\ \A i, j \in 1..Len(lot') : i < j => g[i] < g[j]
  BY <1>6 DEF Picked
<1> HIDE DEF at
<1>8. RelayTypes'
  BY <1>0, <1>3, <1>5, RelaySets DEF RelayTypes
<1>9. AskedOnce' /\ Answered'
  BY <1>0, <1>4, AskedStays
<1>10. PlacedOnce'
  <2>1. \A i \in 1..Len(lot) : lot[i] \in Relay!Sock
    BY RelaySets
  <2>2. \A c \in Callers : c \in Relay!Sock /\ (ws[c].far # 0 => ws[c].far \in Relay!Sock)
    BY RelaySets DEF Relay!Task
  <2>3. \A i, j \in 1..Len(lot') : lot'[i] = lot'[j] => i = j
    <3> SUFFICES ASSUME NEW i \in 1..Len(lot'), NEW j \in 1..Len(lot'), lot'[i] = lot'[j], i < j
                 PROVE  FALSE
      OBVIOUS
    <3>1. g[i] = g[j]
      BY <1>7 DEF RelayInv, PlacedOnce
    <3>2. g[i] < g[j] /\ g[i] \in Int /\ g[j] \in Int
      BY <1>7
    <3> QED
      BY <3>1, <3>2
  <2>4. \A i \in 1..Len(lot') : ws'[lot'[i]].st \notin Unplaced /\ \A c \in Callers : ws'[c].far # lot'[i]
    <3> SUFFICES ASSUME NEW i \in 1..Len(lot')
                 PROVE  ws'[lot'[i]].st \notin Unplaced /\ \A c \in Callers : ws'[c].far # lot'[i]
      OBVIOUS
    <3>1. lot'[i] \in Relay!Sock /\ ws[lot'[i]].st \notin Unplaced /\ \A c \in Callers : ws[c].far # lot'[i]
      BY <1>7, <2>1 DEF RelayInv, PlacedOnce
    <3> QED
      BY <1>4, <2>2, <3>1 DEF Unplaced
  <2>5. \A c \in Callers : ws'[c].far # 0 =>
           /\ ws'[c].st \in {"taken", "spliced", "over"} /\ ws'[ws'[c].far].st \notin Unplaced
           /\ \A d \in Callers : ws'[d].far = ws'[c].far => d = c
    BY <1>0, <1>4, <2>2 DEF RelayInv, PlacedOnce, Unplaced
  <2> QED
    BY <2>3, <2>4, <2>5 DEF PlacedOnce
<1> QED
  BY <1>8, <1>9, <1>10 DEF RelayInv

\* Every step of the relay keeps its invariant.
LEMMA RelayKept ==
    ASSUME RelayInv, Relay!Next
    PROVE  RelayInv'
<1>0. Callers \subseteq Relay!Sock /\ Legs \subseteq Relay!Sock
  BY RelaySets
<1>1. CASE Relay!Device \/ \E c \in Callers : Relay!Dial(c)
  BY <1>0, <1>1, DialKept DEF Relay!Device
<1>2. CASE \E s \in Relay!Sock : Relay!Admitted(s) \/ Relay!Pings(s)
  BY <1>2, AdmittedKept, PingsKept
<1>3. CASE Relay!DeliverEvent \/ Relay!DeliverAsk \/ Relay!Collect \/ Relay!Program
  BY <1>3, DeliverEventKept, DeliverAskKept, CollectKept, ProgramKept
<1>4. CASE \E s \in Legs : Relay!Park(s) \/ Relay!ParkTask(s) \/ Relay!DeviceTook(s) \/ Relay!DeviceByte(s) \/ Relay!DeviceGone(s) \/ Relay!ParkIdle(s)
  BY <1>4, ParkKept, ParkSteps, SweepKept DEF Relay!ParkTask
<1>5. CASE \E c \in Callers : Relay!Claim(c) \/ Relay!ClaimTask(c) \/ Relay!CallerTook(c) \/ Relay!CallerByte(c) \/ Relay!CallerGone(c)
  BY <1>5, ClaimKept, ClaimSteps DEF Relay!ClaimTask
<1> QED
  BY <1>1, <1>2, <1>3, <1>4, <1>5 DEF Relay!Next

\* A set with at most one element.
LEMMA AtMostOne ==
    ASSUME NEW S, \A x, y \in S : x = y
    PROVE  Cardinality(S) \in {0, 1} /\ (Cardinality(S) = 1 => S # {})
<1>1. CASE S = {}
  BY <1>1, FS_EmptySet
<1>2. CASE S # {}
  <2>1. PICK x \in S : TRUE
    BY <1>2
  <2>2. S = {x}
    BY <2>1
  <2> QED
    BY <2>2, FS_Singleton
<1> QED
  BY <1>1, <1>2

\* The relay counts as FiniteSets does.
LEMMA SameCardinality == \A S : Relay!Cardinality(S) = Cardinality(S)
  BY Zenon DEF Relay!Cardinality, Cardinality

\* A leg is with one caller at most, and who goes on was admitted.
LEMMA RelayTells == RelayInv => Relay!OneCaller /\ Relay!OnlyAdmitted
<1> SUFFICES ASSUME RelayInv
             PROVE  Relay!OneCaller /\ Relay!OnlyAdmitted
  OBVIOUS
<1>1. Relay!OnlyAdmitted
  BY DEF RelayInv, Answered, Relay!OnlyAdmitted
<1>2. ASSUME NEW s \in Legs
      PROVE  Cardinality({i \in DOMAIN lot : lot[i] = s}) + Cardinality(Relay!Claimers(s)) <= 1
  <2> DEFINE L == {i \in DOMAIN lot : lot[i] = s}
  <2> DEFINE C == Relay!Claimers(s)
  <2>0. DOMAIN lot = 1..Len(lot) /\ s # 0
    BY RelaySets
  <2>1. \A i, j \in L : i = j
    BY <2>0 DEF RelayInv, PlacedOnce
  <2>2. \A c, d \in C : c = d
    BY <2>0 DEF RelayInv, PlacedOnce, Relay!Claimers
  <2>3. L = {} \/ C = {}
    BY <2>0 DEF RelayInv, PlacedOnce, Relay!Claimers
  <2> HIDE DEF L, C
  <2>4. /\ Cardinality(L) \in {0, 1} /\ (Cardinality(L) = 1 => L # {})
        /\ Cardinality(C) \in {0, 1} /\ (Cardinality(C) = 1 => C # {})
    BY <2>1, <2>2, AtMostOne
  <2>5. Cardinality(L) + Cardinality(C) <= 1
    BY <2>3, <2>4
  <2> QED
    BY <2>5 DEF L, C
<1>3. Relay!OneCaller
  BY <1>2, SameCardinality, Zenon DEF Relay!OneCaller
<1> QED
  BY <1>1, <1>3

(***************************************************************************)
(* The streams.                                                            *)
(***************************************************************************)

UpPacket   == [k : {"connect", "end", "close"}, s : Streams] \cup [k : {"data"}, s : Streams, n : Nat]
DownPacket == [k : {"data", "end", "close"}, s : Streams] \cup [k : {"continue"}, s : Streams, n : Nat]

CallEntry  == [st : {"none", "open", "gone"}, remaining : Nat, queued : Seq(Nat), wrote : Nat,
               eof : BOOLEAN, reads : BOOLEAN]
ServeEntry == [st : {"none", "dialling", "open", "gone"}, early : Seq(Nat), toTcp : BOOLEAN, queued : Nat, since : Nat,
               endedIn : BOOLEAN, endedOut : BOOLEAN, work : Seq(Nat), writer : BOOLEAN, reader : BOOLEAN,
               opened : Nat, closed : Nat]
Words      == {"connected", "failed", "bytes", "written", "done", "broken"}
Target     == [got : Seq(Nat), ended : BOOLEAN]

\* The numbers the caller still holds are the last it wrote.
CallFine(c) ==
    /\ Len(c.queued) <= c.wrote /\ (c.st = "none" => c.wrote = 0)
    /\ \A i \in 1..Len(c.queued) : c.queued[i] = (c.wrote - Len(c.queued)) + i
Sent(c) == c.wrote - Len(c.queued)

\* What the host took of a stream is written, in its work, or kept for the
\* target that is being dialled, in this order and without a gap.
InOrderOf(e, t) ==
    /\ \A i \in 1..Len(t.got) : t.got[i] = i
    /\ \A i \in 1..Len(e.work) : e.work[i] = Len(t.got) + i
    /\ \A i \in 1..Len(e.early) : e.early[i] = Len(t.got) + Len(e.work) + i
TakenOf(e, t) == Len(t.got) + Len(e.work) + Len(e.early)

\* A stream is opened once, when its dial is answered, and closed once.
StageOf(e, m, t) ==
    /\ e.st = "none" => m = <<>> /\ e.opened = 0
    /\ e.st \in {"none", "dialling"} => t.got = <<>> /\ e.work = <<>>
    /\ e.st \in {"none", "open"} => e.early = <<>>
    /\ e.st = "dialling" => /\ m \in {<<>>, <<"connected">>, <<"failed">>} /\ e.opened = 0
                            /\ ~e.toTcp /\ ~e.writer /\ ~e.reader
    /\ e.st = "open" => (e.toTcp \/ e.endedIn) /\ \A i \in 1..Len(m) : m[i] # "connected"
    /\ e.toTcp => ~e.endedIn
    /\ e.opened <= 1 /\ e.closed = IF e.st = "gone" THEN 1 ELSE 0

ServeFine(e, m, t) == InOrderOf(e, t) /\ StageOf(e, m, t)

\* The packet that opens a stream comes once and before the stream's others.
Connects(u, i, s) == u[i].k = "connect" /\ u[i].s = s
Opening(u, s, unused, unheard) ==
    /\ \A i \in 1..Len(u) : Connects(u, i, s) => unheard
    /\ \A i, j \in 1..Len(u) : Connects(u, i, s) /\ Connects(u, j, s) => i = j
    /\ unused => unheard /\ \A i \in 1..Len(u) : u[i].s # s
    /\ unheard /\ ~unused => \E j \in 1..Len(u) : Connects(u, j, s) /\ \A i \in 1..Len(u) : u[i].s = s => j <= i

\* The data of a stream on its way up is numbered x + 1, ..., y.
Holds(u, i, s) == u[i].k = "data" /\ u[i].s = s
Line(u, s, x, y) ==
    /\ x <= y
    /\ \A i \in 1..Len(u) : Holds(u, i, s) => x < u[i].n /\ u[i].n <= y
    /\ \A i, j \in 1..Len(u) : Holds(u, i, s) /\ Holds(u, j, s) /\ i < j => u[i].n < u[j].n
    /\ \A m \in Nat : x < m /\ m <= y => \E i \in 1..Len(u) : Holds(u, i, s) /\ u[i].n = m

\* The host still takes what comes of a stream.
Takes(e) == e.st = "none" \/ (e.st \in {"dialling", "open"} /\ ~e.endedIn)

OnTheWay(u, s, c, e, t) ==
    /\ Opening(u, s, c.st = "none", e.st = "none")
    /\ Takes(e) => Line(u, s, TakenOf(e, t), Sent(c))

WispTypes ==
    /\ up \in Seq(UpPacket) /\ down \in Seq(DownPacket) /\ Len(down) <= ROOM /\ outbox \in Seq(DownPacket)
    /\ call \in [Streams -> CallEntry] /\ serve \in [Streams -> ServeEntry]
    /\ said \in [Streams -> Seq(Words)] /\ target \in [Streams -> Target]

WispInv ==
    /\ WispTypes
    /\ \A s \in Streams : CallFine(call[s]) /\ ServeFine(serve[s], said[s], target[s])
    /\ live = "up" => \A s \in Streams : OnTheWay(up, s, call[s], serve[s], target[s])
    /\ live # "up" => \A s \in Streams : serve[s].st \in {"none", "gone"}

\* What a sequence of packets followed by others has at an index.
LEMMA Joined ==
    ASSUME NEW S, NEW u \in Seq(S), NEW w \in Seq(S)
    PROVE  /\ u \o w \in Seq(S) /\ Len(u \o w) = Len(u) + Len(w)
           /\ \A i \in 1..Len(u) : i \in 1..Len(u \o w) /\ (u \o w)[i] = u[i]
           /\ \A i \in 1..Len(w) : Len(u) + i \in 1..Len(u \o w) /\ (u \o w)[Len(u) + i] = w[i]
           /\ \A i \in 1..Len(u \o w) : \/ i \in 1..Len(u) /\ (u \o w)[i] = u[i]
                                        \/ i - Len(u) \in 1..Len(w) /\ (u \o w)[i] = w[i - Len(u)]
  OBVIOUS

\* A sequence without its first element.
LEMMA Rest ==
    ASSUME NEW S, NEW u \in Seq(S), u # <<>>
    PROVE  /\ Tail(u) \in Seq(S) /\ Len(Tail(u)) = Len(u) - 1 /\ Len(u) \in Nat /\ Len(u) > 0 /\ Head(u) = u[1] /\ u[1] \in S
           /\ \A i \in 1..Len(Tail(u)) : i + 1 \in 1..Len(u) /\ Tail(u)[i] = u[i + 1]
           /\ \A i \in 1..Len(u) : i = 1 \/ (i - 1 \in 1..Len(Tail(u)) /\ Tail(u)[i - 1] = u[i])
  OBVIOUS

\* The packets on the way to the host, by their kind.
LEMMA Numbered ==
    ASSUME NEW u \in Seq(UpPacket), NEW i \in 1..Len(u)
    PROVE  u[i].k \in {"connect", "end", "close", "data"} /\ u[i].s \in Streams /\ (u[i].k = "data" => u[i].n \in Nat)
<1>1. u[i] \in UpPacket
  OBVIOUS
<1> QED
  BY <1>1 DEF UpPacket

\* The packets of a write carry its numbers.
LEMMA Packets ==
    ASSUME NEW s \in Streams, NEW q \in Seq(Nat)
    PROVE  /\ Wisp!Data(s, q) \in Seq(UpPacket) /\ Len(Wisp!Data(s, q)) = Len(q)
           /\ \A i \in 1..Len(q) : /\ Wisp!Data(s, q)[i].k = "data" /\ Wisp!Data(s, q)[i].s = s
                                   /\ Wisp!Data(s, q)[i].n = q[i]
<1> DEFINE p(i) == [k |-> "data", s |-> s, n |-> q[i]]
<1>1. Wisp!Data(s, q) = [i \in 1..Len(q) |-> p(i)]
  BY DEF Wisp!Data
<1>2. \A i \in 1..Len(q) : p(i) \in UpPacket /\ p(i).k = "data" /\ p(i).s = s /\ p(i).n = q[i]
  BY DEF UpPacket
<1> HIDE DEF p
<1> QED
  BY <1>1, <1>2

\* The next data of a stream is what it sends next.
LEMMA LineGrowsBy ==
    ASSUME NEW s \in Streams, NEW u \in Seq(UpPacket), NEW w \in Seq(UpPacket), NEW x \in Nat, NEW y \in Nat,
           Line(u, s, x, y), \A i \in 1..Len(w) : w[i].k = "data" /\ w[i].s = s /\ w[i].n = y + i
    PROVE  Line(u \o w, s, x, y + Len(w))
<1> DEFINE v == u \o w
<1>2. /\ Len(v) = Len(u) + Len(w)
      /\ \A i \in 1..Len(u) : i \in 1..Len(v) /\ v[i] = u[i]
      /\ \A i \in 1..Len(w) : Len(u) + i \in 1..Len(v) /\ v[Len(u) + i] = w[i]
      /\ \A i \in 1..Len(v) : \/ i \in 1..Len(u) /\ v[i] = u[i]
                              \/ i - Len(u) \in 1..Len(w) /\ v[i] = w[i - Len(u)]
  BY Joined
<1> HIDE DEF v
<1>1. \A i \in 1..Len(w) : w[i].k = "data" /\ w[i].s = s /\ w[i].n = y + i
  OBVIOUS
<1>3. Len(w) \in Nat /\ Len(u) \in Nat
  OBVIOUS
<1>u. \A i \in 1..Len(u) : Holds(u, i, s) => u[i].n \in Nat
  BY Numbered DEF Holds
<1>4. x <= y + Len(w)
  BY <1>3 DEF Line
<1>5. ASSUME NEW i \in 1..Len(v), Holds(v, i, s)
      PROVE  /\ x < v[i].n /\ v[i].n <= y + Len(w)
             /\ i \in 1..Len(u) => Holds(u, i, s) /\ v[i].n = u[i].n /\ v[i].n <= y /\ v[i].n \in Nat
             /\ i \notin 1..Len(u) => v[i].n = y + (i - Len(u))
  <2>1. CASE i \in 1..Len(u) /\ v[i] = u[i]
    BY <1>5, <2>1, <1>3, <1>u DEF Line, Holds
  <2>2. CASE i - Len(u) \in 1..Len(w) /\ v[i] = w[i - Len(u)]
    BY <1>1, <2>2, <1>3, SMTT(30) DEF Line
  <2> QED
    BY <1>2, <2>1, <2>2
<1>6. ASSUME NEW i \in 1..Len(v), NEW j \in 1..Len(v), Holds(v, i, s), Holds(v, j, s), i < j
      PROVE  v[i].n < v[j].n
  <2>1. CASE j \in 1..Len(u)
    <3>1. i \in 1..Len(u)
      BY <1>6, <2>1
    <3> QED
      BY <1>5, <1>6, <2>1, <3>1 DEF Line
  <2>2. CASE i \in 1..Len(u) /\ j \notin 1..Len(u)
    <3>1. v[i].n \in Nat /\ v[i].n <= y
      BY <1>5, <1>6, <2>2
    <3>2. v[j].n = y + (j - Len(u)) /\ j > Len(u)
      BY <1>5, <1>6, <2>2, <1>3
    <3> QED
      BY <3>1, <3>2, <1>3
  <2>3. CASE i \notin 1..Len(u) /\ j \notin 1..Len(u)
    BY <1>5, <1>6, <2>3, <1>3
  <2> QED
    BY <1>6, <2>1, <2>2, <2>3
<1>7. ASSUME NEW m \in Nat, x < m, m <= y + Len(w)
      PROVE  \E i \in 1..Len(v) : Holds(v, i, s) /\ v[i].n = m
  <2>1. CASE m <= y
    BY <1>2, <1>7, <2>1, SMTT(30) DEF Line, Holds
  <2>2. CASE m > y
    <3>1. m - y \in 1..Len(w) /\ y + (m - y) = m
      BY <1>3, <1>7, <2>2
    <3>2. PICK i \in 1..Len(w) : y + i = m
      BY <3>1
    <3>3. Len(u) + i \in 1..Len(v) /\ v[Len(u) + i] = w[i]
      BY <1>2
    <3>4. Holds(v, Len(u) + i, s) /\ v[Len(u) + i].n = m
      BY <1>1, <3>2, <3>3 DEF Holds
    <3> QED
      BY <3>3, <3>4
  <2> QED
    BY <2>1, <2>2
<1> QED
  BY <1>4, <1>5, <1>6, <1>7 DEF v, Line

\* A write that goes on where the line ends.
LEMMA LineGrows ==
    ASSUME NEW s \in Streams, NEW u \in Seq(UpPacket), NEW q \in Seq(Nat), NEW x \in Nat, NEW y \in Nat,
           Line(u, s, x, y), \A i \in 1..Len(q) : q[i] = y + i
    PROVE  Line(u \o Wisp!Data(s, q), s, x, y + Len(q))
<1> DEFINE w == Wisp!Data(s, q)
<1>1. /\ w \in Seq(UpPacket) /\ Len(w) = Len(q)
      /\ \A i \in 1..Len(q) : w[i].k = "data" /\ w[i].s = s /\ w[i].n = q[i]
  BY Packets, Zenon
<1> HIDE DEF w
<1>2. \A i \in 1..Len(w) : w[i].k = "data" /\ w[i].s = s /\ w[i].n = y + i
  BY <1>1
<1>3. Line(u \o w, s, x, y + Len(w))
  BY <1>1, <1>2, LineGrowsBy
<1> QED
  BY <1>1, <1>3 DEF w

\* Other packets change nothing of it.
LEMMA LineStays ==
    ASSUME NEW s \in Streams, NEW u \in Seq(UpPacket), NEW w \in Seq(UpPacket), NEW x \in Nat, NEW y \in Nat,
           Line(u, s, x, y), \A i \in 1..Len(w) : ~ Holds(w, i, s)
    PROVE  Line(u \o w, s, x, y)
<1> DEFINE v == u \o w
<1>2. /\ \A i \in 1..Len(u) : i \in 1..Len(v) /\ v[i] = u[i]
      /\ \A i \in 1..Len(v) : \/ i \in 1..Len(u) /\ v[i] = u[i]
                              \/ i - Len(u) \in 1..Len(w) /\ v[i] = w[i - Len(u)]
  BY Joined
<1> HIDE DEF v
<1>3. ASSUME NEW i \in 1..Len(v), Holds(v, i, s)
      PROVE  i \in 1..Len(u) /\ v[i] = u[i] /\ Holds(u, i, s)
  BY <1>2, <1>3 DEF Holds
<1>4. ASSUME NEW m \in Nat, x < m, m <= y
      PROVE  \E i \in 1..Len(v) : Holds(v, i, s) /\ v[i].n = m
  BY <1>2, <1>4 DEF Line, Holds
<1> QED
  BY <1>3, <1>4 DEF v, Line

\* The oldest packet, when it is data of the stream, is the next of it.
LEMMA LineNext ==
    ASSUME NEW s \in Streams, NEW u \in Seq(UpPacket), NEW x \in Nat, NEW y \in Nat,
           Line(u, s, x, y), u # <<>>, Holds(u, 1, s)
    PROVE  u[1].n = x + 1 /\ Line(Tail(u), s, x + 1, y)
<1> DEFINE v == Tail(u)
<1>1. /\ v \in Seq(UpPacket) /\ Len(v) = Len(u) - 1 /\ Len(u) \in Nat /\ Len(u) > 0
      /\ \A i \in 1..Len(v) : i + 1 \in 1..Len(u) /\ v[i] = u[i + 1]
      /\ \A i \in 1..Len(u) : i = 1 \/ (i - 1 \in 1..Len(v) /\ v[i - 1] = u[i])
  BY Rest
<1> HIDE DEF v
<1>2. 1 \in 1..Len(u)
  BY <1>1
<1>3. u[1].n \in Nat /\ x < u[1].n /\ u[1].n <= y
  BY <1>2, Numbered DEF Line, Holds
<1>4. u[1].n = x + 1
  <2> SUFFICES ASSUME x + 1 < u[1].n
               PROVE  FALSE
    BY <1>3
  <2>1. PICK i \in 1..Len(u) : Holds(u, i, s) /\ u[i].n = x + 1
    BY <1>3 DEF Line
  <2>2. 1 < i
    BY <2>1
  <2> QED
    BY <1>2, <1>3, <2>1, <2>2, SMTT(30) DEF Line
<1>5. ASSUME NEW i \in 1..Len(v), Holds(v, i, s)
      PROVE  /\ i + 1 \in 1..Len(u) /\ v[i] = u[i + 1] /\ Holds(u, i + 1, s)
             /\ x + 1 < v[i].n /\ v[i].n <= y
  <2>1. i + 1 \in 1..Len(u) /\ v[i] = u[i + 1] /\ Holds(u, i + 1, s) /\ 1 < i + 1
    BY <1>1, <1>5 DEF Holds
  <2>2. u[i + 1].n \in Nat
    BY <2>1, Numbered DEF Holds
  <2>3. u[1].n < u[i + 1].n /\ u[i + 1].n <= y
    BY <1>2, <2>1 DEF Line
  <2> QED
    BY <1>4, <2>1, <2>2, <2>3
<1>6. ASSUME NEW m \in Nat, x + 1 < m, m <= y
      PROVE  \E i \in 1..Len(v) : Holds(v, i, s) /\ v[i].n = m
  <2>1. PICK i \in 1..Len(u) : Holds(u, i, s) /\ u[i].n = m
    BY <1>6 DEF Line
  <2>2. i # 1
    BY <1>4, <1>6, <2>1
  <2> QED
    BY <1>1, <2>1, <2>2 DEF Holds
<1>7. ASSUME NEW i \in 1..Len(v), NEW j \in 1..Len(v), Holds(v, i, s), Holds(v, j, s), i < j
      PROVE  v[i].n < v[j].n
  <2>1. i + 1 < j + 1
    BY <1>7
  <2> QED
    BY <1>5, <1>7, <2>1 DEF Line
<1> QED
  BY <1>3, <1>4, <1>5, <1>6, <1>7 DEF v, Line

\* A packet that is not the stream's data leaves its line.
LEMMA LineSkip ==
    ASSUME NEW s \in Streams, NEW u \in Seq(UpPacket), NEW x \in Nat, NEW y \in Nat,
           Line(u, s, x, y), u # <<>>, ~ Holds(u, 1, s)
    PROVE  Line(Tail(u), s, x, y)
<1> DEFINE v == Tail(u)
<1>1. /\ \A i \in 1..Len(v) : i + 1 \in 1..Len(u) /\ v[i] = u[i + 1]
      /\ \A i \in 1..Len(u) : i = 1 \/ (i - 1 \in 1..Len(v) /\ v[i - 1] = u[i])
  BY Rest
<1> HIDE DEF v
<1>2. ASSUME NEW i \in 1..Len(v), Holds(v, i, s)
      PROVE  i + 1 \in 1..Len(u) /\ v[i] = u[i + 1] /\ Holds(u, i + 1, s)
  BY <1>1, <1>2 DEF Holds
<1>3. ASSUME NEW m \in Nat, x < m, m <= y
      PROVE  \E i \in 1..Len(v) : Holds(v, i, s) /\ v[i].n = m
  <2>1. PICK i \in 1..Len(u) : Holds(u, i, s) /\ u[i].n = m
    BY <1>3 DEF Line
  <2> QED
    BY <1>1, <2>1 DEF Holds
<1>4. ASSUME NEW i \in 1..Len(v), NEW j \in 1..Len(v), Holds(v, i, s), Holds(v, j, s), i < j
      PROVE  v[i].n < v[j].n
  <2>1. i + 1 < j + 1
    BY <1>4
  <2> QED
    BY <1>2, <1>4, <2>1 DEF Line
<1> QED
  BY <1>2, <1>3, <1>4 DEF v, Line

\* A stream in use, or that is not spoken of, stays so.
LEMMA OpeningGrows ==
    ASSUME NEW s \in Streams, NEW u \in Seq(UpPacket), NEW w \in Seq(UpPacket), NEW unused, NEW unheard,
           Opening(u, s, unused, unheard),
           \A i \in 1..Len(w) : w[i].s = s => ~ unused /\ w[i].k # "connect"
    PROVE  Opening(u \o w, s, unused, unheard)
<1> DEFINE v == u \o w
<1>1. /\ \A i \in 1..Len(u) : i \in 1..Len(v) /\ v[i] = u[i]
      /\ \A i \in 1..Len(v) : \/ i \in 1..Len(u) /\ v[i] = u[i]
                              \/ i - Len(u) \in 1..Len(w) /\ v[i] = w[i - Len(u)]
  BY Joined
<1> HIDE DEF v
<1>2. ASSUME NEW i \in 1..Len(v), Connects(v, i, s)
      PROVE  i \in 1..Len(u) /\ Connects(u, i, s)
  BY <1>1, <1>2 DEF Connects
<1>3. ASSUME unused
      PROVE  unheard /\ \A i \in 1..Len(v) : v[i].s # s
  BY <1>1, <1>3 DEF Opening
<1>4. ASSUME unheard, ~ unused
      PROVE  \E j \in 1..Len(v) : Connects(v, j, s) /\ \A i \in 1..Len(v) : v[i].s = s => j <= i
  <2>1. PICK j \in 1..Len(u) : Connects(u, j, s) /\ \A i \in 1..Len(u) : u[i].s = s => j <= i
    BY <1>4 DEF Opening
  <2>2. j \in 1..Len(v) /\ Connects(v, j, s)
    BY <1>1, <2>1 DEF Connects
  <2>3. ASSUME NEW i \in 1..Len(v), v[i].s = s
        PROVE  j <= i
    <3>1. CASE i \in 1..Len(u)
      BY <1>1, <2>1, <2>3, <3>1
    <3>2. CASE i \notin 1..Len(u)
      <4>1. i > Len(u) /\ Len(u) \in Nat
        BY <3>2
      <4> QED
        BY <4>1
    <3> QED
      BY <3>1, <3>2
  <2> QED
    BY <2>2, <2>3
<1> QED
  BY <1>2, <1>3, <1>4 DEF v, Opening

\* The packet that opens a stream is the first of it.
LEMMA OpeningFirst ==
    ASSUME NEW s \in Streams, NEW u \in Seq(UpPacket), NEW unheard, NEW p \in UpPacket,
           Opening(u, s, TRUE, unheard), p.k = "connect", p.s = s
    PROVE  Opening(Append(u, p), s, FALSE, unheard)
<1> DEFINE v == Append(u, p)
<1>1. /\ Len(v) = Len(u) + 1 /\ v[Len(u) + 1] = p /\ Len(u) \in Nat
      /\ \A i \in 1..Len(u) : v[i] = u[i]
  OBVIOUS
<1> HIDE DEF v
<1>2. unheard /\ \A i \in 1..Len(u) : u[i].s # s
  BY DEF Opening
<1>3. \A i \in 1..Len(v) : v[i].s = s <=> i = Len(u) + 1
  BY <1>1, <1>2
<1>4. Len(u) + 1 \in 1..Len(v) /\ Connects(v, Len(u) + 1, s)
  BY <1>1 DEF Connects
<1>5. \A i \in 1..Len(v) : Connects(v, i, s) => i = Len(u) + 1
  BY <1>3 DEF Connects
<1>6. \E j \in 1..Len(v) : Connects(v, j, s) /\ \A i \in 1..Len(v) : v[i].s = s => j <= i
  <2>1. \A i \in 1..Len(v) : v[i].s = s => Len(u) + 1 <= i
    BY <1>1, <1>3
  <2> QED
    BY <1>4, <2>1
<1> QED
  BY <1>2, <1>5, <1>6 DEF v, Opening

\* Of a stream that was not heard of, the first packet is the one that opens it.
LEMMA OpeningHead ==
    ASSUME NEW s \in Streams, NEW u \in Seq(UpPacket), NEW unused, NEW unheard,
           Opening(u, s, unused, unheard), u # <<>>, u[1].s = s
    PROVE  ~ unused /\ (Connects(u, 1, s) <=> unheard)
<1>1. 1 \in 1..Len(u)
  OBVIOUS
<1>2. ~ unused
  BY <1>1 DEF Opening
<1>3. ASSUME unheard
      PROVE  Connects(u, 1, s)
  <2>1. PICK j \in 1..Len(u) : Connects(u, j, s) /\ \A i \in 1..Len(u) : u[i].s = s => j <= i
    BY <1>2, <1>3 DEF Opening
  <2>2. j = 1
    BY <1>1, <2>1
  <2> QED
    BY <2>1, <2>2
<1> QED
  BY <1>1, <1>2, <1>3 DEF Opening

\* A packet of another stream, or one that comes after the opening one, is
\* taken.
LEMMA OpeningTail ==
    ASSUME NEW s \in Streams, NEW u \in Seq(UpPacket), NEW unused, NEW unheard,
           Opening(u, s, unused, unheard), u # <<>>, u[1].s # s \/ ~ unheard
    PROVE  Opening(Tail(u), s, unused, unheard)
<1> DEFINE v == Tail(u)
<1>1. /\ \A i \in 1..Len(v) : i + 1 \in 1..Len(u) /\ v[i] = u[i + 1]
      /\ \A i \in 1..Len(u) : i = 1 \/ (i - 1 \in 1..Len(v) /\ v[i - 1] = u[i])
  BY Rest
<1> HIDE DEF v
<1>2. ASSUME NEW i \in 1..Len(v), Connects(v, i, s)
      PROVE  i + 1 \in 1..Len(u) /\ Connects(u, i + 1, s)
  BY <1>1, <1>2 DEF Connects
<1>3. ASSUME NEW i \in 1..Len(v), NEW j \in 1..Len(v), Connects(v, i, s), Connects(v, j, s)
      PROVE  i = j
  <2>1. i + 1 = j + 1
    BY <1>2, <1>3 DEF Opening
  <2> QED
    BY <2>1
<1>4. ASSUME unused
      PROVE  unheard /\ \A i \in 1..Len(v) : v[i].s # s
  BY <1>1, <1>4 DEF Opening
<1>5. ASSUME unheard, ~ unused
      PROVE  \E j \in 1..Len(v) : Connects(v, j, s) /\ \A i \in 1..Len(v) : v[i].s = s => j <= i
  <2>1. PICK j \in 1..Len(u) : Connects(u, j, s) /\ \A i \in 1..Len(u) : u[i].s = s => j <= i
    BY <1>5 DEF Opening
  <2>2. j # 1
    BY <1>5, <2>1 DEF Connects
  <2>3. j - 1 \in 1..Len(v) /\ Connects(v, j - 1, s)
    BY <1>1, <2>1, <2>2 DEF Connects
  <2>4. ASSUME NEW i \in 1..Len(v), v[i].s = s
        PROVE  j - 1 <= i
    <3>1. i + 1 \in 1..Len(u) /\ u[i + 1].s = s
      BY <1>1, <2>4
    <3>2. j <= i + 1
      BY <2>1, <3>1
    <3> QED
      BY <3>2
  <2> QED
    BY <2>3, <2>4
<1> QED
  BY <1>2, <1>3, <1>4, <1>5 DEF v, Opening

\* The packet that opens a stream is taken.
LEMMA OpeningHeard ==
    ASSUME NEW s \in Streams, NEW u \in Seq(UpPacket), NEW unused, NEW unheard,
           Opening(u, s, unused, unheard), u # <<>>, Connects(u, 1, s)
    PROVE  ~ unused /\ Opening(Tail(u), s, unused, FALSE)
<1> DEFINE v == Tail(u)
<1>1. /\ \A i \in 1..Len(v) : i + 1 \in 1..Len(u) /\ v[i] = u[i + 1]
      /\ 1 \in 1..Len(u)
  BY Rest
<1> HIDE DEF v
<1>2. ~ unused
  BY <1>1 DEF Opening, Connects
<1>3. ASSUME NEW i \in 1..Len(v), Connects(v, i, s)
      PROVE  FALSE
  <2>1. i + 1 \in 1..Len(u) /\ Connects(u, i + 1, s)
    BY <1>1, <1>3 DEF Connects
  <2>2. i + 1 = 1
    BY <1>1, <2>1 DEF Opening
  <2> QED
    BY <2>2
<1> QED
  BY <1>2, <1>3 DEF v, Opening

\* At first no stream is open.
LEMMA WispFirst == Wisp!Init => WispInv
<1> SUFFICES ASSUME Wisp!Init
             PROVE  WispInv
  OBVIOUS
<1>1. /\ call = [s \in Streams |-> Wisp!Fresh] /\ serve = [s \in Streams |-> Wisp!Idle] /\ up = <<>> /\ down = <<>>
      /\ outbox = <<>> /\ said = [s \in Streams |-> <<>>] /\ target = [s \in Streams |-> [got |-> <<>>, ended |-> FALSE]]
  BY DEF Wisp!Init
<1>2. Wisp!Fresh \in CallEntry
  BY DEF Wisp!Fresh, CallEntry
<1>3. Wisp!Idle \in ServeEntry
  BY DEF Wisp!Idle, ServeEntry
<1>4. WispTypes
  BY <1>1, <1>2, <1>3, NetworkAssumption DEF WispTypes, Target
<1>5. CallFine(Wisp!Fresh) /\ Sent(Wisp!Fresh) = 0 /\ Wisp!Fresh.st = "none"
  BY DEF Wisp!Fresh, CallFine, Sent
<1> DEFINE t == [got |-> <<>>, ended |-> FALSE]
<1>6. ServeFine(Wisp!Idle, <<>>, t) /\ TakenOf(Wisp!Idle, t) = 0 /\ Wisp!Idle.st = "none"
  BY DEF Wisp!Idle, ServeFine, InOrderOf, StageOf, TakenOf
<1> HIDE DEF t
<1>7. ASSUME NEW s \in Streams
      PROVE  OnTheWay(<<>>, s, Wisp!Fresh, Wisp!Idle, t)
  <2>1. Opening(<<>>, s, TRUE, TRUE)
    BY DEF Opening
  <2>2. Line(<<>>, s, 0, 0)
    BY DEF Line
  <2> QED
    BY <1>5, <1>6, <2>1, <2>2 DEF OnTheWay
<1> QED
  BY <1>1, <1>4, <1>5, <1>6, <1>7 DEF WispInv, t

\* A step about one stream keeps the invariant when it keeps what is said of
\* that stream and the way of the others.
LEMMA OneStream ==
    ASSUME WispInv, WispTypes', NEW s \in Streams, live = "up", live' = live,
           \A r \in Streams : r # s =>
               call'[r] = call[r] /\ serve'[r] = serve[r] /\ said'[r] = said[r] /\ target'[r] = target[r],
           CallFine(call[s])', ServeFine(serve[s], said[s], target[s])',
           OnTheWay(up, s, call[s], serve[s], target[s])',
           \A r \in Streams : r # s => OnTheWay(up', r, call[r], serve[r], target[r])
    PROVE  WispInv'
<1>1. ASSUME NEW r \in Streams, r # s
      PROVE  /\ CallFine(call[r])' /\ ServeFine(serve[r], said[r], target[r])'
             /\ OnTheWay(up, r, call[r], serve[r], target[r])'
  BY <1>1 DEF WispInv
<1> QED
  BY <1>1 DEF WispInv

\* How many the host took is a number.
LEMMA TakenNat ==
    ASSUME NEW e \in ServeEntry, NEW t \in Target
    PROVE  TakenOf(e, t) \in Nat
<1>1. e.work \in Seq(Nat) /\ e.early \in Seq(Nat) /\ t.got \in Seq(Nat)
  BY DEF ServeEntry, Target
<1>2. Len(e.work) \in Nat /\ Len(e.early) \in Nat /\ Len(t.got) \in Nat
  BY <1>1
<1>3. \A i, j, k \in Nat : i + j + k \in Nat
  OBVIOUS
<1>4. Len(t.got) + Len(e.work) + Len(e.early) \in Nat
  BY <1>2, <1>3, Zenon
<1> QED
  BY <1>4, Zenon DEF TakenOf

\* How many the caller sent is a number.
LEMMA SentNat ==
    ASSUME NEW c \in CallEntry, CallFine(c)
    PROVE  Sent(c) \in Nat
<1>1. c.queued \in Seq(Nat) /\ c.wrote \in Nat
  BY DEF CallEntry
<1> QED
  BY <1>1 DEF Sent, CallFine

\* What the caller says of one stream is nothing new of the others.
LEMMA CallerStep ==
    ASSUME WispInv, NEW s \in Streams, NEW c \in CallEntry, NEW w \in Seq(UpPacket), live = "up", live' = live,
           call' = [call EXCEPT ![s] = c], up' = up \o w, UNCHANGED <<serve, said, target, outbox>>,
           down' \in Seq(DownPacket), Len(down') <= ROOM,
           \A i \in 1..Len(w) : w[i].s = s, CallFine(c), OnTheWay(up', s, c, serve[s], target[s])
    PROVE  WispInv'
<1>0. WispTypes
  BY DEF WispInv
<1>1. WispTypes'
  BY <1>0 DEF WispTypes
<1>2. call'[s] = c /\ \A r \in Streams : r # s => call'[r] = call[r]
  BY <1>0 DEF WispTypes
<1>3. ASSUME NEW r \in Streams, r # s
      PROVE  OnTheWay(up', r, call[r], serve[r], target[r])
  <2>1. OnTheWay(up, r, call[r], serve[r], target[r])
    BY DEF WispInv
  <2>2. up \in Seq(UpPacket) /\ call[r] \in CallEntry /\ serve[r] \in ServeEntry /\ target[r] \in Target /\ CallFine(call[r])
    BY <1>0 DEF WispTypes, WispInv
  <2>3. TakenOf(serve[r], target[r]) \in Nat /\ Sent(call[r]) \in Nat
    BY <2>2, TakenNat, SentNat
  <2>4. \A i \in 1..Len(w) : w[i].s # r /\ ~ Holds(w, i, r)
    BY <1>3 DEF Holds
  <2>5. Opening(up', r, call[r].st = "none", serve[r].st = "none")
    <3>1. Opening(up, r, call[r].st = "none", serve[r].st = "none")
      BY <2>1 DEF OnTheWay
    <3> QED
      BY <2>2, <2>4, <3>1, OpeningGrows
  <2>6. Takes(serve[r]) => Line(up', r, TakenOf(serve[r], target[r]), Sent(call[r]))
    <3>1. Takes(serve[r]) => Line(up, r, TakenOf(serve[r], target[r]), Sent(call[r]))
      BY <2>1 DEF OnTheWay
    <3> QED
      BY <2>2, <2>3, <2>4, <3>1, LineStays
  <2> QED
    BY <2>5, <2>6 DEF OnTheWay
<1>4. ServeFine(serve[s], said[s], target[s])'
  BY DEF WispInv
<1> QED
  BY <1>1, <1>2, <1>3, <1>4, OneStream

\* Words of a stream that carry no data change what is sent of it in nothing.
LEMMA CallerSays ==
    ASSUME WispInv, NEW s \in Streams, NEW c \in CallEntry, NEW w \in Seq(UpPacket), live = "up", live' = live,
           call' = [call EXCEPT ![s] = c], up' = up \o w, UNCHANGED <<serve, said, target, outbox>>,
           down' \in Seq(DownPacket), Len(down') <= ROOM,
           \A i \in 1..Len(w) : w[i].s = s /\ w[i].k \in {"end", "close"},
           call[s].st # "none", c.st # "none", c.wrote = call[s].wrote, c.queued = call[s].queued
    PROVE  WispInv'
<1>1. /\ up \in Seq(UpPacket) /\ call[s] \in CallEntry /\ serve[s] \in ServeEntry /\ target[s] \in Target
      /\ CallFine(call[s]) /\ OnTheWay(up, s, call[s], serve[s], target[s])
  BY DEF WispInv, WispTypes
<1>2. CallFine(c) /\ Sent(c) = Sent(call[s])
  BY <1>1 DEF CallFine, Sent
<1>3. TakenOf(serve[s], target[s]) \in Nat /\ Sent(call[s]) \in Nat
  BY <1>1, TakenNat, SentNat
<1>4. Opening(up', s, c.st = "none", serve[s].st = "none")
  <2>1. Opening(up, s, FALSE, serve[s].st = "none")
    BY <1>1 DEF OnTheWay
  <2>2. \A i \in 1..Len(w) : w[i].s = s => ~ FALSE /\ w[i].k # "connect"
    OBVIOUS
  <2>3. Opening(up \o w, s, FALSE, serve[s].st = "none")
    BY <1>1, <2>1, <2>2, OpeningGrows
  <2> QED
    BY <2>3
<1>5. Takes(serve[s]) => Line(up', s, TakenOf(serve[s], target[s]), Sent(c))
  <2>1. \A i \in 1..Len(w) : ~ Holds(w, i, s)
    BY DEF Holds
  <2>2. Takes(serve[s]) => Line(up, s, TakenOf(serve[s], target[s]), Sent(call[s]))
    BY <1>1 DEF OnTheWay
  <2> QED
    BY <1>1, <1>2, <1>3, <2>1, <2>2, LineStays
<1>6. OnTheWay(up', s, c, serve[s], target[s])
  BY <1>4, <1>5 DEF OnTheWay
<1> QED
  BY <1>2, <1>6, CallerStep

\* What leaves under the credit is what was held longest.
LEMMA PumpedFine ==
    ASSUME NEW c \in CallEntry, CallFine(c)
    PROVE  LET p == Wisp!Pumped(c)
           IN  /\ p.entry \in CallEntry /\ CallFine(p.entry) /\ p.entry.st = c.st /\ p.sent \in Seq(Nat)
               /\ Sent(p.entry) = Sent(c) + Len(p.sent)
               /\ \A i \in 1..Len(p.sent) : p.sent[i] = Sent(c) + i
<1>1. c.queued \in Seq(Nat) /\ c.wrote \in Nat /\ c.remaining \in Nat /\ Len(c.queued) \in Nat
  BY DEF CallEntry
<1> DEFINE n == IF Len(c.queued) <= c.remaining THEN Len(c.queued) ELSE c.remaining
<1> DEFINE left == SubSeq(c.queued, n + 1, Len(c.queued))
<1> DEFINE sent_ == SubSeq(c.queued, 1, n)
<1>2. n \in Nat /\ n <= Len(c.queued) /\ c.remaining - n \in Nat
  BY <1>1
<1>3. Wisp!Pumped(c) = [entry |-> [c EXCEPT !.remaining = @ - n, !.queued = left], sent |-> sent_]
  BY Zenon DEF Wisp!Pumped
<1> HIDE DEF n
<1>4. /\ left \in Seq(Nat) /\ Len(left) = Len(c.queued) - n
      /\ \A i \in 1..Len(left) : i + n \in 1..Len(c.queued) /\ left[i] = c.queued[i + n]
  BY <1>1, <1>2
<1>5. /\ sent_ \in Seq(Nat) /\ Len(sent_) = n
      /\ \A i \in 1..Len(sent_) : i \in 1..Len(c.queued) /\ sent_[i] = c.queued[i]
  BY <1>1, <1>2
<1> HIDE DEF left, sent_
<1>6. PICK r \in Nat : r = c.remaining - n
  BY <1>2
<1>7. Wisp!Pumped(c) = [entry |-> [c EXCEPT !.remaining = r, !.queued = left], sent |-> sent_]
  BY <1>3, <1>6 DEF CallEntry
<1> DEFINE e == [c EXCEPT !.remaining = r, !.queued = left]
<1>8. e \in CallEntry /\ e.st = c.st /\ e.queued = left /\ e.wrote = c.wrote
  BY <1>4 DEF CallEntry
<1> HIDE DEF e
<1>9. Sent(e) = Sent(c) + Len(sent_)
  BY <1>1, <1>2, <1>4, <1>5, <1>8 DEF Sent
<1>10. \A i \in 1..Len(sent_) : sent_[i] = Sent(c) + i
  BY <1>5 DEF CallFine, Sent
<1>11. CallFine(e)
  <2>1. Len(left) <= c.wrote /\ (e.st = "none" => e.wrote = 0)
    BY <1>1, <1>2, <1>4, <1>8 DEF CallFine
  <2>2. ASSUME NEW i \in 1..Len(left)
        PROVE  left[i] = (c.wrote - Len(left)) + i
    <3>1. left[i] = (c.wrote - Len(c.queued)) + (i + n)
      BY <1>4 DEF CallFine
    <3>2. i \in Int /\ Len(left) = Len(c.queued) - n
      BY <1>4
    <3> QED
      BY <1>1, <1>2, <3>1, <3>2
  <2> QED
    BY <1>8, <2>1, <2>2 DEF CallFine
<1>12. Wisp!Pumped(c).entry = e /\ Wisp!Pumped(c).sent = sent_
  BY <1>7 DEF e
<1> QED
  BY <1>5, <1>8, <1>9, <1>10, <1>11, <1>12, Zenon

\* The caller sends what its window lets it, in order (pump).
LEMMA CallerPumps ==
    ASSUME WispInv, NEW s \in Streams, NEW c \in CallEntry, live = "up", live' = live,
           Wisp!PumpStream(s, c), UNCHANGED <<serve, said, target, outbox>>,
           down' \in Seq(DownPacket), Len(down') <= ROOM,
           CallFine(c), call[s].st # "none", c.st # "none", Sent(c) = Sent(call[s])
    PROVE  WispInv'
<1>1. /\ up \in Seq(UpPacket) /\ call[s] \in CallEntry /\ serve[s] \in ServeEntry /\ target[s] \in Target
      /\ CallFine(call[s]) /\ OnTheWay(up, s, call[s], serve[s], target[s])
  BY DEF WispInv, WispTypes
<1> DEFINE e == Wisp!Pumped(c).entry
<1> DEFINE q == Wisp!Pumped(c).sent
<1> DEFINE w == Wisp!Data(s, q)
<1>2. call' = [call EXCEPT ![s] = e] /\ up' = up \o w
  BY Zenon DEF Wisp!PumpStream
<1>3. /\ e \in CallEntry /\ CallFine(e) /\ e.st = c.st /\ q \in Seq(Nat) /\ Sent(e) = Sent(c) + Len(q)
      /\ \A i \in 1..Len(q) : q[i] = Sent(c) + i
  BY PumpedFine, Zenon
<1> HIDE DEF e, q
<1>4. w \in Seq(UpPacket) /\ Len(w) = Len(q) /\ \A i \in 1..Len(q) : w[i].k = "data" /\ w[i].s = s
  BY <1>3, Packets, ZenonT(40)
<1>5. TakenOf(serve[s], target[s]) \in Nat /\ Sent(call[s]) \in Nat
  BY <1>1, TakenNat, SentNat
<1>6. Takes(serve[s]) => Line(up \o w, s, TakenOf(serve[s], target[s]), Sent(call[s]) + Len(q))
  <2>1. Takes(serve[s]) => Line(up, s, TakenOf(serve[s], target[s]), Sent(call[s]))
    BY <1>1 DEF OnTheWay
  <2> QED
    BY <1>1, <1>3, <1>5, <2>1, LineGrows
<1> HIDE DEF w
<1>7. Opening(up \o w, s, FALSE, serve[s].st = "none")
  <2>1. Opening(up, s, FALSE, serve[s].st = "none")
    BY <1>1 DEF OnTheWay
  <2>2. \A i \in 1..Len(w) : w[i].s = s => ~ FALSE /\ w[i].k # "connect"
    BY <1>4
  <2> QED
    BY <1>1, <1>4, <2>1, <2>2, OpeningGrows
<1>8. (e.st = "none") = FALSE /\ Sent(e) = Sent(call[s]) + Len(q)
  BY <1>3
<1>9. OnTheWay(up', s, e, serve[s], target[s])
  BY <1>2, <1>6, <1>7, <1>8 DEF OnTheWay
<1> QED
  BY <1>2, <1>3, <1>4, <1>9, CallerStep

\* The caller opens a stream.
LEMMA OpenKept ==
    ASSUME WispInv, NEW s \in Streams, Wisp!OpenStream(s)
    PROVE  WispInv'
<1>1. /\ up \in Seq(UpPacket) /\ call[s] \in CallEntry /\ serve[s] \in ServeEntry /\ target[s] \in Target
      /\ CallFine(call[s]) /\ down \in Seq(DownPacket) /\ Len(down) <= ROOM
  BY DEF WispInv, WispTypes
<1> DEFINE c == [Wisp!Fresh EXCEPT !.st = "open", !.remaining = WISP_BUFFER]
<1> DEFINE p == [k |-> "connect", s |-> s]
<1>2. /\ live = "up" /\ live' = live /\ call[s].st = "none" /\ call' = [call EXCEPT ![s] = c]
      /\ up' = Append(up, p) /\ UNCHANGED <<serve, said, target, outbox, down>>
  BY DEF Wisp!OpenStream, Wisp!hostVars
<1>3. c \in CallEntry /\ CallFine(c) /\ Sent(c) = 0 /\ c.st # "none"
  <2> DEFINE f == Wisp!Fresh
  <2>1. f \in CallEntry /\ f.queued = <<>> /\ f.wrote = 0
    BY DEF Wisp!Fresh, CallEntry
  <2>b. WISP_BUFFER \in Nat
    BY NetworkAssumption
  <2> HIDE DEF f
  <2>2. c \in CallEntry /\ c.st = "open" /\ c.queued = f.queued /\ c.wrote = f.wrote
    BY <2>1, <2>b DEF CallEntry, f
  <2> HIDE DEF c
  <2>3. c.st = "open" /\ c.queued = <<>> /\ c.wrote = 0
    BY <2>1, <2>2
  <2>4. Len(c.queued) = 0 /\ c.queued \in Seq(Nat)
    BY <2>3
  <2>5. Sent(c) = 0
    <3>1. Sent(c) = c.wrote - Len(c.queued)
      BY Zenon DEF Sent
    <3>2. c.wrote = 0 /\ Len(c.queued) = 0 /\ 0 - 0 = 0
      BY <2>3, <2>4
    <3> QED
      BY <3>1, <3>2, Zenon
  <2>6. CallFine(c)
    BY <2>3, <2>4 DEF CallFine
  <2> QED
    BY <2>2, <2>3, <2>5, <2>6
<1>4. p \in UpPacket /\ p.s = s /\ p.k = "connect"
  BY DEF UpPacket
<1> HIDE DEF c, p
<1>o. OnTheWay(up, s, call[s], serve[s], target[s])
  BY <1>2 DEF WispInv
<1>5. Sent(call[s]) = 0
  <2>1. call[s].queued \in Seq(Nat) /\ call[s].wrote = 0 /\ Len(call[s].queued) <= call[s].wrote
    BY <1>1, <1>2 DEF CallEntry, CallFine
  <2>2. Len(call[s].queued) = 0
    BY <2>1
  <2> QED
    BY <2>1, <2>2 DEF Sent
<1>6. <<p>> \in Seq(UpPacket) /\ up' = up \o <<p>> /\ \A i \in 1..Len(<<p>>) : <<p>>[i] = p
  BY <1>1, <1>2, <1>4
<1>7. Opening(up', s, c.st = "none", serve[s].st = "none")
  <2>1. Opening(up, s, TRUE, serve[s].st = "none")
    BY <1>o, <1>2 DEF OnTheWay
  <2>2. Opening(Append(up, p), s, FALSE, serve[s].st = "none")
    BY <1>1, <1>4, <2>1, OpeningFirst
  <2>3. (c.st = "none") = FALSE
    BY <1>3
  <2> QED
    BY <1>2, <2>2, <2>3
<1>8. Takes(serve[s]) => Line(up', s, TakenOf(serve[s], target[s]), Sent(c))
  <2>1. Takes(serve[s]) => Line(up, s, TakenOf(serve[s], target[s]), 0)
    BY <1>o, <1>5 DEF OnTheWay
  <2>2. \A i \in 1..Len(<<p>>) : ~ Holds(<<p>>, i, s)
    BY <1>4, <1>6 DEF Holds
  <2>3. TakenOf(serve[s], target[s]) \in Nat
    BY <1>1, TakenNat
  <2> QED
    <3> DEFINE w == <<p>>
    <3>1. w \in Seq(UpPacket) /\ up' = up \o w /\ \A i \in 1..Len(w) : ~ Holds(w, i, s)
      BY <1>6, <2>2
    <3> HIDE DEF w
    <3>2. 0 \in Nat
      OBVIOUS
    <3>3. Takes(serve[s]) => Line(up \o w, s, TakenOf(serve[s], target[s]), 0)
      BY <1>1, <2>1, <2>3, <3>1, <3>2, LineStays
    <3> QED
      BY <1>3, <3>1, <3>3
<1>9. OnTheWay(up', s, c, serve[s], target[s])
  BY <1>7, <1>8 DEF OnTheWay
<1>10. \A i \in 1..Len(<<p>>) : <<p>>[i].s = s
  BY <1>4, <1>6
<1> QED
  BY <1>1, <1>2, <1>3, <1>6, <1>9, <1>10, CallerStep

\* The caller writes to a stream.
LEMMA WriteKept ==
    ASSUME WispInv, NEW s \in Streams, Wisp!Write(s)
    PROVE  WispInv'
<1>1. call[s] \in CallEntry /\ CallFine(call[s]) /\ down \in Seq(DownPacket) /\ Len(down) <= ROOM
  BY DEF WispInv, WispTypes
<1> DEFINE n == call[s].wrote
<1> DEFINE q == call[s].queued
<1> DEFINE c == [call[s] EXCEPT !.wrote = n + 1, !.queued = Append(q, n + 1)]
<1>2. /\ live = "up" /\ live' = live /\ Wisp!Has(call, s) /\ Wisp!PumpStream(s, c)
      /\ UNCHANGED <<serve, said, target, outbox, down>>
  BY DEF Wisp!Write, Wisp!hostVars
<1>3. n \in Nat /\ q \in Seq(Nat) /\ n + 1 \in Nat /\ Append(q, n + 1) \in Seq(Nat)
  BY <1>1 DEF CallEntry
<1>4. c \in CallEntry /\ c.wrote = n + 1 /\ c.queued = Append(q, n + 1) /\ c.st = call[s].st
  BY <1>1, <1>3 DEF CallEntry
<1>5. call[s].st # "none" /\ Len(q) <= n /\ \A i \in 1..Len(q) : q[i] = (n - Len(q)) + i
  BY <1>1, <1>2 DEF Wisp!Has, CallFine
<1>6. Sent(call[s]) = n - Len(q)
  BY DEF Sent
<1> HIDE DEF n, q, c
<1>7. /\ Len(c.queued) = Len(q) + 1 /\ Len(q) \in Nat
      /\ \A i \in 1..Len(c.queued) : c.queued[i] = IF i <= Len(q) THEN q[i] ELSE n + 1
  BY <1>3, <1>4
<1>8. ASSUME NEW i \in 1..Len(c.queued)
      PROVE  c.queued[i] = (c.wrote - Len(c.queued)) + i
  <2>1. (c.wrote - Len(c.queued)) + i = (n - Len(q)) + i /\ i \in Nat /\ i <= Len(q) + 1 /\ i >= 1
    BY <1>3, <1>4, <1>7
  <2>2. CASE i <= Len(q)
    <3>1. q[i] = (n - Len(q)) + i
      BY <1>5, <1>7, <2>1, <2>2
    <3> QED
      BY <1>7, <2>1, <2>2, <3>1
  <2>3. CASE i = Len(q) + 1
    <3>1. c.queued[i] = n + 1
      BY <1>7, <2>3
    <3> QED
      BY <1>3, <1>7, <2>1, <2>3, <3>1
  <2> QED
    BY <1>7, <2>1, <2>2, <2>3
<1>9. CallFine(c) /\ Sent(c) = Sent(call[s])
  BY <1>3, <1>4, <1>5, <1>6, <1>7, <1>8 DEF CallFine, Sent
<1> QED
  BY <1>1, <1>2, <1>4, <1>5, <1>9, CallerPumps

\* The caller ends its side of a stream.
LEMMA EofKept ==
    ASSUME WispInv, NEW s \in Streams, Wisp!Eof(s)
    PROVE  WispInv'
<1>1. call \in [Streams -> CallEntry] /\ down \in Seq(DownPacket) /\ Len(down) <= ROOM /\ up \in Seq(UpPacket)
  BY DEF WispInv, WispTypes
<1>2. live = "up" /\ live' = live /\ Wisp!Has(call, s) /\ UNCHANGED <<serve, said, target, outbox, down>>
  BY DEF Wisp!Eof, Wisp!hostVars
<1>3. call[s].st # "none"
  BY <1>2 DEF Wisp!Has
<1>4. ASSUME NEW k \in {"end", "close"}, up' = Append(up, [k |-> k, s |-> s]), NEW c \in CallEntry,
             call' = [call EXCEPT ![s] = c], c.st # "none", c.wrote = call[s].wrote, c.queued = call[s].queued
      PROVE  WispInv'
  <2> DEFINE p == [k |-> k, s |-> s]
  <2> DEFINE w == <<p>>
  <2>1. p \in UpPacket /\ p.s = s /\ p.k \in {"end", "close"} /\ up' = Append(up, p)
    BY <1>4 DEF UpPacket
  <2> HIDE DEF p
  <2>2. w \in Seq(UpPacket) /\ up' = up \o w /\ \A i \in 1..Len(w) : w[i].s = s /\ w[i].k \in {"end", "close"}
    BY <1>1, <1>4, <2>1
  <2> HIDE DEF w
  <2> QED
    BY <1>1, <1>2, <1>3, <1>4, <2>2, CallerSays
<1>5. CASE call[s].reads
  <2> DEFINE c == [call[s] EXCEPT !.eof = TRUE]
  <2>1. c \in CallEntry /\ c.st # "none" /\ c.wrote = call[s].wrote /\ c.queued = call[s].queued
    BY <1>1, <1>3 DEF CallEntry
  <2>2. call' = [call EXCEPT ![s] = c] /\ up' = Append(up, [k |-> "end", s |-> s])
    BY <1>5 DEF Wisp!Eof
  <2> HIDE DEF c
  <2> QED
    BY <1>4, <2>1, <2>2
<1>6. CASE ~ call[s].reads
  <2> DEFINE c == [call[s] EXCEPT !.st = "gone"]
  <2>1. c \in CallEntry /\ c.st # "none" /\ c.wrote = call[s].wrote /\ c.queued = call[s].queued
    BY <1>1 DEF CallEntry
  <2>2. call' = [call EXCEPT ![s] = c] /\ up' = Append(up, [k |-> "close", s |-> s])
    BY <1>6 DEF Wisp!Eof
  <2> HIDE DEF c
  <2> QED
    BY <1>4, <2>1, <2>2
<1> QED
  BY <1>5, <1>6

\* What goes down alone is no matter of order.
LEMMA Quiet ==
    ASSUME WispInv, WispTypes', UNCHANGED <<call, up, serve, said, target, live>>
    PROVE  WispInv'
  BY DEF WispInv

\* The caller takes a packet: data, room in its window, or an end.
LEMMA CallerReceiveKept ==
    ASSUME WispInv, Wisp!CallerReceive
    PROVE  WispInv'
<1>1. /\ call \in [Streams -> CallEntry] /\ down \in Seq(DownPacket) /\ Len(down) <= ROOM /\ up \in Seq(UpPacket)
      /\ \A s \in Streams : CallFine(call[s])
  BY DEF WispInv, WispTypes
<1> DEFINE p == Head(down)
<1>2. /\ live = "up" /\ live' = live /\ UNCHANGED <<serve, said, target, outbox>>
      /\ down # <<>> /\ down' = Tail(down)
  BY DEF Wisp!CallerReceive, Wisp!hostVars
<1>3. p \in DownPacket /\ down' \in Seq(DownPacket) /\ Len(down') <= ROOM
  <2>1. /\ Tail(down) \in Seq(DownPacket) /\ Len(Tail(down)) = Len(down) - 1
        /\ Head(down) = down[1] /\ down[1] \in DownPacket /\ Len(down) \in Nat
    BY <1>1, <1>2, Rest
  <2>2. ROOM \in Nat
    BY NetworkAssumption
  <2> QED
    BY <1>1, <1>2, <2>1, <2>2
<1>4. \/ UNCHANGED <<call, up>>
      \/ Wisp!Has(call, p.s) /\ p.k = "continue" /\ Wisp!CallerContinue(p)
      \/ Wisp!Has(call, p.s) /\ Wisp!CallerEnd(p)
      \/ Wisp!Has(call, p.s) /\ Wisp!CallerClose(p)
  BY DEF Wisp!CallerReceive
<1> HIDE DEF p
<1>5. p.s \in Streams /\ (p.k = "continue" => p.n \in Nat)
  BY <1>3 DEF DownPacket
<1> DEFINE s == p.s
<1>6. call[s] \in CallEntry /\ CallFine(call[s])
  BY <1>1, <1>5
<1>7. CASE UNCHANGED <<call, up>>
  <2>1. WispTypes'
    BY <1>2, <1>3, <1>7 DEF WispInv, WispTypes
  <2> QED
    BY <1>2, <1>7, <2>1, Quiet
<1>8. CASE Wisp!Has(call, s) /\ p.k = "continue" /\ Wisp!CallerContinue(p)
  <2> DEFINE c == [call[s] EXCEPT !.remaining = p.n]
  <2>1. Wisp!PumpStream(s, c)
    BY <1>8 DEF Wisp!CallerContinue
  <2>2. /\ c \in CallEntry /\ c.st = call[s].st /\ c.wrote = call[s].wrote /\ c.queued = call[s].queued
        /\ call[s].st # "none"
    BY <1>5, <1>6, <1>8 DEF CallEntry, Wisp!Has
  <2> HIDE DEF c
  <2>3. CallFine(c) /\ Sent(c) = Sent(call[s]) /\ c.st # "none"
    BY <1>6, <2>2 DEF CallFine, Sent
  <2> QED
    BY <1>2, <1>3, <1>5, <2>1, <2>2, <2>3, CallerPumps
<1>9. ASSUME NEW c \in CallEntry, NEW w \in Seq(UpPacket), call' = [call EXCEPT ![s] = c], up' = up \o w,
             \A i \in 1..Len(w) : w[i].s = s /\ w[i].k \in {"end", "close"}, Wisp!Has(call, s),
             c.st # "none", c.wrote = call[s].wrote, c.queued = call[s].queued
      PROVE  WispInv'
  <2>1. call[s].st # "none"
    BY <1>9 DEF Wisp!Has
  <2> QED
    BY <1>2, <1>3, <1>5, <1>9, <2>1, CallerSays
<1> DEFINE gone == [call[s] EXCEPT !.st = "gone"]
<1> DEFINE deaf == [call[s] EXCEPT !.reads = FALSE]
<1> DEFINE close == [k |-> "close", s |-> s]
<1>10. /\ gone \in CallEntry /\ gone.st # "none" /\ gone.wrote = call[s].wrote /\ gone.queued = call[s].queued
       /\ deaf \in CallEntry /\ deaf.st = call[s].st /\ deaf.wrote = call[s].wrote /\ deaf.queued = call[s].queued
  BY <1>6 DEF CallEntry
<1>11. close \in UpPacket /\ close.s = s /\ close.k \in {"end", "close"}
  BY <1>5 DEF UpPacket
<1>12. \/ ~ Wisp!Has(call, s)
       \/ UNCHANGED <<call, up>>
       \/ p.k = "continue" /\ Wisp!CallerContinue(p)
       \/ call' = [call EXCEPT ![s] = gone] /\ up' = Append(up, close)
       \/ call' = [call EXCEPT ![s] = deaf] /\ up' = up
       \/ call' = [call EXCEPT ![s] = gone] /\ up' = up
  BY <1>4 DEF Wisp!CallerEnd, Wisp!CallerClose
<1> HIDE DEF gone, deaf, close
<1>13. up \o <<>> = up /\ <<>> \in Seq(UpPacket) /\ \A i \in 1..Len(<<>>) : FALSE
  BY <1>1
<1>14. CASE Wisp!Has(call, s) /\ call' = [call EXCEPT ![s] = gone] /\ up' = Append(up, close)
  <2> DEFINE w == <<close>>
  <2>1. w \in Seq(UpPacket) /\ up' = up \o w /\ \A i \in 1..Len(w) : w[i].s = s /\ w[i].k \in {"end", "close"}
    BY <1>1, <1>11, <1>14
  <2> HIDE DEF w, s
  <2> QED
    BY <1>9, <1>10, <1>14, <2>1
<1>15. CASE Wisp!Has(call, s) /\ call' = [call EXCEPT ![s] = deaf] /\ up' = up
  <2> DEFINE w == <<>>
  <2>1. w \in Seq(UpPacket) /\ up' = up \o w /\ \A i \in 1..Len(w) : w[i].s = s /\ w[i].k \in {"end", "close"}
    BY <1>13, <1>15
  <2>2. deaf.st # "none"
    BY <1>10, <1>15 DEF Wisp!Has
  <2> HIDE DEF w, s
  <2> QED
    BY <1>9, <1>10, <1>15, <2>1, <2>2
<1>16. CASE Wisp!Has(call, s) /\ call' = [call EXCEPT ![s] = gone] /\ up' = up
  <2> DEFINE w == <<>>
  <2>1. w \in Seq(UpPacket) /\ up' = up \o w /\ \A i \in 1..Len(w) : w[i].s = s /\ w[i].k \in {"end", "close"}
    BY <1>13, <1>16
  <2> HIDE DEF w, s
  <2> QED
    BY <1>9, <1>10, <1>16, <2>1
<1> QED
  BY <1>4, <1>7, <1>8, <1>12, <1>14, <1>15, <1>16

\* A function set where it is already so.
LEMMA Itself ==
    ASSUME NEW S, NEW T, NEW f \in [S -> T], NEW s \in S
    PROVE  [f EXCEPT ![s] = f[s]] = f
  OBVIOUS

\* str0m holds no more packets than it has room for.
LEMMA FlushFine ==
    ASSUME WispTypes, NEW w \in Seq(DownPacket), Wisp!Flush(w)
    PROVE  down' \in Seq(DownPacket) /\ Len(down') <= ROOM /\ outbox' \in Seq(DownPacket)
<1>1. down \in Seq(DownPacket) /\ Len(down) <= ROOM /\ outbox \in Seq(DownPacket) /\ ROOM \in Nat
  BY NetworkAssumption DEF WispTypes
<1> DEFINE all == outbox \o w
<1> DEFINE n == IF Len(all) <= ROOM - Len(down) THEN Len(all) ELSE ROOM - Len(down)
<1>2. down' = down \o SubSeq(all, 1, n) /\ outbox' = SubSeq(all, n + 1, Len(all))
  BY DEF Wisp!Flush
<1>3. all \in Seq(DownPacket) /\ Len(all) \in Nat /\ Len(down) \in Nat
  BY <1>1
<1> HIDE DEF all
<1>4. n \in Nat /\ n <= Len(all) /\ Len(down) + n <= ROOM
  BY <1>1, <1>3
<1> HIDE DEF n
<1>5. /\ SubSeq(all, 1, n) \in Seq(DownPacket) /\ Len(SubSeq(all, 1, n)) = n
      /\ SubSeq(all, n + 1, Len(all)) \in Seq(DownPacket)
  BY <1>3, <1>4
<1>6. /\ down \o SubSeq(all, 1, n) \in Seq(DownPacket)
      /\ Len(down \o SubSeq(all, 1, n)) = Len(down) + n
  BY <1>1, <1>5
<1> QED
  BY <1>2, <1>4, <1>5, <1>6

\* A step of the host about one stream.
LEMMA HostStep ==
    ASSUME WispInv, NEW s \in Streams, NEW e \in ServeEntry, NEW m \in Seq(Words), NEW t \in Target,
           live = "up", live' = live, call' = call, up' \in Seq(UpPacket),
           serve' = [serve EXCEPT ![s] = e], said' = [said EXCEPT ![s] = m], target' = [target EXCEPT ![s] = t],
           down' \in Seq(DownPacket), Len(down') <= ROOM, outbox' \in Seq(DownPacket),
           ServeFine(e, m, t), OnTheWay(up', s, call[s], e, t),
           \A r \in Streams : r # s => OnTheWay(up', r, call[r], serve[r], target[r])
    PROVE  WispInv'
<1>0. WispTypes
  BY DEF WispInv
<1>1. WispTypes'
  BY <1>0 DEF WispTypes
<1>2. /\ call'[s] = call[s] /\ serve'[s] = e /\ said'[s] = m /\ target'[s] = t
      /\ \A r \in Streams : r # s =>
             call'[r] = call[r] /\ serve'[r] = serve[r] /\ said'[r] = said[r] /\ target'[r] = target[r]
  BY <1>0 DEF WispTypes
<1>3. CallFine(call[s])'
  BY DEF WispInv
<1> QED
  BY <1>1, <1>2, <1>3, OneStream

\* A step that takes no packet, of a stream the caller has opened.
LEMMA HostAlone ==
    ASSUME WispInv, NEW s \in Streams, NEW e \in ServeEntry, NEW m \in Seq(Words), NEW t \in Target,
           live = "up", live' = live, call' = call, up' = up,
           serve' = [serve EXCEPT ![s] = e], said' = [said EXCEPT ![s] = m], target' = [target EXCEPT ![s] = t],
           down' \in Seq(DownPacket), Len(down') <= ROOM, outbox' \in Seq(DownPacket),
           ServeFine(e, m, t), serve[s].st # "none", e.st # "none",
           Takes(e) => Takes(serve[s]) /\ TakenOf(e, t) = TakenOf(serve[s], target[s])
    PROVE  WispInv'
<1>1. up \in Seq(UpPacket) /\ \A r \in Streams : OnTheWay(up, r, call[r], serve[r], target[r])
  BY DEF WispInv, WispTypes
<1>2. (e.st = "none") = FALSE /\ (serve[s].st = "none") = FALSE
  OBVIOUS
<1>3. Opening(up, s, call[s].st = "none", FALSE) /\ (Takes(serve[s]) => Line(up, s, TakenOf(serve[s], target[s]), Sent(call[s])))
  BY <1>1, <1>2 DEF OnTheWay
<1>4. OnTheWay(up, s, call[s], e, t)
  BY <1>2, <1>3 DEF OnTheWay
<1> QED
  BY <1>1, <1>4, HostStep

\* The oldest packet is taken: what that means for its stream and the others.
LEMMA OldestTaken ==
    ASSUME WispInv, live = "up", up # <<>>
    PROVE  LET p == Head(up)
               s == p.s
               x == TakenOf(serve[s], target[s])
               y == Sent(call[s])
           IN  /\ p \in UpPacket /\ Tail(up) \in Seq(UpPacket)
               /\ \A r \in Streams : r # s => OnTheWay(Tail(up), r, call[r], serve[r], target[r])
               /\ call[s].st # "none" /\ (p.k = "connect" <=> serve[s].st = "none")
               /\ Opening(Tail(up), s, FALSE, FALSE)
               /\ Takes(serve[s]) /\ p.k # "data" => Line(Tail(up), s, x, y)
               /\ Takes(serve[s]) /\ p.k = "data" => p.n = x + 1 /\ Line(Tail(up), s, x + 1, y)
<1> DEFINE p == Head(up)
<1> DEFINE s == p.s
<1>1. /\ up \in Seq(UpPacket) /\ Tail(up) \in Seq(UpPacket) /\ p \in UpPacket /\ p = up[1] /\ 1 \in 1..Len(up)
  BY Rest DEF WispInv, WispTypes
<1>2. s \in Streams /\ p.k \in {"connect", "end", "close", "data"}
  BY <1>1 DEF UpPacket
<1>3. \A r \in Streams : /\ call[r] \in CallEntry /\ CallFine(call[r]) /\ serve[r] \in ServeEntry /\ target[r] \in Target
                         /\ OnTheWay(up, r, call[r], serve[r], target[r])
  BY DEF WispInv, WispTypes
<1> HIDE DEF p
<1>4. ASSUME NEW r \in Streams
      PROVE  /\ TakenOf(serve[r], target[r]) \in Nat /\ Sent(call[r]) \in Nat
             /\ Opening(up, r, call[r].st = "none", serve[r].st = "none")
             /\ Takes(serve[r]) => Line(up, r, TakenOf(serve[r], target[r]), Sent(call[r]))
  BY <1>3, TakenNat, SentNat DEF OnTheWay
<1>5. ASSUME NEW r \in Streams, r # s
      PROVE  OnTheWay(Tail(up), r, call[r], serve[r], target[r])
  <2>1. up[1].s # r /\ ~ Holds(up, 1, r)
    BY <1>1, <1>5 DEF Holds
  <2>2. Opening(Tail(up), r, call[r].st = "none", serve[r].st = "none")
    BY <1>1, <1>4, <2>1, OpeningTail
  <2>3. Takes(serve[r]) => Line(Tail(up), r, TakenOf(serve[r], target[r]), Sent(call[r]))
    BY <1>1, <1>4, <2>1, LineSkip
  <2> QED
    BY <2>2, <2>3 DEF OnTheWay
<1>6. call[s].st # "none" /\ (Connects(up, 1, s) <=> serve[s].st = "none")
  <2>1. up[1].s = s
    BY <1>1
  <2>2. Opening(up, s, call[s].st = "none", serve[s].st = "none")
    BY <1>2, <1>4
  <2> QED
    BY <1>1, <1>2, <2>1, <2>2, OpeningHead
<1>7. /\ p.k = "connect" <=> Connects(up, 1, s)
      /\ p.k = "data" <=> Holds(up, 1, s)
      /\ p.n = up[1].n
  BY <1>1 DEF Connects, Holds
<1>8. Opening(Tail(up), s, FALSE, FALSE)
  <2>1. Opening(up, s, FALSE, serve[s].st = "none")
    <3>1. (call[s].st = "none") = FALSE
      BY <1>6
    <3> QED
      BY <1>2, <1>4, <3>1
  <2>2. CASE serve[s].st = "none"
    <3>1. Opening(up, s, FALSE, TRUE) /\ Connects(up, 1, s)
      BY <1>6, <2>1, <2>2
    <3> QED
      BY <1>1, <1>2, <3>1, OpeningHeard
  <2>3. CASE serve[s].st # "none"
    <3>1. Opening(up, s, FALSE, FALSE)
      BY <2>1, <2>3
    <3> QED
      BY <1>1, <1>2, <3>1, OpeningTail
  <2> QED
    BY <2>2, <2>3
<1>9. Takes(serve[s]) /\ p.k # "data" => Line(Tail(up), s, TakenOf(serve[s], target[s]), Sent(call[s]))
  BY <1>1, <1>2, <1>4, <1>7, LineSkip
<1>10. Takes(serve[s]) /\ p.k = "data" =>
           p.n = TakenOf(serve[s], target[s]) + 1 /\ Line(Tail(up), s, TakenOf(serve[s], target[s]) + 1, Sent(call[s]))
  BY <1>1, <1>2, <1>4, <1>7, LineNext
<1>11. call[s].st # "none" /\ (p.k = "connect" <=> serve[s].st = "none")
  BY <1>6, <1>7
<1> QED
  BY <1>1, <1>5, <1>8, <1>9, <1>10, <1>11, Zenon DEF p

\* The host takes a packet of a stream and its entry follows.
LEMMA HostHears ==
    ASSUME WispInv, live = "up", up # <<>>, up' = Tail(up), live' = live, UNCHANGED <<call, said, target>>,
           NEW s \in Streams, s = Head(up).s, NEW e \in ServeEntry, serve' = [serve EXCEPT ![s] = e],
           NEW w \in Seq(DownPacket), Wisp!Flush(w), ServeFine(e, said[s], target[s]), e.st # "none",
           Takes(e) => Line(Tail(up), s, TakenOf(e, target[s]), Sent(call[s]))
    PROVE  WispInv'
<1>0. WispTypes
  BY DEF WispInv
<1>1. down' \in Seq(DownPacket) /\ Len(down') <= ROOM /\ outbox' \in Seq(DownPacket)
  BY <1>0, FlushFine
<1>2. /\ Tail(up) \in Seq(UpPacket) /\ call[s].st # "none"
      /\ \A r \in Streams : r # s => OnTheWay(Tail(up), r, call[r], serve[r], target[r])
      /\ Opening(Tail(up), s, FALSE, FALSE)
  BY OldestTaken, Zenon
<1>3. (call[s].st = "none") = FALSE /\ (e.st = "none") = FALSE
  BY <1>2
<1>4. OnTheWay(Tail(up), s, call[s], e, target[s])
  BY <1>2, <1>3 DEF OnTheWay
<1>5. said' = [said EXCEPT ![s] = said[s]] /\ target' = [target EXCEPT ![s] = target[s]]
  BY <1>0, Itself DEF WispTypes
<1>6. said[s] \in Seq(Words) /\ target[s] \in Target
  BY <1>0 DEF WispTypes
<1> QED
  BY <1>1, <1>2, <1>4, <1>5, <1>6, HostStep

\* A packet the host may send.
LEMMA Tells ==
    ASSUME NEW s \in Streams, NEW k \in {"data", "end", "close"}
    PROVE  Wisp!Tell(k, s) \in Seq(DownPacket)
<1>1. [k |-> k, s |-> s] \in DownPacket
  BY DEF DownPacket
<1> QED
  BY <1>1 DEF Wisp!Tell

\* A stream that is closed was reported closed once.
LEMMA ClosedFine ==
    ASSUME NEW e \in ServeEntry, NEW m, NEW t, InOrderOf(e, t), e.closed = 0, e.opened <= 1
    PROVE  /\ Wisp!Closed(e) \in ServeEntry /\ ServeFine(Wisp!Closed(e), m, t)
           /\ Wisp!Closed(e).st = "gone" /\ ~ Takes(Wisp!Closed(e))
<1> DEFINE c == Wisp!Closed(e)
<1>k. PICK k \in Nat : k = e.closed + 1
  OBVIOUS
<1>c. c = [e EXCEPT !.st = "gone", !.closed = k, !.toTcp = FALSE, !.writer = FALSE, !.reader = FALSE]
  BY <1>k DEF Wisp!Closed
<1> HIDE DEF c
<1>m. c \in ServeEntry
  BY <1>c DEF ServeEntry
<1>1. /\ c \in ServeEntry /\ c.st = "gone" /\ c.closed = 1 /\ c.toTcp = FALSE /\ c.opened = e.opened
      /\ c.work = e.work /\ c.early = e.early
  BY <1>c, <1>m, <1>k DEF ServeEntry
<1>2. InOrderOf(c, t)
  BY <1>1 DEF InOrderOf
<1>3. StageOf(c, m, t)
  BY <1>1 DEF StageOf
<1> QED
  BY <1>1, <1>2, <1>3 DEF ServeFine, c, Takes

\* A stream that is not gone was not reported closed.
LEMMA OpenFacts ==
    ASSUME NEW e \in ServeEntry, NEW m, NEW t, ServeFine(e, m, t), e.st # "gone"
    PROVE  InOrderOf(e, t) /\ e.closed = 0 /\ e.opened <= 1
  BY DEF ServeFine, StageOf

\* An end closes the stream, and none of the rest of it is taken.
LEMMA HostCloses ==
    ASSUME WispInv, live = "up", up # <<>>, up' = Tail(up), live' = live, UNCHANGED <<call, said, target>>,
           NEW s \in Streams, s = Head(up).s, NEW e \in ServeEntry, NEW tell \in BOOLEAN, Wisp!CloseStream(s, e, tell),
           InOrderOf(e, target[s]), e.closed = 0, e.opened <= 1
    PROVE  WispInv'
<1> DEFINE c == Wisp!Closed(e)
<1> DEFINE w == IF tell THEN Wisp!Tell("close", s) ELSE <<>>
<1>1. serve' = [serve EXCEPT ![s] = c] /\ Wisp!Flush(w)
  BY Zenon DEF Wisp!CloseStream, Wisp!Sets
<1>2. w \in Seq(DownPacket)
  BY Tells
<1>3. c \in ServeEntry /\ ServeFine(c, said[s], target[s]) /\ c.st = "gone" /\ ~ Takes(c)
  BY ClosedFine, Zenon
<1> HIDE DEF c, w
<1>4. c.st # "none"
  BY <1>3
<1> QED
  BY <1>1, <1>2, <1>3, <1>4, HostHears

\* The host opens a stream for a packet that asks for one, or turns it down
\* (on_connect).
LEMMA OnConnectKept ==
    ASSUME WispInv, live = "up", up # <<>>, up' = Tail(up), live' = live, UNCHANGED <<call, said, target>>,
           NEW s \in Streams, s = Head(up).s, Head(up).k = "connect", Wisp!OnConnect(s)
    PROVE  WispInv'
<1>1. serve[s] \in ServeEntry /\ ServeFine(serve[s], said[s], target[s]) /\ target[s] \in Target
  BY DEF WispInv, WispTypes
<1>2. /\ serve[s].st = "none"
      /\ Takes(serve[s]) => Line(Tail(up), s, TakenOf(serve[s], target[s]), Sent(call[s]))
  <2>1. Head(up).k # "data"
    OBVIOUS
  <2> QED
    BY <2>1, OldestTaken, Zenon
<1>3. CASE Wisp!CloseStream(s, serve[s], TRUE)
  <2>1. InOrderOf(serve[s], target[s]) /\ serve[s].closed = 0 /\ serve[s].opened <= 1
    BY <1>1, <1>2, OpenFacts
  <2>2. TRUE \in BOOLEAN
    OBVIOUS
  <2> QED
    BY <1>1, <1>3, <2>1, <2>2, HostCloses
<1>4. CASE Wisp!Sets(s, [Wisp!Idle EXCEPT !.st = "dialling"]) /\ Wisp!Flush(<<>>)
  <2> DEFINE e == [Wisp!Idle EXCEPT !.st = "dialling"]
  <2>1. /\ e \in ServeEntry /\ e.st = "dialling" /\ e.early = <<>> /\ e.work = <<>> /\ ~ e.toTcp /\ ~ e.writer /\ ~ e.reader
        /\ e.opened = 0 /\ e.closed = 0
    <3> DEFINE f == Wisp!Idle
    <3>1. f \in ServeEntry /\ f.early = <<>> /\ f.work = <<>> /\ f.toTcp = FALSE /\ f.writer = FALSE /\ f.reader = FALSE
      BY DEF Wisp!Idle, ServeEntry
    <3>2. f.opened = 0 /\ f.closed = 0
      BY DEF Wisp!Idle
    <3> HIDE DEF f
    <3>3. e \in ServeEntry /\ e.st = "dialling" /\ e.early = f.early /\ e.work = f.work /\ e.toTcp = f.toTcp
      BY <3>1 DEF ServeEntry, f
    <3>4. e.writer = f.writer /\ e.reader = f.reader /\ e.opened = f.opened /\ e.closed = f.closed
      BY <3>1 DEF ServeEntry, f
    <3> QED
      BY <3>1, <3>2, <3>3, <3>4
  <2>2. serve' = [serve EXCEPT ![s] = e]
    BY <1>4 DEF Wisp!Sets
  <2> HIDE DEF e
  <2>3. said[s] = <<>> /\ target[s].got = <<>> /\ serve[s].work = <<>> /\ serve[s].early = <<>>
    BY <1>1, <1>2 DEF ServeFine, StageOf
  <2>4. InOrderOf(e, target[s])
    BY <2>1, <2>3 DEF InOrderOf
  <2>5. StageOf(e, said[s], target[s])
    BY <2>1, <2>3 DEF StageOf
  <2>6. TakenOf(e, target[s]) = TakenOf(serve[s], target[s])
    BY <2>1, <2>3, Zenon DEF TakenOf
  <2>7. Takes(serve[s])
    BY <1>2 DEF Takes
  <2>8. ServeFine(e, said[s], target[s]) /\ e.st # "none" /\ <<>> \in Seq(DownPacket)
    BY <2>1, <2>4, <2>5 DEF ServeFine
  <2> QED
    BY <1>2, <1>4, <2>1, <2>2, <2>6, <2>7, <2>8, HostHears
<1> QED
  BY <1>3, <1>4 DEF Wisp!OnConnect

\* A run of numbers goes on with the next one.
LEMMA NextNumber ==
    ASSUME NEW q \in Seq(Nat), NEW x \in Nat, \A i \in 1..Len(q) : q[i] = x + i, NEW n \in Nat, n = x + Len(q) + 1
    PROVE  \E r \in Seq(Nat) : r = Append(q, n) /\ Len(r) = Len(q) + 1 /\ \A i \in 1..Len(r) : r[i] = x + i
<1>1. Append(q, n) \in Seq(Nat) /\ Len(Append(q, n)) = Len(q) + 1 /\ Len(q) \in Nat
  OBVIOUS
<1>2. ASSUME NEW i \in 1..Len(q) + 1
      PROVE  Append(q, n)[i] = x + i
  <2>1. CASE i <= Len(q)
    BY <2>1
  <2>2. CASE i = Len(q) + 1
    BY <2>2
  <2> QED
    BY <1>1, <2>1, <2>2
<1> QED
  BY <1>1, <1>2

\* Sums of three counts.
LEMMA Sums == \A i, j, k \in Nat : i + j \in Nat /\ i + j + k \in Nat /\ (k = 0 => i + j + k = i + j)
                                   /\ i + (j + 1) + k = i + j + k + 1 /\ i + j + (k + 1) = i + j + k + 1
  OBVIOUS

\* What is taken of a stream goes to its work, or is kept for its target.
LEMMA WorkTaken ==
    ASSUME NEW e \in ServeEntry, NEW t \in Target, NEW m, NEW n \in Nat, ServeFine(e, m, t), n = TakenOf(e, t) + 1,
           e.st = "open", e.toTcp
    PROVE  LET f == [e EXCEPT !.work = Append(@, n)]
           IN  f \in ServeEntry /\ ServeFine(f, m, t) /\ TakenOf(f, t) = TakenOf(e, t) + 1 /\ f.st = "open"
<1>1. PICK w \in Seq(Nat), a \in Seq(Nat), g \in Seq(Nat) : w = e.work /\ a = e.early /\ g = t.got
  BY DEF ServeEntry, Target
<1>2. Len(w) \in Nat /\ Len(a) \in Nat /\ Len(g) \in Nat
  BY <1>1
<1>3. TakenOf(e, t) = Len(g) + Len(w) + Len(a)
  BY <1>1, Zenon DEF TakenOf
<1>4. Len(a) = 0 /\ a = <<>>
  BY <1>1 DEF ServeFine, StageOf
<1>x. PICK x \in Nat : x = Len(g)
  BY <1>2
<1>6. \A i \in 1..Len(w) : w[i] = x + i
  BY <1>1, <1>x DEF ServeFine, InOrderOf
<1>7. PICK q \in Seq(Nat) : q = Append(w, n) /\ Len(q) = Len(w) + 1 /\ \A i \in 1..Len(q) : q[i] = x + i
  <2>1. n = x + Len(w) + 1
    BY <1>2, <1>3, <1>4, <1>x
  <2> QED
    BY <1>6, <2>1, NextNumber
<1> DEFINE f == [e EXCEPT !.work = Append(@, n)]
<1>8. f = [e EXCEPT !.work = q]
  BY <1>1, <1>7
<1> HIDE DEF f
<1>9. /\ f \in ServeEntry /\ f.work = q /\ f.st = e.st /\ f.early = e.early /\ f.toTcp = e.toTcp
      /\ f.endedIn = e.endedIn /\ f.opened = e.opened /\ f.closed = e.closed
  BY <1>8 DEF ServeEntry
<1>10. TakenOf(f, t) = Len(g) + (Len(w) + 1) + Len(a)
  BY <1>1, <1>7, <1>9, Zenon DEF TakenOf
<1>11. TakenOf(f, t) = TakenOf(e, t) + 1
  BY <1>2, <1>3, <1>10, Sums
<1>12. InOrderOf(f, t)
  <2>1. Len(f.early) = 0 /\ \A i \in 1..Len(g) : g[i] = i
    BY <1>1, <1>4, <1>9 DEF InOrderOf, ServeFine
  <2>2. \A i \in 1..Len(f.work) : f.work[i] = Len(g) + i
    BY <1>7, <1>9, <1>x
  <2> QED
    BY <1>1, <2>1, <2>2 DEF InOrderOf
<1>13. StageOf(f, m, t)
  BY <1>9 DEF StageOf, ServeFine
<1> QED
  BY <1>9, <1>11, <1>12, <1>13 DEF ServeFine, f

\* Data that comes before its target is dialled is kept in order.
LEMMA EarlyTaken ==
    ASSUME NEW e \in ServeEntry, NEW t \in Target, NEW m, NEW n \in Nat, ServeFine(e, m, t), n = TakenOf(e, t) + 1,
           e.st = "dialling"
    PROVE  LET f == [e EXCEPT !.early = Append(@, n)]
           IN  f \in ServeEntry /\ ServeFine(f, m, t) /\ TakenOf(f, t) = TakenOf(e, t) + 1 /\ f.st = "dialling"
<1>1. PICK w \in Seq(Nat), a \in Seq(Nat), g \in Seq(Nat) : w = e.work /\ a = e.early /\ g = t.got
  BY DEF ServeEntry, Target
<1>2. Len(w) \in Nat /\ Len(a) \in Nat /\ Len(g) \in Nat /\ Len(g) + Len(w) \in Nat
  <2>1. Len(w) \in Nat /\ Len(a) \in Nat /\ Len(g) \in Nat
    BY <1>1
  <2> QED
    BY <2>1, Sums
<1>3. TakenOf(e, t) = Len(g) + Len(w) + Len(a)
  BY <1>1, Zenon DEF TakenOf
<1>x. PICK x \in Nat : x = Len(g) + Len(w)
  BY <1>2
<1>6. \A i \in 1..Len(a) : a[i] = x + i
  BY <1>1, <1>x DEF ServeFine, InOrderOf
<1>7. PICK q \in Seq(Nat) : q = Append(a, n) /\ Len(q) = Len(a) + 1 /\ \A i \in 1..Len(q) : q[i] = x + i
  <2>1. n = x + Len(a) + 1
    BY <1>2, <1>3, <1>x
  <2> QED
    BY <1>6, <2>1, NextNumber
<1> DEFINE f == [e EXCEPT !.early = Append(@, n)]
<1>8. f = [e EXCEPT !.early = q]
  BY <1>1, <1>7
<1> HIDE DEF f
<1>9. /\ f \in ServeEntry /\ f.early = q /\ f.st = e.st /\ f.work = e.work /\ f.toTcp = e.toTcp /\ f.endedIn = e.endedIn
      /\ f.opened = e.opened /\ f.closed = e.closed /\ f.writer = e.writer /\ f.reader = e.reader
  BY <1>8 DEF ServeEntry
<1>10. TakenOf(f, t) = Len(g) + Len(w) + (Len(a) + 1)
  BY <1>1, <1>7, <1>9, Zenon DEF TakenOf
<1>11. TakenOf(f, t) = TakenOf(e, t) + 1
  BY <1>2, <1>3, <1>10, Sums
<1>12. InOrderOf(f, t)
  BY <1>1, <1>7, <1>9, <1>x DEF InOrderOf, ServeFine
<1>13. StageOf(f, m, t)
  BY <1>9 DEF StageOf, ServeFine
<1> QED
  BY <1>9, <1>11, <1>12, <1>13 DEF ServeFine, f

\* The host takes data: kept, put to work or, with no room, answered by a close
\* (on_wisp).
LEMMA OnDataKept ==
    ASSUME WispInv, live = "up", up # <<>>, up' = Tail(up), live' = live, UNCHANGED <<call, said, target>>,
           NEW s \in Streams, s = Head(up).s, Head(up).k = "data", Wisp!Has(serve, s), Wisp!OnData(s, Head(up).n)
    PROVE  WispInv'
<1> DEFINE n == Head(up).n
<1> DEFINE d == serve[s]
<1> DEFINE t == target[s]
<1>1. d \in ServeEntry /\ ServeFine(d, said[s], t) /\ t \in Target
  BY DEF WispInv, WispTypes
<1>2. Takes(d) => n = TakenOf(d, t) + 1 /\ Line(Tail(up), s, TakenOf(d, t) + 1, Sent(call[s]))
  BY OldestTaken, Zenon
<1>3. TakenOf(d, t) \in Nat /\ d.st \in {"dialling", "open"}
  BY <1>1, TakenNat DEF Wisp!Has, ServeEntry
<1>n. n \in Nat
  <2>1. Head(up) \in UpPacket
    BY OldestTaken, Zenon
  <2> QED
    BY <2>1 DEF UpPacket
<1>4. PICK k \in Nat : k = d.queued + 1
  BY <1>1 DEF ServeEntry
<1> DEFINE e == [d EXCEPT !.queued = k]
<1>5. /\ e \in ServeEntry /\ e.st = d.st /\ e.early = d.early /\ e.work = d.work /\ e.toTcp = d.toTcp /\ e.endedIn = d.endedIn
      /\ e.opened = d.opened /\ e.closed = d.closed /\ e.writer = d.writer /\ e.reader = d.reader /\ e.queued = k
  BY <1>1 DEF ServeEntry
<1>6. \/ Wisp!CloseStream(s, e, TRUE)
      \/ Wisp!Flush(<<>>) /\ e.toTcp /\ serve' = [serve EXCEPT ![s] = [e EXCEPT !.work = Append(@, n)]]
      \/ Wisp!Flush(<<>>) /\ ~ e.toTcp /\ e.endedIn /\ serve' = [serve EXCEPT ![s] = e]
      \/ Wisp!Flush(<<>>) /\ ~ e.toTcp /\ ~ e.endedIn /\ serve' = [serve EXCEPT ![s] = [e EXCEPT !.early = Append(@, n)]]
  BY <1>4 DEF Wisp!OnData, Wisp!Sets
<1>7. InOrderOf(d, t) /\ StageOf(d, said[s], t)
  BY <1>1 DEF ServeFine
<1> HIDE DEF n, d, e, t
<1>8. InOrderOf(e, t) /\ StageOf(e, said[s], t) /\ TakenOf(e, t) = TakenOf(d, t) /\ (Takes(e) <=> Takes(d))
  <2>1. InOrderOf(e, t)
    BY <1>5, <1>7 DEF InOrderOf
  <2>2. StageOf(e, said[s], t)
    BY <1>5, <1>7 DEF StageOf
  <2>3. TakenOf(e, t) = TakenOf(d, t)
    BY <1>5, Zenon DEF TakenOf
  <2>4. Takes(e) <=> Takes(d)
    BY <1>5 DEF Takes
  <2> QED
    BY <2>1, <2>2, <2>3, <2>4
<1>9. e.closed = 0 /\ e.opened <= 1
  BY <1>3, <1>5, <1>8 DEF StageOf
<1>11. CASE Wisp!CloseStream(s, e, TRUE)
  BY <1>5, <1>8, <1>9, <1>11, HostCloses DEF t
<1>12. CASE Wisp!Flush(<<>>) /\ e.toTcp /\ serve' = [serve EXCEPT ![s] = [e EXCEPT !.work = Append(@, n)]]
  <2> DEFINE f == [e EXCEPT !.work = Append(@, n)]
  <2>1. serve' = [serve EXCEPT ![s] = f] /\ f = [e EXCEPT !.work = Append(@, n)]
    BY <1>12
  <2> HIDE DEF f
  <2>2. e.st = "open" /\ Takes(e)
    BY <1>3, <1>5, <1>8, <1>12 DEF StageOf, Takes
  <2>3. n = TakenOf(e, t) + 1 /\ Line(Tail(up), s, TakenOf(e, t) + 1, Sent(call[s])) /\ ServeFine(e, said[s], t)
    BY <1>2, <1>8, <2>2 DEF ServeFine
  <2>4. f \in ServeEntry /\ ServeFine(f, said[s], t) /\ TakenOf(f, t) = TakenOf(e, t) + 1 /\ f.st = "open"
    <3>1. e \in ServeEntry /\ t \in Target /\ n \in Nat /\ (e.toTcp \/ ~ e.toTcp)
      BY <1>1, <1>5, <1>n
    <3> QED
      BY <1>12, <2>2, <2>3, <3>1, WorkTaken DEF f
  <2>5. f.st # "none" /\ <<>> \in Seq(DownPacket) /\ Line(Tail(up), s, TakenOf(f, t), Sent(call[s]))
    BY <2>3, <2>4
  <2> QED
    BY <1>12, <2>1, <2>4, <2>5, HostHears DEF t
<1>13. CASE Wisp!Flush(<<>>) /\ ~ e.toTcp /\ e.endedIn /\ serve' = [serve EXCEPT ![s] = e]
  <2>1. ~ Takes(e) /\ e.st # "none"
    BY <1>3, <1>5, <1>13 DEF Takes
  <2>2. ServeFine(e, said[s], t) /\ <<>> \in Seq(DownPacket)
    BY <1>8 DEF ServeFine
  <2> QED
    BY <1>5, <1>13, <2>1, <2>2, HostHears DEF t
<1>14. CASE Wisp!Flush(<<>>) /\ ~ e.toTcp /\ ~ e.endedIn /\ serve' = [serve EXCEPT ![s] = [e EXCEPT !.early = Append(@, n)]]
  <2> DEFINE f == [e EXCEPT !.early = Append(@, n)]
  <2>1. serve' = [serve EXCEPT ![s] = f] /\ f = [e EXCEPT !.early = Append(@, n)]
    BY <1>14
  <2> HIDE DEF f
  <2>2. e.st = "dialling" /\ Takes(e)
    BY <1>3, <1>5, <1>8, <1>14 DEF StageOf, Takes
  <2>3. n = TakenOf(e, t) + 1 /\ Line(Tail(up), s, TakenOf(e, t) + 1, Sent(call[s])) /\ ServeFine(e, said[s], t)
    BY <1>2, <1>8, <2>2 DEF ServeFine
  <2>4. f \in ServeEntry /\ ServeFine(f, said[s], t) /\ TakenOf(f, t) = TakenOf(e, t) + 1 /\ f.st = "dialling"
    <3>1. e \in ServeEntry /\ t \in Target /\ n \in Nat /\ (e.toTcp \/ ~ e.toTcp)
      BY <1>1, <1>5, <1>n
    <3> QED
      BY <2>2, <2>3, <3>1, EarlyTaken DEF f
  <2>5. f.st # "none" /\ <<>> \in Seq(DownPacket) /\ Line(Tail(up), s, TakenOf(f, t), Sent(call[s]))
    BY <2>3, <2>4
  <2> QED
    BY <1>14, <2>1, <2>4, <2>5, HostHears DEF t
<1> QED
  BY <1>6, <1>11, <1>12, <1>13, <1>14

\* What a stream is at does not depend on its counts, nor on the half that ended.
LEMMA Alike ==
    ASSUME NEW e, NEW m, NEW t, ServeFine(e, m, t), NEW f, NEW l, NEW r,
           f.st = e.st, f.early = e.early, f.work = e.work, f.opened = e.opened, f.closed = e.closed, r.got = t.got,
           e.st # "none", f.toTcp => ~ f.endedIn,
           e.st = "open" => (f.toTcp \/ f.endedIn) /\ \A i \in 1..Len(l) : l[i] # "connected",
           e.st = "dialling" => /\ l \in {<<>>, <<"connected">>, <<"failed">>} /\ ~ f.toTcp /\ ~ f.writer /\ ~ f.reader
    PROVE  ServeFine(f, l, r) /\ TakenOf(f, r) = TakenOf(e, t)
<1>1. InOrderOf(f, r)
  BY DEF ServeFine, InOrderOf
<1>2. StageOf(f, l, r)
  BY DEF ServeFine, StageOf
<1>3. TakenOf(f, r) = TakenOf(e, t)
  BY Zenon DEF TakenOf
<1> QED
  BY <1>1, <1>2, <1>3 DEF ServeFine

\* A stream that is held is dialled or open.
LEMMA Held ==
    ASSUME WispInv, NEW s \in Streams, Wisp!Has(serve, s)
    PROVE  /\ serve[s] \in ServeEntry /\ said[s] \in Seq(Words) /\ target[s] \in Target
           /\ serve[s].st \in {"dialling", "open"} /\ serve[s].st # "none" /\ serve[s].st # "gone"
           /\ ServeFine(serve[s], said[s], target[s])
           /\ InOrderOf(serve[s], target[s]) /\ serve[s].closed = 0 /\ serve[s].opened <= 1
<1>1. /\ serve[s] \in ServeEntry /\ said[s] \in Seq(Words) /\ target[s] \in Target
      /\ ServeFine(serve[s], said[s], target[s])
  BY DEF WispInv, WispTypes
<1>2. serve[s].st \in {"dialling", "open"} /\ serve[s].st # "none" /\ serve[s].st # "gone"
  BY <1>1 DEF Wisp!Has, ServeEntry
<1> QED
  BY <1>1, <1>2, OpenFacts

\* The host takes the caller's end of a stream, after its data (on_wisp).
LEMMA OnEndKept ==
    ASSUME WispInv, live = "up", up # <<>>, up' = Tail(up), live' = live, UNCHANGED <<call, said, target>>,
           NEW s \in Streams, s = Head(up).s, Head(up).k = "end", Wisp!Has(serve, s), Wisp!OnEnd(s)
    PROVE  WispInv'
<1> DEFINE d == serve[s]
<1> DEFINE e == [d EXCEPT !.endedIn = TRUE, !.toTcp = FALSE]
<1>1. /\ d \in ServeEntry /\ d.st \in {"dialling", "open"} /\ d.st # "none" /\ ServeFine(d, said[s], target[s])
      /\ d.closed = 0 /\ d.opened <= 1
  BY Held
<1>2. \/ Wisp!CloseStream(s, e, TRUE)
      \/ serve' = [serve EXCEPT ![s] = e] /\ Wisp!Flush(<<>>)
  BY DEF Wisp!OnEnd, Wisp!Sets
<1> HIDE DEF d
<1>3. /\ e \in ServeEntry /\ e.st = d.st /\ e.early = d.early /\ e.work = d.work /\ e.toTcp = FALSE /\ e.endedIn = TRUE
      /\ e.opened = d.opened /\ e.closed = d.closed /\ e.writer = d.writer /\ e.reader = d.reader
  BY <1>1 DEF ServeEntry
<1> HIDE DEF e
<1>4. ServeFine(e, said[s], target[s]) /\ ~ Takes(e) /\ e.st # "none"
  <2>1. /\ d.st = "open" => \A i \in 1..Len(said[s]) : said[s][i] # "connected"
        /\ d.st = "dialling" => said[s] \in {<<>>, <<"connected">>, <<"failed">>} /\ ~ d.writer /\ ~ d.reader
    BY <1>1 DEF ServeFine, StageOf
  <2>2. ServeFine(e, said[s], target[s])
    BY <1>1, <1>3, <2>1, Alike
  <2> QED
    BY <1>1, <1>3, <2>2 DEF Takes
<1>5. InOrderOf(e, target[s]) /\ e.closed = 0 /\ e.opened <= 1 /\ TRUE \in BOOLEAN /\ <<>> \in Seq(DownPacket)
  BY <1>1, <1>3, <1>4 DEF ServeFine
<1>6. CASE Wisp!CloseStream(s, e, TRUE)
  BY <1>3, <1>5, <1>6, HostCloses
<1>7. CASE serve' = [serve EXCEPT ![s] = e] /\ Wisp!Flush(<<>>)
  BY <1>3, <1>4, <1>5, <1>7, HostHears
<1> QED
  BY <1>2, <1>6, <1>7

\* The host takes a packet.
LEMMA HostReceiveKept ==
    ASSUME WispInv, Wisp!HostReceive
    PROVE  WispInv'
<1> DEFINE p == Head(up)
<1> DEFINE s == p.s
<1>1. live = "up" /\ up # <<>> /\ up' = Tail(up) /\ live' = live /\ UNCHANGED <<call, said, target>>
  BY DEF Wisp!HostReceive
<1>2. p \in UpPacket /\ (p.k = "connect" <=> serve[s].st = "none")
  BY <1>1, OldestTaken, Zenon
<1>3. s \in Streams
  BY <1>2 DEF UpPacket
<1>4. CASE p.k = "connect" /\ Wisp!OnConnect(s)
  BY <1>1, <1>3, <1>4, OnConnectKept
<1>5. CASE p.k # "connect" /\ ~ Wisp!Has(serve, s) /\ Wisp!Flush(<<>>) /\ UNCHANGED serve
  <2>1. serve[s] \in ServeEntry /\ serve = [serve EXCEPT ![s] = serve[s]] /\ ServeFine(serve[s], said[s], target[s])
    BY <1>3, Itself DEF WispInv, WispTypes
  <2>2. serve[s].st = "gone"
    BY <1>2, <1>5, <2>1 DEF Wisp!Has, ServeEntry
  <2>3. ~ Takes(serve[s]) /\ serve[s].st # "none" /\ <<>> \in Seq(DownPacket) /\ serve' = [serve EXCEPT ![s] = serve[s]]
    BY <1>5, <2>1, <2>2 DEF Takes
  <2> QED
    BY <1>1, <1>3, <1>5, <2>1, <2>3, HostHears
<1>6. CASE Wisp!Has(serve, s) /\ p.k = "data" /\ Wisp!OnData(s, p.n)
  BY <1>1, <1>3, <1>6, OnDataKept
<1>7. CASE Wisp!Has(serve, s) /\ p.k = "end" /\ Wisp!OnEnd(s)
  BY <1>1, <1>3, <1>7, OnEndKept
<1>8. CASE Wisp!Has(serve, s) /\ p.k = "close" /\ Wisp!CloseStream(s, serve[s], FALSE)
  <2>1. serve[s] \in ServeEntry /\ InOrderOf(serve[s], target[s]) /\ serve[s].closed = 0 /\ serve[s].opened <= 1
    BY <1>3, <1>8, Held
  <2>2. FALSE \in BOOLEAN
    OBVIOUS
  <2> QED
    BY <1>1, <1>3, <1>8, <2>1, <2>2, HostCloses
<1> QED
  BY <1>4, <1>5, <1>6, <1>7, <1>8 DEF Wisp!HostReceive

\* A step of the host that takes no packet, of a stream that is held; its
\* words to the caller go through flush, or there are none.
LEMMA HeldStep ==
    ASSUME WispInv, NEW s \in Streams, Wisp!Has(serve, s), live' = live, UNCHANGED <<call, up>>,
           NEW e \in ServeEntry, NEW m \in Seq(Words), NEW t \in Target,
           serve' = [serve EXCEPT ![s] = e], said' = [said EXCEPT ![s] = m], target' = [target EXCEPT ![s] = t],
           \/ UNCHANGED <<down, outbox>>
           \/ \E w \in Seq(DownPacket) : Wisp!Flush(w),
           ServeFine(e, m, t), e.st # "none",
           Takes(e) => Takes(serve[s]) /\ TakenOf(e, t) = TakenOf(serve[s], target[s]),
           live = "up"
    PROVE  WispInv'
<1>0. WispTypes
  BY DEF WispInv
<1>1. down' \in Seq(DownPacket) /\ Len(down') <= ROOM /\ outbox' \in Seq(DownPacket)
  BY <1>0, FlushFine DEF WispTypes
<1>2. serve[s].st # "none"
  BY Held
<1> QED
  BY <1>1, <1>2, HostAlone

\* A stream that is held is closed, of whatever its tasks say of it.
LEMMA HeldCloses ==
    ASSUME WispInv, NEW s \in Streams, Wisp!Has(serve, s), live' = live, live = "up", UNCHANGED <<call, up>>,
           NEW e \in ServeEntry, NEW m \in Seq(Words), said' = [said EXCEPT ![s] = m], UNCHANGED target,
           InOrderOf(e, target[s]), e.closed = 0, e.opened <= 1,
           serve' = [serve EXCEPT ![s] = Wisp!Closed(e)], NEW w \in Seq(DownPacket), Wisp!Flush(w)
    PROVE  WispInv'
<1>0. target \in [Streams -> Target]
  BY DEF WispInv, WispTypes
<1>1. target' = [target EXCEPT ![s] = target[s]] /\ target[s] \in Target
  BY <1>0, Itself
<1> DEFINE c == Wisp!Closed(e)
<1>2. c \in ServeEntry /\ ServeFine(c, m, target[s]) /\ c.st = "gone" /\ ~ Takes(c)
  BY ClosedFine, Zenon
<1>3. serve' = [serve EXCEPT ![s] = c]
  OBVIOUS
<1> HIDE DEF c
<1>4. c.st # "none"
  BY <1>2
<1> QED
  BY <1>1, <1>2, <1>3, <1>4, HeldStep

\* A stream nobody uses is closed.
LEMMA IdleStreamKept ==
    ASSUME WispInv, Wisp!IdleStream
    PROVE  WispInv'
<1>1. PICK s \in Wisp!Open : Wisp!CloseStream(s, serve[s], TRUE)
  BY DEF Wisp!IdleStream
<1>2. live = "up" /\ live' = live /\ UNCHANGED <<call, up, said, target>> /\ s \in Streams /\ Wisp!Has(serve, s)
  BY <1>1 DEF Wisp!IdleStream, Wisp!Open
<1>3. said' = [said EXCEPT ![s] = said[s]]
  BY <1>2, Itself DEF WispInv, WispTypes
<1>4. serve' = [serve EXCEPT ![s] = Wisp!Closed(serve[s])] /\ Wisp!Flush(Wisp!Tell("close", s))
  BY <1>1 DEF Wisp!CloseStream, Wisp!Sets
<1>5. Wisp!Tell("close", s) \in Seq(DownPacket)
  BY <1>2, Tells
<1> QED
  BY <1>2, <1>3, <1>4, <1>5, Held, HeldCloses

\* The channel takes what waits for room in it.
LEMMA RoomKept ==
    ASSUME WispInv, Wisp!Room
    PROVE  WispInv'
<1>1. live' = live /\ UNCHANGED <<call, serve, up, said, target>> /\ Wisp!Flush(<<>>)
  BY DEF Wisp!Room
<1>2. WispTypes /\ <<>> \in Seq(DownPacket)
  BY DEF WispInv
<1>3. down' \in Seq(DownPacket) /\ Len(down') <= ROOM /\ outbox' \in Seq(DownPacket)
  BY <1>1, <1>2, FlushFine
<1>4. WispTypes'
  BY <1>1, <1>2, <1>3 DEF WispTypes
<1> QED
  BY <1>1, <1>4, Quiet

\* The host hears what the caller can do (on_control).
LEMMA HearFeaturesKept ==
    ASSUME WispInv, Wisp!HearFeatures
    PROVE  WispInv'
<1>1. live' = live /\ UNCHANGED <<call, serve, up, said, target, down, outbox>>
  BY DEF Wisp!HearFeatures
<1>2. WispTypes'
  BY <1>1 DEF WispInv, WispTypes
<1> QED
  BY <1>1, <1>2, Quiet

\* A word of a stream's tasks.
LEMMA Said ==
    ASSUME NEW m \in Seq(Words), NEW k \in Words
    PROVE  /\ Append(m, k) \in Seq(Words)
           /\ k # "connected" /\ (\A i \in 1..Len(m) : m[i] # "connected") =>
                  \A i \in 1..Len(Append(m, k)) : Append(m, k)[i] # "connected"
<1>1. Len(Append(m, k)) = Len(m) + 1 /\ \A i \in 1..Len(m) + 1 : Append(m, k)[i] = IF i = Len(m) + 1 THEN k ELSE m[i]
  OBVIOUS
<1>2. \A i \in 1..Len(m) + 1 : i = Len(m) + 1 \/ i \in 1..Len(m)
  OBVIOUS
<1> QED
  BY <1>1, <1>2

\* What is left to hear of a dial or of a task.
LEMMA Unsaid ==
    ASSUME NEW m \in Seq(Words), m # <<>>
    PROVE  /\ Tail(m) \in Seq(Words) /\ Head(m) = m[1] /\ 1 \in 1..Len(m)
           /\ (\A i \in 1..Len(m) : m[i] # "connected") => \A i \in 1..Len(Tail(m)) : Tail(m)[i] # "connected"
  BY Rest

\* The dial is answered: what was kept for the target is its work.
LEMMA ConnectedFine ==
    ASSUME NEW e \in ServeEntry, NEW m, NEW t \in Target, ServeFine(e, m, t), e.st = "dialling",
           NEW f \in ServeEntry, f.st = "open", f.opened = e.opened + 1, f.work = e.early, f.early = <<>>,
           f.toTcp <=> ~ e.endedIn, f.endedIn = e.endedIn, f.closed = e.closed
    PROVE  ServeFine(f, <<>>, t) /\ (Takes(f) => Takes(e) /\ TakenOf(f, t) = TakenOf(e, t))
<1>1. /\ f \in ServeEntry /\ f.st = "open" /\ f.work = e.early /\ f.early = <<>> /\ (f.toTcp <=> ~ e.endedIn)
      /\ f.endedIn = e.endedIn /\ f.closed = e.closed
  OBVIOUS
<1>2. t.got = <<>> /\ e.work = <<>> /\ e.opened = 0 /\ e.closed = 0 /\ Len(t.got) = 0 /\ Len(e.work) = 0 /\ Len(f.early) = 0
  BY <1>1 DEF ServeFine, StageOf
<1>3. e.early \in Seq(Nat) /\ Len(e.early) \in Nat
  BY DEF ServeEntry
<1>4. \A i \in 1..Len(f.work) : f.work[i] = Len(t.got) + i
  BY <1>1, <1>2, <1>3 DEF ServeFine, InOrderOf
<1>5. InOrderOf(f, t)
  BY <1>1, <1>2, <1>4 DEF InOrderOf
<1>6. StageOf(f, <<>>, t)
  <2>1. f.opened = 1 /\ Len(<<>>) = 0 /\ (f.toTcp \/ f.endedIn) /\ (f.toTcp => ~ f.endedIn)
    <3>1. f.opened = 0 + 1
      BY <1>2
    <3>2. (f.toTcp \/ f.endedIn) /\ (f.toTcp => ~ f.endedIn)
      BY <1>1, Zenon
    <3> QED
      BY <3>1, <3>2
  <2> QED
    BY <1>1, <1>2, <2>1 DEF StageOf
<1>7. TakenOf(f, t) = 0 + Len(e.early) + 0 /\ TakenOf(e, t) = 0 + 0 + Len(e.early)
  BY <1>1, <1>2, Zenon DEF TakenOf
<1>8. TakenOf(f, t) = TakenOf(e, t)
  BY <1>3, <1>7
<1>9. Takes(f) => Takes(e)
  BY <1>1 DEF Takes
<1> QED
  BY <1>1, <1>5, <1>6, <1>8, <1>9 DEF ServeFine

\* The host hears of a dial or of a task of one of its streams (on_internal).
LEMMA HostInternalKept ==
    ASSUME WispInv, NEW s \in Streams, Wisp!HostInternal(s)
    PROVE  WispInv'
<1> DEFINE d == serve[s]
<1> DEFINE t == target[s]
<1> DEFINE m == said[s]
<1> DEFINE k == Head(m)
<1> DEFINE l == Tail(m)
<1>1. /\ live = "up" /\ live' = live /\ UNCHANGED <<call, up, target>>
      /\ m # <<>> /\ said' = [said EXCEPT ![s] = l]
  BY DEF Wisp!HostInternal
<1>2. m \in Seq(Words) /\ target \in [Streams -> Target] /\ serve \in [Streams -> ServeEntry] /\ WispTypes
  BY DEF WispInv, WispTypes
<1>3. l \in Seq(Words) /\ k = m[1] /\ 1 \in 1..Len(m)
  BY <1>1, <1>2, Unsaid
<1>4. target' = [target EXCEPT ![s] = t] /\ t \in Target /\ serve = [serve EXCEPT ![s] = d]
  BY <1>1, <1>2, Itself
<1>5. CASE ~ Wisp!Has(serve, s) /\ Wisp!Flush(<<>>) /\ UNCHANGED serve
  <2>1. d \in ServeEntry /\ ServeFine(d, m, t) /\ d.st # "none"
    BY <1>1, <1>2 DEF WispInv, ServeFine, StageOf
  <2>2. d.st = "gone"
    BY <1>5, <2>1 DEF Wisp!Has, ServeEntry
  <2>3. ServeFine(d, l, t)
    BY <2>1, <2>2 DEF ServeFine, StageOf
  <2>4. down' \in Seq(DownPacket) /\ Len(down') <= ROOM /\ outbox' \in Seq(DownPacket)
    <3>1. <<>> \in Seq(DownPacket)
      OBVIOUS
    <3> QED
      BY <1>2, <1>5, <3>1, FlushFine
  <2>5. serve' = [serve EXCEPT ![s] = d]
    BY <1>4, <1>5
  <2> HIDE DEF d, t, l, m
  <2> QED
    BY <1>1, <1>3, <1>4, <2>1, <2>3, <2>4, <2>5, HostAlone DEF d, t
<1>6. CASE Wisp!Has(serve, s)
  <2>1. /\ d \in ServeEntry /\ d.st \in {"dialling", "open"} /\ d.st # "none" /\ ServeFine(d, m, t)
        /\ InOrderOf(d, t) /\ d.closed = 0 /\ d.opened <= 1
    BY <1>6, Held
  <2>2. /\ d.st = "open" => (d.toTcp \/ d.endedIn) /\ \A i \in 1..Len(m) : m[i] # "connected"
        /\ d.st = "dialling" => m \in {<<"connected">>, <<"failed">>} /\ ~ d.toTcp /\ ~ d.writer /\ ~ d.reader
        /\ d.toTcp => ~ d.endedIn
    BY <1>1, <2>1 DEF ServeFine, StageOf
  <2>3. /\ d.st = "open" => k # "connected" /\ \A i \in 1..Len(l) : l[i] # "connected"
        /\ d.st = "dialling" => k \in {"connected", "failed"} /\ l = <<>>
    <3>1. d.st = "open" => k # "connected" /\ \A i \in 1..Len(l) : l[i] # "connected"
      BY <1>1, <1>2, <1>3, <2>2, Unsaid
    <3>2. ASSUME NEW x \in {"connected", "failed"}, m = <<x>>
          PROVE  k = x /\ l = <<>>
      BY <3>2
    <3> QED
      BY <2>2, <3>1, <3>2
  <2>4. \/ k = "connected" /\ Wisp!OnConnected(s)
        \/ Wisp!CloseStream(s, d, TRUE)
        \/ k = "bytes" /\ Wisp!Flush(<<[k |-> "data", s |-> s]>>) /\ UNCHANGED serve
        \/ k = "written" /\ Wisp!OnWritten(s)
        \/ k \in {"done", "broken"} /\ Wisp!OnTcpDone(s, k = "done")
    BY <1>6 DEF Wisp!HostInternal
  <2> HIDE DEF d, t, m, k, l
  \* A stream that was open stays so: only its counts and its ends moved.
  <2>5. ASSUME NEW e \in ServeEntry, serve' = [serve EXCEPT ![s] = e], NEW w \in Seq(DownPacket), Wisp!Flush(w),
               e.st = d.st, e.early = d.early, e.work = d.work, e.opened = d.opened, e.closed = d.closed,
               e.toTcp = d.toTcp, e.endedIn = d.endedIn, d.st = "open"
        PROVE  WispInv'
    <3>1. ServeFine(e, l, t) /\ TakenOf(e, t) = TakenOf(d, t)
      <4>1. e.st # "dialling" /\ e.st = d.st /\ d.st # "none"
        BY <2>1, <2>5
      <4>2. (e.toTcp \/ e.endedIn) /\ (e.toTcp => ~ e.endedIn) /\ \A i \in 1..Len(l) : l[i] # "connected"
        BY <2>2, <2>3, <2>5
      <4>3. /\ e.early = d.early /\ e.work = d.work /\ e.opened = d.opened /\ e.closed = d.closed
            /\ ServeFine(d, m, t) /\ t.got = t.got
        BY <2>1, <2>5
      <4> QED
        BY <4>1, <4>2, <4>3, Alike
    <3>2. Takes(e) => Takes(d)
      BY <2>5 DEF Takes
    <3> QED
      BY <1>1, <1>3, <1>4, <1>6, <2>1, <2>5, <3>1, <3>2, HeldStep DEF d, t
  \* A stream that was held is closed.
  <2>6. ASSUME NEW e \in ServeEntry, serve' = [serve EXCEPT ![s] = Wisp!Closed(e)], NEW w \in Seq(DownPacket), Wisp!Flush(w),
               e.early = d.early, e.work = d.work, e.opened = d.opened, e.closed = d.closed
        PROVE  WispInv'
    <3>1. InOrderOf(e, t) /\ e.closed = 0 /\ e.opened <= 1
      BY <2>1, <2>6 DEF InOrderOf
    <3> QED
      BY <1>1, <1>3, <1>6, <2>6, <3>1, HeldCloses DEF t
  <2>t. Wisp!Tell("close", s) \in Seq(DownPacket) /\ Wisp!Tell("end", s) \in Seq(DownPacket) /\ <<>> \in Seq(DownPacket)
    BY Tells
  <2>7. CASE k = "connected" /\ Wisp!OnConnected(s)
    <3>1. d.st = "dialling" /\ l = <<>>
      BY <2>1, <2>3, <2>7
    <3>2. PICK o \in Nat : o = d.opened + 1
      BY <2>1 DEF ServeEntry
    <3>3. PICK g \in BOOLEAN : g = ~ d.endedIn
      OBVIOUS
    <3>x. PICK a \in Seq(Nat) : a = d.early
      BY <2>1 DEF ServeEntry
    <3>e. <<>> \in Seq(Nat)
      OBVIOUS
    <3>y. PICK b \in Seq(Nat) : b = <<>>
      BY <3>e
    <3> DEFINE f == [d EXCEPT !.st = "open", !.opened = o, !.work = a, !.early = b, !.toTcp = g,
                              !.writer = TRUE, !.reader = TRUE]
    <3>4. serve' = [serve EXCEPT ![s] = f] /\ Wisp!Flush(<<>>)
      BY <2>7, <3>2, <3>3, <3>x, <3>y DEF Wisp!OnConnected, Wisp!Sets, d
    <3>5. /\ f \in ServeEntry /\ f.st = "open" /\ f.opened = o /\ f.work = a /\ f.early = b /\ f.toTcp = g
          /\ f.endedIn = d.endedIn /\ f.closed = d.closed
      <4> DEFINE v == [d EXCEPT !.st = "open", !.opened = o, !.work = a]
      <4> DEFINE w == [v EXCEPT !.early = b, !.toTcp = g]
      <4>1. v \in ServeEntry /\ v.st = "open" /\ v.opened = o /\ v.work = a /\ v.endedIn = d.endedIn /\ v.closed = d.closed
        BY <2>1 DEF ServeEntry
      <4>2. f = [w EXCEPT !.writer = TRUE, !.reader = TRUE]
        BY <2>1 DEF ServeEntry
      <4> HIDE DEF v, f
      <4>3. /\ w \in ServeEntry /\ w.st = v.st /\ w.opened = v.opened /\ w.work = v.work /\ w.endedIn = v.endedIn
            /\ w.closed = v.closed /\ w.early = b /\ w.toTcp = g
        BY <4>1 DEF ServeEntry
      <4> HIDE DEF w
      <4>4. /\ f \in ServeEntry /\ f.st = w.st /\ f.opened = w.opened /\ f.work = w.work /\ f.endedIn = w.endedIn
            /\ f.closed = w.closed /\ f.early = w.early /\ f.toTcp = w.toTcp
        BY <4>2, <4>3 DEF ServeEntry
      <4> QED
        BY <4>1, <4>3, <4>4
    <3> HIDE DEF f
    <3>6. ServeFine(f, <<>>, t) /\ (Takes(f) => Takes(d) /\ TakenOf(f, t) = TakenOf(d, t))
      <4>1. f.opened = d.opened + 1 /\ f.work = d.early /\ f.early = <<>>
        BY <3>2, <3>x, <3>y, <3>5
      <4>2. f.toTcp <=> ~ d.endedIn
        BY <3>3, <3>5, Zenon
      <4>3. t \in Target /\ d \in ServeEntry /\ ServeFine(d, m, t) /\ d.st = "dialling"
        BY <1>4, <2>1, <3>1
      <4>4. f \in ServeEntry /\ f.st = "open" /\ f.endedIn = d.endedIn /\ f.closed = d.closed
        BY <3>5
      <4> QED
        BY <4>1, <4>2, <4>3, <4>4, ConnectedFine
    <3>7. ServeFine(f, l, t) /\ f.st # "none"
      BY <3>1, <3>5, <3>6
    <3> QED
      BY <1>1, <1>3, <1>4, <1>6, <2>t, <3>4, <3>5, <3>6, <3>7, HeldStep DEF d, t
  <2>8. CASE Wisp!CloseStream(s, d, TRUE)
    <3>1. serve' = [serve EXCEPT ![s] = Wisp!Closed(d)] /\ Wisp!Flush(Wisp!Tell("close", s))
      BY <2>8 DEF Wisp!CloseStream, Wisp!Sets
    <3> QED
      BY <2>1, <2>6, <2>t, <3>1
  <2>9. CASE k = "bytes" /\ Wisp!Flush(<<[k |-> "data", s |-> s]>>) /\ UNCHANGED serve
    <3>1. d.st = "open" /\ serve' = [serve EXCEPT ![s] = d]
      BY <1>4, <2>1, <2>3, <2>9
    <3>2. <<[k |-> "data", s |-> s]>> \in Seq(DownPacket)
      BY Tells DEF Wisp!Tell
    <3> QED
      BY <2>1, <2>5, <2>9, <3>1, <3>2
  <2>10. CASE k = "written" /\ Wisp!OnWritten(s)
    <3>1. d.st = "open"
      BY <2>1, <2>3, <2>10
    <3>2. PICK q \in Nat, n \in Nat : q = (IF d.queued > 0 THEN d.queued - 1 ELSE 0) /\ n = d.since + 1
      BY <2>1 DEF ServeEntry
    <3> DEFINE e == [d EXCEPT !.queued = q, !.since = n]
    <3> DEFINE f == [e EXCEPT !.since = 0]
    <3> DEFINE p == [k |-> "continue", s |-> s, n |-> IF q < WISP_BUFFER THEN WISP_BUFFER - q ELSE 0]
    <3>3. e \in ServeEntry /\ e.queued = q
      BY <2>1, <3>2 DEF ServeEntry
    <3>4. e = [serve[s] EXCEPT !.queued = IF @ > 0 THEN @ - 1 ELSE 0, !.since = @ + 1]
      BY <3>2 DEF d
    <3>5. \/ serve' = [serve EXCEPT ![s] = f] /\ Wisp!Flush(<<p>>)
          \/ serve' = [serve EXCEPT ![s] = e] /\ Wisp!Flush(<<>>)
      <4>1. /\ p = [k |-> "continue", s |-> s, n |-> IF e.queued < WISP_BUFFER THEN WISP_BUFFER - e.queued ELSE 0]
        BY <3>3
      <4> HIDE DEF p, e
      <4> QED
        BY <2>10, <3>4, <4>1, Zenon DEF Wisp!OnWritten, Wisp!Sets
    <3>6. p \in DownPacket
      <4>1. (IF q < WISP_BUFFER THEN WISP_BUFFER - q ELSE 0) \in Nat
        BY <3>2, NetworkAssumption
      <4> QED
        BY <4>1 DEF DownPacket
    <3>7. /\ e.st = d.st /\ e.early = d.early /\ e.work = d.work /\ e.opened = d.opened /\ e.closed = d.closed
          /\ e.toTcp = d.toTcp /\ e.endedIn = d.endedIn
      BY <2>1 DEF ServeEntry
    <3> HIDE DEF e
    <3>8. /\ f \in ServeEntry /\ f.st = e.st /\ f.early = e.early /\ f.work = e.work /\ f.opened = e.opened
          /\ f.closed = e.closed /\ f.toTcp = e.toTcp /\ f.endedIn = e.endedIn
      BY <3>3 DEF ServeEntry
    <3>9. <<p>> \in Seq(DownPacket)
      BY <3>6
    <3> HIDE DEF f, p
    <3>10. CASE serve' = [serve EXCEPT ![s] = f] /\ Wisp!Flush(<<p>>)
      BY <2>5, <3>1, <3>7, <3>8, <3>9, <3>10
    <3>11. CASE serve' = [serve EXCEPT ![s] = e] /\ Wisp!Flush(<<>>)
      BY <2>5, <2>t, <3>1, <3>3, <3>7, <3>11
    <3> QED
      BY <3>5, <3>10, <3>11
  <2>11. CASE k \in {"done", "broken"} /\ Wisp!OnTcpDone(s, k = "done")
    <3>1. d.st = "open"
      BY <2>1, <2>3, <2>11
    <3> DEFINE e == [d EXCEPT !.endedOut = TRUE]
    <3>2. /\ e \in ServeEntry /\ e.st = d.st /\ e.early = d.early /\ e.work = d.work /\ e.opened = d.opened
          /\ e.closed = d.closed /\ e.toTcp = d.toTcp /\ e.endedIn = d.endedIn
      BY <2>1 DEF ServeEntry
    <3>3. \/ serve' = [serve EXCEPT ![s] = Wisp!Closed(e)] /\ Wisp!Flush(Wisp!Tell("end", s) \o Wisp!Tell("close", s))
          \/ serve' = [serve EXCEPT ![s] = e] /\ Wisp!Flush(Wisp!Tell("end", s))
          \/ Wisp!CloseStream(s, d, TRUE)
      BY <2>11 DEF Wisp!OnTcpDone, Wisp!Sets, d
    <3> HIDE DEF e
    <3>4. Wisp!Tell("end", s) \o Wisp!Tell("close", s) \in Seq(DownPacket)
      BY <2>t
    <3> QED
      BY <2>5, <2>6, <2>8, <2>t, <3>1, <3>2, <3>3, <3>4
  <2> QED
    BY <2>4, <2>7, <2>8, <2>9, <2>10, <2>11
<1> HIDE DEF d, t, m, k, l
<1> QED
  BY <1>5, <1>6 DEF Wisp!HostInternal

\* The target is written the oldest of the work.
Writes(e, t, f, r) ==
    /\ f.st = e.st /\ f.early = e.early /\ f.opened = e.opened /\ f.closed = e.closed
    /\ f.toTcp = e.toTcp /\ f.endedIn = e.endedIn
    /\ e.work # <<>> /\ f.work = Tail(e.work) /\ r.got = Append(t.got, Head(e.work))

\* A task writes the oldest of a stream's work.
LEMMA WrittenFine ==
    ASSUME NEW e \in ServeEntry, NEW t \in Target, InOrderOf(e, t), e.early = <<>>,
           NEW f \in ServeEntry, NEW r \in Target, Writes(e, t, f, r)
    PROVE  InOrderOf(f, r) /\ TakenOf(f, r) = TakenOf(e, t)
<1>0. /\ f.st = e.st /\ f.early = e.early /\ f.opened = e.opened /\ f.closed = e.closed
      /\ f.toTcp = e.toTcp /\ f.endedIn = e.endedIn
      /\ e.work # <<>> /\ f.work = Tail(e.work) /\ r.got = Append(t.got, Head(e.work))
  BY DEF Writes
<1>1. PICK w \in Seq(Nat), a \in Seq(Nat), g \in Seq(Nat) : w = e.work /\ a = e.early /\ g = t.got
  BY DEF ServeEntry, Target
<1>2. Len(w) \in Nat /\ Len(a) \in Nat /\ Len(g) \in Nat /\ w # <<>>
  BY <1>0, <1>1
<1>3. /\ \A i \in 1..Len(g) : g[i] = i
      /\ \A i \in 1..Len(w) : w[i] = Len(g) + i
      /\ a = <<>> /\ Len(a) = 0
  BY <1>1 DEF InOrderOf
<1>4. /\ Tail(w) \in Seq(Nat) /\ Len(Tail(w)) = Len(w) - 1 /\ Len(w) > 0 /\ Head(w) = w[1]
      /\ \A i \in 1..Len(Tail(w)) : i + 1 \in 1..Len(w) /\ Tail(w)[i] = w[i + 1]
  BY <1>2, Rest
<1>5. Head(w) \in Nat /\ Head(w) = 0 + Len(g) + 1
  <2>1. 1 \in 1..Len(w)
    BY <1>2, <1>4
  <2> QED
    BY <1>2, <1>3, <1>4, <2>1
<1>6. PICK h \in Seq(Nat) : h = Append(g, Head(w)) /\ Len(h) = Len(g) + 1 /\ \A i \in 1..Len(h) : h[i] = 0 + i
  <2>1. \A i \in 1..Len(g) : g[i] = 0 + i
    BY <1>3
  <2> QED
    <3>1. PICK z \in Nat, n \in Nat : z = 0 /\ n = Head(w)
      BY <1>5
    <3>2. (\A i \in 1..Len(g) : g[i] = z + i) /\ n = z + Len(g) + 1
      BY <1>5, <2>1, <3>1
    <3>3. \E q \in Seq(Nat) : q = Append(g, n) /\ Len(q) = Len(g) + 1 /\ \A i \in 1..Len(q) : q[i] = z + i
      BY <1>1, <3>2, NextNumber
    <3> QED
      BY <3>1, <3>3
<1>7. r.got = h /\ f.work = Tail(w) /\ f.early = a
  BY <1>0, <1>1, <1>6
<1>8. \A i \in 1..Len(Tail(w)) : Tail(w)[i] = Len(h) + i
  <2> SUFFICES ASSUME NEW i \in 1..Len(Tail(w))
               PROVE  Tail(w)[i] = Len(h) + i
    OBVIOUS
  <2>1. Tail(w)[i] = Len(g) + (i + 1)
    BY <1>3, <1>4
  <2>2. i \in Nat
    BY <1>4
  <2> QED
    BY <1>2, <1>6, <2>1, <2>2
<1>9. InOrderOf(f, r)
  <2>1. \A i \in 1..Len(r.got) : r.got[i] = i
    <3>1. ASSUME NEW i \in 1..Len(h)
          PROVE  h[i] = i
      <4>1. h[i] = 0 + i /\ i \in Int
        BY <1>6
      <4>2. \A j \in Int : 0 + j = j
        OBVIOUS
      <4> QED
        BY <4>1, <4>2
    <3> QED
      BY <1>7, <3>1, Zenon
  <2>2. \A i \in 1..Len(f.work) : f.work[i] = Len(r.got) + i
    BY <1>7, <1>8
  <2>3. \A i \in 1..Len(f.early) : f.early[i] = Len(r.got) + Len(f.work) + i
    BY <1>3, <1>7
  <2> QED
    BY <2>1, <2>2, <2>3, Zenon DEF InOrderOf
<1>10. TakenOf(f, r) = Len(h) + Len(Tail(w)) + Len(a) /\ TakenOf(e, t) = Len(g) + Len(w) + Len(a)
  BY <1>1, <1>7, Zenon DEF TakenOf
<1>11. TakenOf(f, r) = TakenOf(e, t)
  BY <1>2, <1>4, <1>6, <1>10
<1> QED
  BY <1>9, <1>11

\* A step of a task is of one stream, while the session is up.
LEMMA TasksOf ==
    ASSUME WispInv, NEW s \in Streams, Wisp!Tasks(s)
    PROVE  /\ Wisp!Has(serve, s) /\ live = "up" /\ live' = live /\ UNCHANGED <<call, up, down, outbox>>
           /\ serve = [serve EXCEPT ![s] = serve[s]] /\ said = [said EXCEPT ![s] = said[s]]
           /\ target = [target EXCEPT ![s] = target[s]]
<1>1. Wisp!Has(serve, s) /\ live' = live /\ UNCHANGED <<call, up, down, outbox>>
  BY DEF Wisp!Tasks
<1>2. live = "up"
  BY <1>1, Held DEF WispInv
<1>3. serve \in [Streams -> ServeEntry] /\ said \in [Streams -> Seq(Words)] /\ target \in [Streams -> Target]
  BY DEF WispInv, WispTypes
<1> QED
  BY <1>1, <1>2, <1>3, Itself

\* A dial ends, either way.
LEMMA DialledKept ==
    ASSUME WispInv, NEW s \in Streams, Wisp!Dialled(s)
    PROVE  WispInv'
<1> DEFINE d == serve[s]
<1> DEFINE t == target[s]
<1>1. /\ Wisp!Has(serve, s) /\ live = "up" /\ live' = live /\ UNCHANGED <<call, up, down, outbox>>
      /\ serve = [serve EXCEPT ![s] = d] /\ target = [target EXCEPT ![s] = t]
  BY TasksOf DEF Wisp!Dialled
<1>2. d.st = "dialling" /\ said[s] = <<>> /\ UNCHANGED <<serve, target>>
  BY DEF Wisp!Dialled
<1>3. PICK k \in {"connected", "failed"} : said' = [said EXCEPT ![s] = Append(@, k)]
  BY DEF Wisp!Dialled, Wisp!Says
<1>4. d \in ServeEntry /\ t \in Target /\ ServeFine(d, said[s], t)
  BY <1>1, Held
<1> DEFINE l == <<k>>
<1>5. l \in Seq(Words) /\ l \in {<<>>, <<"connected">>, <<"failed">>} /\ said' = [said EXCEPT ![s] = l]
  BY <1>2, <1>3 DEF Words
<1> HIDE DEF l
<1>6. ServeFine(d, l, t)
  <2>1. ~ d.toTcp /\ ~ d.writer /\ ~ d.reader
    BY <1>2, <1>4 DEF ServeFine, StageOf
  <2> HIDE DEF d, t
  <2> QED
    BY <1>2, <1>4, <1>5, <2>1, Alike
<1>7. serve' = [serve EXCEPT ![s] = d] /\ target' = [target EXCEPT ![s] = t] /\ d.st # "none"
  BY <1>1, <1>2
<1> HIDE DEF d, t
<1> QED
  BY <1>1, <1>4, <1>5, <1>6, <1>7, HeldStep DEF d, t

\* A task of an open stream: only its own end moved, and what it says.
LEMMA OpenTask ==
    ASSUME WispInv, NEW s \in Streams, Wisp!Tasks(s), serve[s].writer \/ serve[s].reader,
           NEW e \in ServeEntry, serve' = [serve EXCEPT ![s] = e],
           e.st = serve[s].st, e.early = serve[s].early, e.work = serve[s].work, e.opened = serve[s].opened,
           e.closed = serve[s].closed, e.toTcp = serve[s].toTcp, e.endedIn = serve[s].endedIn,
           NEW r \in Target, r.got = target[s].got, target' = [target EXCEPT ![s] = r],
           UNCHANGED said \/ \E k \in Words \ {"connected"} : Wisp!Says(s, k)
    PROVE  WispInv'
<1> DEFINE d == serve[s]
<1> DEFINE t == target[s]
<1> DEFINE m == said[s]
<1>1. Wisp!Has(serve, s) /\ live = "up" /\ live' = live /\ UNCHANGED <<call, up, down, outbox>> /\ said = [said EXCEPT ![s] = m]
  BY TasksOf
<1>2. /\ d \in ServeEntry /\ m \in Seq(Words) /\ t \in Target /\ d.st \in {"dialling", "open"} /\ d.st # "none"
      /\ ServeFine(d, m, t)
  BY <1>1, Held
<1>3. d.st = "open" /\ (d.toTcp \/ d.endedIn) /\ (d.toTcp => ~ d.endedIn) /\ \A i \in 1..Len(m) : m[i] # "connected"
  BY <1>2 DEF ServeFine, StageOf
<1> HIDE DEF d, t, m
<1>4. PICK l \in Seq(Words) : said' = [said EXCEPT ![s] = l] /\ \A i \in 1..Len(l) : l[i] # "connected"
  <2>1. CASE UNCHANGED said
    BY <1>1, <1>2, <1>3, <2>1
  <2>2. ASSUME NEW k \in Words \ {"connected"}, Wisp!Says(s, k)
        PROVE  \E l \in Seq(Words) : said' = [said EXCEPT ![s] = l] /\ \A i \in 1..Len(l) : l[i] # "connected"
    <3>1. said' = [said EXCEPT ![s] = Append(m, k)]
      BY <2>2 DEF Wisp!Says, m
    <3>2. Append(m, k) \in Seq(Words) /\ \A i \in 1..Len(Append(m, k)) : Append(m, k)[i] # "connected"
      BY <1>2, <1>3, Said
    <3> QED
      BY <3>1, <3>2
  <2> QED
    BY <2>1, <2>2
<1>5. ServeFine(e, l, r) /\ TakenOf(e, r) = TakenOf(d, t)
  <2>1. /\ e.st = d.st /\ e.early = d.early /\ e.work = d.work /\ e.opened = d.opened /\ e.closed = d.closed
        /\ e.toTcp = d.toTcp /\ e.endedIn = d.endedIn /\ r.got = t.got
    BY DEF d, t
  <2>2. e.st # "dialling" /\ (e.toTcp \/ e.endedIn) /\ (e.toTcp => ~ e.endedIn)
    BY <1>3, <2>1
  <2> QED
    BY <1>2, <1>3, <1>4, <2>1, <2>2, Alike, SMTT(30)
<1>6. Takes(e) => Takes(d)
  BY DEF Takes, d
<1>7. e.st # "none"
  BY <1>2 DEF d
<1> QED
  BY <1>1, <1>4, <1>5, <1>6, <1>7, HeldStep DEF d, t

\* The writing task of a stream writes, ends or breaks.
LEMMA WriteLoopKept ==
    ASSUME WispInv, NEW s \in Streams, Wisp!WriteLoop(s)
    PROVE  WispInv'
<1> DEFINE d == serve[s]
<1> DEFINE t == target[s]
<1> DEFINE m == said[s]
<1>1. /\ Wisp!Tasks(s) /\ d.writer /\ Wisp!Has(serve, s) /\ live = "up" /\ live' = live /\ UNCHANGED <<call, up, down, outbox>>
      /\ target = [target EXCEPT ![s] = t]
  BY TasksOf DEF Wisp!WriteLoop
<1>2. /\ d \in ServeEntry /\ m \in Seq(Words) /\ t \in Target /\ d.st \in {"dialling", "open"} /\ ServeFine(d, m, t)
  BY <1>1, Held
<1>3. d.st = "open" /\ \A i \in 1..Len(m) : m[i] # "connected"
  BY <1>1, <1>2 DEF ServeFine, StageOf
<1> DEFINE e == [d EXCEPT !.writer = FALSE]
<1>4. /\ e \in ServeEntry /\ e.st = d.st /\ e.early = d.early /\ e.work = d.work /\ e.opened = d.opened
      /\ e.closed = d.closed /\ e.toTcp = d.toTcp /\ e.endedIn = d.endedIn
  BY <1>2 DEF ServeEntry
<1> DEFINE r == [t EXCEPT !.ended = TRUE]
<1>5. r \in Target /\ r.got = t.got
  BY <1>2 DEF Target
<1>6. \/ /\ d.work # <<>> /\ said' = [said EXCEPT ![s] = Append(m, "written")]
         /\ serve' = [serve EXCEPT ![s] = [d EXCEPT !.work = Tail(@)]]
         /\ target' = [target EXCEPT ![s].got = Append(@, Head(d.work))]
      \/ Wisp!Says(s, "broken") /\ serve' = [serve EXCEPT ![s] = e] /\ UNCHANGED target
      \/ serve' = [serve EXCEPT ![s] = e] /\ target' = [target EXCEPT ![s].ended = TRUE] /\ UNCHANGED said
  BY DEF Wisp!WriteLoop, Wisp!Sets, Wisp!Says
<1>7. CASE /\ d.work # <<>> /\ said' = [said EXCEPT ![s] = Append(m, "written")]
           /\ serve' = [serve EXCEPT ![s] = [d EXCEPT !.work = Tail(@)]]
           /\ target' = [target EXCEPT ![s].got = Append(@, Head(d.work))]
  <2>1. PICK w \in Seq(Nat), g \in Seq(Nat) : w = d.work /\ g = t.got
    BY <1>2 DEF ServeEntry, Target
  <2>2. w # <<>> /\ Tail(w) \in Seq(Nat) /\ Head(w) \in Nat /\ Append(g, Head(w)) \in Seq(Nat)
    BY <1>7, <2>1
  <2>3. PICK v \in Seq(Nat), h \in Seq(Nat) : v = Tail(w) /\ h = Append(g, Head(w))
    BY <2>2
  <2> DEFINE f == [d EXCEPT !.work = v]
  <2> DEFINE x == [t EXCEPT !.got = h]
  <2>4. /\ f \in ServeEntry /\ f.st = d.st /\ f.early = d.early /\ f.work = v /\ f.opened = d.opened
        /\ f.closed = d.closed /\ f.toTcp = d.toTcp /\ f.endedIn = d.endedIn
    BY <1>2, <2>3 DEF ServeEntry
  <2>5. x \in Target /\ x.got = h
    BY <1>2, <2>3 DEF Target
  <2>6. serve' = [serve EXCEPT ![s] = f] /\ target' = [target EXCEPT ![s] = x]
    BY <1>7, <2>1, <2>3
  <2> DEFINE l == Append(m, "written")
  <2>7. l \in Seq(Words) /\ \A i \in 1..Len(l) : l[i] # "connected"
    <3>1. "written" \in Words /\ "written" # "connected"
      BY DEF Words
    <3> QED
      BY <1>2, <1>3, <3>1, Said
  <2>8. said' = [said EXCEPT ![s] = l]
    BY <1>7
  <2> HIDE DEF d, t, m, e, r, f, x, l
  <2>9. ServeFine(f, l, x) /\ TakenOf(f, x) = TakenOf(d, t)
    <3>1. Writes(d, t, f, x)
      BY <1>7, <2>1, <2>3, <2>4, <2>5 DEF Writes
    <3>2. InOrderOf(d, t) /\ StageOf(d, m, t) /\ d.early = <<>>
      BY <1>2, <1>3 DEF ServeFine, StageOf
    <3>3. InOrderOf(f, x) /\ TakenOf(f, x) = TakenOf(d, t)
      BY <1>2, <2>4, <2>5, <3>1, <3>2, WrittenFine
    <3>4. StageOf(f, l, x)
      BY <1>3, <2>4, <2>7, <3>2 DEF StageOf
    <3> QED
      BY <3>3, <3>4 DEF ServeFine
  <2>10. Takes(f) => Takes(d)
    BY <2>4 DEF Takes
  <2>11. f.st # "none"
    BY <1>3, <2>4
  <2> QED
    BY <1>1, <2>4, <2>5, <2>6, <2>7, <2>8, <2>9, <2>10, <2>11, HeldStep DEF d, t
<1>8. CASE Wisp!Says(s, "broken") /\ serve' = [serve EXCEPT ![s] = e] /\ UNCHANGED target
  <2>1. \E k \in Words \ {"connected"} : Wisp!Says(s, k)
    BY <1>8 DEF Words
  <2>2. target' = [target EXCEPT ![s] = t]
    BY <1>1, <1>8
  <2> HIDE DEF e
  <2> QED
    BY <1>1, <1>2, <1>4, <1>8, <2>1, <2>2, OpenTask
<1>9. CASE serve' = [serve EXCEPT ![s] = e] /\ target' = [target EXCEPT ![s].ended = TRUE] /\ UNCHANGED said
  <2>1. target' = [target EXCEPT ![s] = r]
    BY <1>9
  <2> HIDE DEF e, r
  <2> QED
    BY <1>1, <1>2, <1>4, <1>5, <1>9, <2>1, OpenTask
<1> QED
  BY <1>6, <1>7, <1>8, <1>9

\* The reading task of a stream reads, ends or breaks.
LEMMA ReadLoopKept ==
    ASSUME WispInv, NEW s \in Streams, Wisp!ReadLoop(s)
    PROVE  WispInv'
<1> DEFINE d == serve[s]
<1> DEFINE t == target[s]
<1>1. /\ Wisp!Tasks(s) /\ d.reader /\ Wisp!Has(serve, s) /\ UNCHANGED target
      /\ target' = [target EXCEPT ![s] = t] /\ serve = [serve EXCEPT ![s] = d]
  BY TasksOf DEF Wisp!ReadLoop
<1>2. d \in ServeEntry /\ t \in Target
  BY <1>1, Held
<1> DEFINE e == [d EXCEPT !.reader = FALSE]
<1>3. /\ e \in ServeEntry /\ e.st = d.st /\ e.early = d.early /\ e.work = d.work /\ e.opened = d.opened
      /\ e.closed = d.closed /\ e.toTcp = d.toTcp /\ e.endedIn = d.endedIn
  BY <1>2 DEF ServeEntry
<1>4. /\ serve' = [serve EXCEPT ![s] = d] \/ serve' = [serve EXCEPT ![s] = e]
      /\ \E k \in Words \ {"connected"} : Wisp!Says(s, k)
  BY <1>1 DEF Wisp!ReadLoop, Wisp!Sets, Words
<1> HIDE DEF e
<1>5. CASE serve' = [serve EXCEPT ![s] = d]
  BY <1>1, <1>2, <1>4, <1>5, OpenTask
<1>6. CASE serve' = [serve EXCEPT ![s] = e]
  BY <1>1, <1>2, <1>3, <1>4, <1>6, OpenTask
<1> QED
  BY <1>4, <1>5, <1>6

\* When the session ends every stream left is closed, and reported so.
LEMMA SessionEndsKept ==
    ASSUME WispInv, Wisp!SessionEnds
    PROVE  WispInv'
<1>0. WispTypes
  BY DEF WispInv
<1>1. /\ live' = "over" /\ up' = <<>> /\ down' = <<>> /\ outbox' = <<>> /\ UNCHANGED target
      /\ call' = [s \in Streams |-> IF Wisp!Has(call, s) THEN [call[s] EXCEPT !.st = "gone"] ELSE call[s]]
      /\ serve' = [s \in Streams |-> IF Wisp!Has(serve, s) THEN Wisp!Closed(serve[s]) ELSE serve[s]]
      /\ said' = [s \in Streams |-> <<>>]
  BY DEF Wisp!SessionEnds
<1>2. ASSUME NEW s \in Streams
      PROVE  call'[s] \in CallEntry /\ CallFine(call'[s])
  <2>1. call[s] \in CallEntry /\ CallFine(call[s])
    BY <1>0 DEF WispInv, WispTypes
  <2> DEFINE c == [call[s] EXCEPT !.st = "gone"]
  <2>2. c \in CallEntry /\ c.st = "gone" /\ c.queued = call[s].queued /\ c.wrote = call[s].wrote
    BY <2>1 DEF CallEntry
  <2>3. call'[s] = c \/ call'[s] = call[s]
    BY <1>1
  <2> HIDE DEF c
  <2>4. CallFine(c)
    BY <2>1, <2>2 DEF CallFine
  <2> QED
    BY <2>1, <2>2, <2>3, <2>4
<1>3. ASSUME NEW s \in Streams
      PROVE  /\ serve'[s] \in ServeEntry /\ ServeFine(serve'[s], <<>>, target[s]) /\ serve'[s].st \in {"none", "gone"}
  <2>1. CASE Wisp!Has(serve, s)
    <3>1. serve'[s] = Wisp!Closed(serve[s])
      BY <1>1, <2>1
    <3>2. serve[s] \in ServeEntry /\ InOrderOf(serve[s], target[s]) /\ serve[s].closed = 0 /\ serve[s].opened <= 1
      BY <2>1, Held
    <3> QED
      BY <3>1, <3>2, ClosedFine
  <2>2. CASE ~ Wisp!Has(serve, s)
    <3>1. serve'[s] = serve[s] /\ serve[s] \in ServeEntry /\ ServeFine(serve[s], said[s], target[s])
      BY <1>0, <1>1, <2>2 DEF WispInv, WispTypes
    <3>2. serve[s].st \in {"none", "gone"}
      BY <2>2, <3>1 DEF Wisp!Has, ServeEntry
    <3>3. ServeFine(serve[s], <<>>, target[s])
      BY <3>1, <3>2 DEF ServeFine, StageOf
    <3> QED
      BY <3>1, <3>2, <3>3
  <2> QED
    BY <2>1, <2>2
<1>4. call' \in [Streams -> CallEntry] /\ serve' \in [Streams -> ServeEntry] /\ said' \in [Streams -> Seq(Words)]
  <2>1. DOMAIN call' = Streams /\ call' = [s \in Streams |-> call'[s]] /\ serve' = [s \in Streams |-> serve'[s]]
    BY <1>1
  <2> QED
    BY <1>1, <1>2, <1>3, <2>1
<1>5. WispTypes'
  <2>1. Len(<<>>) <= ROOM /\ ROOM \in Nat
    BY NetworkAssumption
  <2> QED
    BY <1>0, <1>1, <1>4, <2>1 DEF WispTypes
<1>6. \A s \in Streams : said'[s] = <<>>
  BY <1>1
<1> QED
  BY <1>1, <1>2, <1>3, <1>5, <1>6 DEF WispInv

\* Every step of a session keeps the invariant.
LEMMA WispKept == WispInv /\ Wisp!Next => WispInv'
<1> SUFFICES ASSUME WispInv, Wisp!Next
             PROVE  WispInv'
  OBVIOUS
<1>1. CASE \E s \in Streams : Wisp!OpenStream(s) \/ Wisp!Write(s) \/ Wisp!Eof(s)
  BY <1>1, OpenKept, WriteKept, EofKept
<1>2. CASE Wisp!CallerReceive \/ Wisp!HostReceive \/ Wisp!HearFeatures \/ Wisp!IdleStream \/ Wisp!Room \/ Wisp!SessionEnds
  BY <1>2, CallerReceiveKept, HostReceiveKept, HearFeaturesKept, IdleStreamKept, RoomKept, SessionEndsKept
<1>3. CASE \E s \in Streams : Wisp!HostInternal(s) \/ Wisp!Dialled(s) \/ Wisp!WriteLoop(s) \/ Wisp!ReadLoop(s)
  BY <1>3, HostInternalKept, DialledKept, WriteLoopKept, ReadLoopKept
<1> QED
  BY <1>1, <1>2, <1>3 DEF Wisp!Next

\* Every stream opened is reported closed once and its target got a prefix of
\* what was written.
LEMMA WispTells == WispInv => Wisp!Audited /\ Wisp!InOrder
<1> SUFFICES ASSUME WispInv
             PROVE  Wisp!Audited /\ Wisp!InOrder
  OBVIOUS
<1>1. ASSUME NEW s \in Streams
      PROVE  serve[s].opened <= 1 /\ serve[s].closed = IF serve[s].st = "gone" THEN 1 ELSE 0
  BY DEF WispInv, ServeFine, StageOf
<1>2. ASSUME NEW s \in Streams, NEW i \in DOMAIN target[s].got
      PROVE  target[s].got[i] = i
  <2>1. target[s].got \in Seq(Nat)
    BY DEF WispInv, WispTypes, Target
  <2>2. \A j \in 1..Len(target[s].got) : target[s].got[j] = j
    BY Zenon DEF WispInv, ServeFine, InOrderOf
  <2> QED
    BY <1>2, <2>1, <2>2
<1> QED
  BY <1>1, <1>2 DEF Wisp!Audited, Wisp!InOrder

(***************************************************************************)
(* The bridges.                                                            *)
(***************************************************************************)

\* The numbers of a sequence go up, and are below those of another.
Rising(q)   == \A i, j \in 1..Len(q) : i < j /\ q[i] > 0 /\ q[j] > 0 => q[i] < q[j]
Under(q, r) == \A i \in 1..Len(q), j \in 1..Len(r) : q[i] > 0 /\ r[j] > 0 => q[i] < r[j]
Upto(q, n)  == \A i \in 1..Len(q) : q[i] <= n

\* A sequence of some of another's elements, in its order.
Among(q, r) == \E g : Picked(r, 1..Len(r), q, g)

BridgesTypes ==
    /\ channel \in Seq(Int) /\ keep \in Seq(Int) /\ inbox \in Seq(Int) /\ got \in Seq(Int)
    /\ made \in Nat /\ counter \in Nat /\ Len(inbox) <= QueueCap

\* What is said once is in the program's hands, in its queue, held or on its
\* way, and older in this order.
SaidInOrder ==
    /\ Rising(got) /\ Rising(inbox) /\ Rising(keep) /\ Rising(channel)
    /\ Under(got, inbox) /\ Under(got, keep) /\ Under(got, channel)
    /\ Under(inbox, keep) /\ Under(inbox, channel) /\ Under(keep, channel)
    /\ Upto(got, made) /\ Upto(inbox, made) /\ Upto(keep, made) /\ Upto(channel, made)
    /\ \A i \in 1..Len(got) : got[i] > 0

\* What a bridge holds was said once.
HeldIsSaid ==
    /\ \A i \in 1..Len(keep) : keep[i] > 0
    /\ \A i \in 1..Len(channel) : channel[i] >= 0 /\ (kind = "webrtc" => channel[i] > 0)
    /\ kind \notin {"wireguard", "webrtc"} => keep = <<>>

BridgesInv == BridgesTypes /\ SaidInOrder /\ HeldIsSaid /\ Bridges!HeldKept

\* Some of the elements of a sequence have its order and its bounds.
LEMMA AmongOf ==
    ASSUME NEW r \in Seq(Int), NEW q \in Seq(Int), Among(q, r)
    PROVE  /\ Rising(r) => Rising(q)
           /\ \A n \in Int : Upto(r, n) => Upto(q, n)
           /\ (\A i \in 1..Len(r) : r[i] > 0) => \A i \in 1..Len(q) : q[i] > 0
<1>1. PICK g : Picked(r, 1..Len(r), q, g)
  BY DEF Among
<1>2. \A i \in 1..Len(q) : g[i] \in 1..Len(r) /\ q[i] = r[g[i]]
  BY <1>1 DEF Picked
<1>3. \A i, j \in 1..Len(q) : i < j => g[i] < g[j]
  BY <1>1 DEF Picked
<1> QED
  BY <1>2, <1>3 DEF Rising, Upto

\* What is below a sequence is below some of it, and the other way round.
LEMMA AmongUnder ==
    ASSUME NEW r \in Seq(Int), NEW q \in Seq(Int), Among(q, r), NEW u \in Seq(Int)
    PROVE  (Under(u, r) => Under(u, q)) /\ (Under(r, u) => Under(q, u))
<1>1. PICK g : Picked(r, 1..Len(r), q, g)
  BY DEF Among
<1>2. \A i \in 1..Len(q) : g[i] \in 1..Len(r) /\ q[i] = r[g[i]]
  BY <1>1 DEF Picked
<1> QED
  BY <1>2 DEF Under

\* A part of a sequence, and what comes before it and after it.
LEMMA PartOf ==
    ASSUME NEW r \in Seq(Int), NEW m \in Nat, NEW n \in Nat, n <= Len(r)
    PROVE  SubSeq(r, m + 1, n) \in Seq(Int) /\ Among(SubSeq(r, m + 1, n), r)
<1> DEFINE q == SubSeq(r, m + 1, n)
<1> DEFINE k == IF m + 1 <= n THEN n - m ELSE 0
<1>1. k \in Nat /\ Len(r) \in Nat
  OBVIOUS
<1>2. q \in Seq(Int) /\ Len(q) = k /\ \A i \in 1..k : i + m \in 1..Len(r) /\ q[i] = r[i + m]
  OBVIOUS
<1> DEFINE g == [i \in 1..k |-> i + m]
<1>3. \A i \in 1..k : g[i] = i + m /\ g[i] \in 1..Len(r)
  BY <1>2
<1>4. \A i, j \in 1..k : i < j => g[i] < g[j]
  BY <1>1
<1>5. g \in [1..k -> 1..Len(r)]
  BY <1>3
<1> HIDE DEF g, q, k
<1>6. Picked(r, 1..Len(r), q, g)
  BY <1>2, <1>3, <1>4, <1>5 DEF Picked
<1> QED
  BY <1>2, <1>6 DEF Among, q

\* What comes first in a sequence is below what follows.
LEMMA Halves ==
    ASSUME NEW r \in Seq(Int), NEW n \in Nat, n <= Len(r), Rising(r)
    PROVE  Under(SubSeq(r, 1, n), SubSeq(r, n + 1, Len(r)))
<1>1. Len(r) \in Nat
  OBVIOUS
<1>2. /\ Len(SubSeq(r, 1, n)) = n /\ Len(SubSeq(r, n + 1, Len(r))) = Len(r) - n
      /\ \A i \in 1..n : SubSeq(r, 1, n)[i] = r[i] /\ i \in 1..Len(r)
      /\ \A j \in 1..Len(r) - n : SubSeq(r, n + 1, Len(r))[j] = r[j + n] /\ j + n \in 1..Len(r)
  BY <1>1
<1> SUFFICES ASSUME NEW i \in 1..n, NEW j \in 1..Len(r) - n, r[i] > 0, r[j + n] > 0
             PROVE  r[i] < r[j + n]
  BY <1>2 DEF Under
<1>3. i < j + n
  BY <1>1
<1> QED
  BY <1>2, <1>3 DEF Rising

\* Two sequences, one below the other, make one that goes up.
LEMMA Joins ==
    ASSUME NEW q \in Seq(Int), NEW r \in Seq(Int)
    PROVE  /\ q \o r \in Seq(Int) /\ Len(q \o r) = Len(q) + Len(r)
           /\ Rising(q) /\ Rising(r) /\ Under(q, r) => Rising(q \o r)
           /\ \A n \in Int : Upto(q, n) /\ Upto(r, n) => Upto(q \o r, n)
           /\ (\A i \in 1..Len(q) : q[i] > 0) /\ (\A i \in 1..Len(r) : r[i] > 0) => \A i \in 1..Len(q \o r) : (q \o r)[i] > 0
<1> DEFINE v == q \o r
<1>1. /\ v \in Seq(Int) /\ Len(v) = Len(q) + Len(r)
      /\ \A i \in 1..Len(v) : \/ i \in 1..Len(q) /\ v[i] = q[i]
                              \/ i - Len(q) \in 1..Len(r) /\ v[i] = r[i - Len(q)]
  BY Joined
<1>2. Len(q) \in Nat /\ Len(r) \in Nat
  OBVIOUS
<1> HIDE DEF v
<1>3. ASSUME Rising(q), Rising(r), Under(q, r), NEW i \in 1..Len(v), NEW j \in 1..Len(v), i < j, v[i] > 0, v[j] > 0
      PROVE  v[i] < v[j]
  <2>1. CASE i \in 1..Len(q) /\ v[i] = q[i] /\ j \in 1..Len(q) /\ v[j] = q[j]
    BY <1>3, <2>1 DEF Rising
  <2>2. CASE i \in 1..Len(q) /\ v[i] = q[i] /\ j - Len(q) \in 1..Len(r) /\ v[j] = r[j - Len(q)]
    BY <1>3, <2>2 DEF Under
  <2>3. CASE i - Len(q) \in 1..Len(r) /\ v[i] = r[i - Len(q)] /\ j - Len(q) \in 1..Len(r) /\ v[j] = r[j - Len(q)]
    <3>1. i - Len(q) < j - Len(q)
      BY <1>2, <1>3
    <3> QED
      BY <1>3, <2>3, <3>1 DEF Rising
  <2>4. CASE i - Len(q) \in 1..Len(r) /\ j \in 1..Len(q)
    BY <1>2, <1>3, <2>4
  <2> QED
    BY <1>1, <2>1, <2>2, <2>3, <2>4
<1>4. ASSUME NEW n \in Int, Upto(q, n), Upto(r, n)
      PROVE  Upto(v, n)
  BY <1>1, <1>4 DEF Upto
<1>5. ASSUME \A i \in 1..Len(q) : q[i] > 0, \A i \in 1..Len(r) : r[i] > 0
      PROVE  \A i \in 1..Len(v) : v[i] > 0
  BY <1>1, <1>5
<1>6. Rising(q) /\ Rising(r) /\ Under(q, r) => Rising(v)
  BY <1>3 DEF Rising
<1> QED
  BY <1>1, <1>4, <1>5, <1>6 DEF v

\* What is below two sequences is below both in a row.
LEMMA JoinsUnder ==
    ASSUME NEW q \in Seq(Int), NEW r \in Seq(Int), NEW u \in Seq(Int)
    PROVE  /\ Under(u, q) /\ Under(u, r) => Under(u, q \o r)
           /\ Under(q, u) /\ Under(r, u) => Under(q \o r, u)
<1> DEFINE v == q \o r
<1>1. \A i \in 1..Len(v) : \/ i \in 1..Len(q) /\ v[i] = q[i]
                           \/ i - Len(q) \in 1..Len(r) /\ v[i] = r[i - Len(q)]
  BY Joined
<1> HIDE DEF v
<1>2. Under(u, q) /\ Under(u, r) => Under(u, v)
  BY <1>1 DEF Under
<1>3. Under(q, u) /\ Under(r, u) => Under(v, u)
  BY <1>1 DEF Under
<1> QED
  BY <1>2, <1>3 DEF v

\* Numbers that go up from 1 are at least as many as their place.
LEMMA AtLeast ==
    ASSUME NEW q \in Seq(Int), Rising(q), \A i \in 1..Len(q) : q[i] > 0
    PROVE  \A i \in 1..Len(q) : q[i] >= i
<1>0. Len(q) \in Nat
  OBVIOUS
<1> DEFINE T == {n \in Nat : n + 1 <= Len(q) => q[n + 1] >= n + 1}
<1>1. 0 \in T
  <2>1. 0 + 1 <= Len(q) => q[1] > 0 /\ q[1] \in Int
    BY <1>0
  <2> QED
    BY <2>1
<1>2. ASSUME NEW n \in T
      PROVE  n + 1 \in T
  <2> SUFFICES ASSUME n + 1 + 1 <= Len(q)
               PROVE  q[n + 1 + 1] >= n + 1 + 1
    OBVIOUS
  <2>0. n \in Nat /\ n + 1 \in 1..Len(q) /\ n + 1 + 1 \in 1..Len(q) /\ n + 1 < n + 1 + 1
    BY <1>0
  <2>1. q[n + 1] >= n + 1 /\ q[n + 1] \in Int /\ q[n + 1 + 1] \in Int
    BY <2>0
  <2>2. q[n + 1] < q[n + 1 + 1]
    BY <2>0 DEF Rising
  <2> HIDE DEF T
  <2> QED
    BY <2>0, <2>1, <2>2
<1>3. \A n \in Nat : n \in T
  <2>1. T \in SUBSET Nat
    OBVIOUS
  <2> HIDE DEF T
  <2> QED
    BY <1>1, <1>2, <2>1, Induction
<1> SUFFICES ASSUME NEW i \in 1..Len(q)
             PROVE  q[i] >= i
  OBVIOUS
<1>4. i - 1 \in Nat /\ (i - 1) + 1 = i
  OBVIOUS
<1>5. i - 1 \in T
  BY <1>3, <1>4
<1> QED
  BY <1>0, <1>4, <1>5

\* The reports said once are those that are not snapshots.
LEMMA OncePicks ==
    ASSUME NEW q \in Seq(Int)
    PROVE  /\ Bridges!Once(q, {}) \in Seq(Int)
           /\ \E g : Picked(q, {i \in 1..Len(q) : q[i] # 0}, Bridges!Once(q, {}), g)
<1> DEFINE at == {i \in 1..Len(q) : q[i] # 0}
<1> DEFINE Kept(f) == f = [i \in 0..Len(q) |->
             IF i = 0 THEN <<>> ELSE IF q[i] = 0 \/ q[i] \in {} THEN f[i - 1] ELSE Append(f[i - 1], q[i])]
<1>1. Len(q) \in Nat
  OBVIOUS
<1>2. ASSUME NEW f
      PROVE  Kept(f) <=> Filter(q, at, f)
  <2>1. \A i \in 0..Len(q) : i # 0 => (i \in at <=> ~ (q[i] = 0 \/ q[i] \in {}))
    BY <1>1
  <2> HIDE DEF at
  <2>2. [i \in 0..Len(q) |->
           IF i = 0 THEN <<>> ELSE IF q[i] = 0 \/ q[i] \in {} THEN f[i - 1] ELSE Append(f[i - 1], q[i])]
        = [i \in 0..Len(q) |->
             IF i = 0 THEN <<>> ELSE IF i \in at THEN Append(f[i - 1], q[i]) ELSE f[i - 1]]
    BY <2>1
  <2> QED
    BY <2>2 DEF Filter
<1>3. \E f : Kept(f)
  <2>1. PICK f : Filter(q, at, f)
    BY <1>1, FilterExists
  <2> HIDE DEF Kept, at
  <2> QED
    BY <1>2, <2>1
<1> DEFINE F == CHOOSE f : Kept(f)
<1>4. Kept(F)
  <2> HIDE DEF Kept
  <2> QED
    BY <1>3
<1>5. Bridges!Once(q, {}) = F[Len(q)]
  BY DEF Bridges!Once
<1>6. Filter(q, at, F)
  <2> HIDE DEF Kept, at, F
  <2> QED
    BY <1>2, <1>4
<1>7. at \in SUBSET (1..Len(q))
  OBVIOUS
<1> HIDE DEF at, F
<1>8. F[Len(q)] \in Seq(Int) /\ \E g : Picked(q, at, F[Len(q)], g)
  BY <1>6, <1>7, FilterPicks
<1> QED
  BY <1>5, <1>8 DEF at

\* The reports said once are among the reports, in their order.
LEMMA OnceAmong ==
    ASSUME NEW q \in Seq(Int)
    PROVE  /\ Bridges!Once(q, {}) \in Seq(Int) /\ Among(Bridges!Once(q, {}), q)
           /\ (\A i \in 1..Len(q) : q[i] >= 0) => \A i \in 1..Len(Bridges!Once(q, {})) : Bridges!Once(q, {})[i] > 0
<1> DEFINE o == Bridges!Once(q, {})
<1>1. o \in Seq(Int)
  BY OncePicks
<1>2. PICK g : Picked(q, {i \in 1..Len(q) : q[i] # 0}, o, g)
  BY OncePicks
<1> HIDE DEF o
<1>3. /\ g \in [1..Len(o) -> 1..Len(q)] /\ \A i \in 1..Len(o) : o[i] = q[g[i]]
      /\ \A i, j \in 1..Len(o) : i < j => g[i] < g[j]
      /\ \A i \in 1..Len(o) : g[i] \in 1..Len(q) /\ q[g[i]] # 0
  BY <1>2 DEF Picked
<1>4. Picked(q, 1..Len(q), o, g)
  BY <1>3 DEF Picked
<1>5. ASSUME \A i \in 1..Len(q) : q[i] >= 0, NEW i \in 1..Len(o)
      PROVE  o[i] > 0
  <2>1. q[g[i]] \in Int /\ q[g[i]] >= 0 /\ q[g[i]] # 0 /\ o[i] = q[g[i]]
    BY <1>3, <1>5
  <2> QED
    BY <2>1
<1> QED
  BY <1>1, <1>4, <1>5 DEF Among, o

\* What may still be said: after all that was read and all that is queued.
Fits(q) == Rising(q) /\ Under(got, q) /\ Under(inbox, q) /\ Upto(q, made)

\* A push takes a part of what there is, as much as the queue has room for.
Split(msgs, t, l) ==
    /\ t \in Seq(Int) /\ l \in Seq(Int) /\ Among(t, msgs) /\ Among(l, msgs)
    /\ Rising(msgs) => Under(t, l)
    /\ Len(inbox \o t) <= QueueCap

\* Nothing is before, after or above what is not there.
LEMMA NoneFits ==
    ASSUME NEW q \in Seq(Int), NEW n \in Int
    PROVE  <<>> \in Seq(Int) /\ Rising(<<>>) /\ Under(q, <<>>) /\ Under(<<>>, q) /\ Upto(<<>>, n)
<1>1. <<>> \in Seq(Int) /\ Len(<<>>) = 0
  OBVIOUS
<1> QED
  BY <1>1 DEF Rising, Under, Upto

\* A push splits what there is in two, in its order, and the queue stays within
\* its limit.
LEMMA PushSplits ==
    ASSUME NetworkAssumption, BridgesTypes, NEW msgs \in Seq(Int)
    PROVE  Split(msgs, Bridges!Pushed(msgs).taken, Bridges!Pushed(msgs).left)
<1> DEFINE n == IF ~declared THEN 0
                ELSE IF Len(msgs) <= QueueCap - Len(inbox) THEN Len(msgs) ELSE QueueCap - Len(inbox)
<1> DEFINE t == SubSeq(msgs, 1, n)
<1> DEFINE l == SubSeq(msgs, n + 1, Len(msgs))
<1>1. inbox \in Seq(Int) /\ Len(inbox) <= QueueCap /\ QueueCap \in Nat /\ Len(inbox) \in Nat /\ Len(msgs) \in Nat
  BY DEF BridgesTypes, NetworkAssumption
<1>2. n \in Nat /\ n <= Len(msgs) /\ n <= QueueCap - Len(inbox)
  BY <1>1
<1>3. Bridges!Pushed(msgs).taken = t /\ Bridges!Pushed(msgs).left = l
  BY DEF Bridges!Pushed
<1> HIDE DEF n
<1>4. t \in Seq(Int) /\ Len(t) = n
  BY <1>1, <1>2, SMTT(30)
<1>5. Among(t, msgs)
  <2>1. SubSeq(msgs, 0 + 1, n) \in Seq(Int) /\ Among(SubSeq(msgs, 0 + 1, n), msgs)
    BY <1>2, PartOf
  <2>2. 0 + 1 = 1
    OBVIOUS
  <2> QED
    BY <2>1, <2>2
<1>6. l \in Seq(Int) /\ Among(l, msgs)
  <2>1. Len(msgs) <= Len(msgs)
    BY <1>1
  <2> QED
    BY <1>1, <1>2, <2>1, PartOf
<1>7. Rising(msgs) => Under(t, l)
  BY <1>2, Halves
<1>8. Len(inbox \o t) <= QueueCap
  <2> HIDE DEF t
  <2> QED
    BY <1>1, <1>2, <1>4
<1> HIDE DEF t, l
<1> QED
  BY <1>3, <1>4, <1>5, <1>6, <1>7, <1>8 DEF Split

\* Some of what may still be said may still be said.
LEMMA FitsAmong ==
    ASSUME BridgesTypes, NEW r \in Seq(Int), Fits(r), NEW q \in Seq(Int), Among(q, r)
    PROVE  Fits(q)
<1>1. got \in Seq(Int) /\ inbox \in Seq(Int) /\ made \in Int
  BY DEF BridgesTypes
<1>2. Rising(r) /\ Under(got, r) /\ Under(inbox, r) /\ Upto(r, made)
  BY DEF Fits
<1>3. Rising(q) /\ Upto(q, made)
  BY <1>1, <1>2, AmongOf
<1>4. Under(got, q) /\ Under(inbox, q)
  BY <1>1, <1>2, AmongUnder
<1> QED
  BY <1>3, <1>4 DEF Fits

\* What a bridge holds and what its service said since may be said, in this
\* order.
LEMMA HeldThenSaid ==
    ASSUME BridgesTypes, SaidInOrder
    PROVE  keep \o channel \in Seq(Int) /\ Fits(keep \o channel)
<1>1. /\ got \in Seq(Int) /\ inbox \in Seq(Int) /\ keep \in Seq(Int) /\ channel \in Seq(Int) /\ made \in Int
  BY DEF BridgesTypes
<1>2. /\ Rising(keep) /\ Rising(channel) /\ Under(keep, channel) /\ Upto(keep, made) /\ Upto(channel, made)
      /\ Under(got, keep) /\ Under(got, channel) /\ Under(inbox, keep) /\ Under(inbox, channel)
  BY DEF SaidInOrder
<1>3. keep \o channel \in Seq(Int) /\ Rising(keep \o channel) /\ Upto(keep \o channel, made)
  BY <1>1, <1>2, Joins
<1>4. Under(got, keep \o channel)
  BY <1>1, <1>2, JoinsUnder
<1>5. Under(inbox, keep \o channel)
  BY <1>1, <1>2, JoinsUnder
<1> QED
  BY <1>3, <1>4, <1>5 DEF Fits

\* A pass that queues t and holds l keeps the order.
LEMMA PassOrdered ==
    ASSUME BridgesTypes, SaidInOrder, NEW t \in Seq(Int), NEW l \in Seq(Int), Fits(t), Fits(l), Under(t, l),
           channel' = <<>>, keep' = l, inbox' = inbox \o t, got' = got, made' = made
    PROVE  SaidInOrder'
<1>1. got \in Seq(Int) /\ inbox \in Seq(Int) /\ made \in Int
  BY DEF BridgesTypes
<1>2. Rising(got) /\ Rising(inbox) /\ Under(got, inbox) /\ Upto(got, made) /\ Upto(inbox, made) /\ \A i \in 1..Len(got) : got[i] > 0
  BY DEF SaidInOrder
<1>3. Rising(t) /\ Under(got, t) /\ Under(inbox, t) /\ Upto(t, made)
  BY DEF Fits
<1>4. Rising(l) /\ Under(got, l) /\ Under(inbox, l) /\ Upto(l, made)
  BY DEF Fits
<1>5. inbox \o t \in Seq(Int) /\ Rising(inbox \o t) /\ Upto(inbox \o t, made)
  BY <1>1, <1>2, <1>3, Joins
<1>6. Under(got, inbox \o t)
  BY <1>1, <1>2, <1>3, JoinsUnder
<1>7. Under(inbox \o t, l)
  BY <1>1, <1>4, JoinsUnder
<1>8. /\ Rising(<<>>) /\ Under(got, <<>>) /\ Under(inbox \o t, <<>>) /\ Under(l, <<>>) /\ Upto(<<>>, made)
  BY <1>1, <1>5, NoneFits
<1>9. /\ Rising(got)' /\ Rising(inbox)' /\ Rising(keep)' /\ Rising(channel)'
  BY <1>2, <1>4, <1>5, <1>8 DEF Rising
<1>10. /\ Under(got, inbox)' /\ Under(got, keep)' /\ Under(got, channel)'
  BY <1>4, <1>6, <1>8 DEF Under
<1>11. Under(inbox, keep)' /\ Under(inbox, channel)' /\ Under(keep, channel)'
  BY <1>7, <1>8 DEF Under
<1>12. Upto(got, made)' /\ Upto(inbox, made)' /\ Upto(keep, made)' /\ Upto(channel, made)'
  BY <1>2, <1>4, <1>5, <1>8 DEF Upto
<1>13. (\A i \in 1..Len(got) : got[i] > 0)'
  BY <1>2
<1> QED
  BY <1>9, <1>10, <1>11, <1>12, <1>13 DEF SaidInOrder

\* As many reports as there are numbers up to n, at most.
LEMMA AtMost ==
    ASSUME NEW q \in Seq(Int), Rising(q), \A i \in 1..Len(q) : q[i] > 0, NEW n \in Nat, Upto(q, n)
    PROVE  Len(q) <= n
<1>1. Len(q) \in Nat
  OBVIOUS
<1>2. CASE Len(q) = 0
  BY <1>2
<1>3. CASE Len(q) # 0
  <2>1. Len(q) \in 1..Len(q)
    BY <1>1, <1>3
  <2>2. q[Len(q)] >= Len(q) /\ q[Len(q)] \in Int
    BY <2>1, AtLeast
  <2>3. q[Len(q)] <= n
    BY <2>1 DEF Upto
  <2> QED
    BY <1>1, <2>2, <2>3
<1> QED
  BY <1>2, <1>3

\* What comes after the first m.
Remains(q, m, r) ==
    /\ r \in Seq(Int) /\ Len(r) = Len(q) - m
    /\ \A i \in 1..(Len(q) - m) : i + m \in 1..Len(q) /\ r[i] = q[i + m]

\* The elements after the first m, by their place.
LEMMA RestRemains ==
    ASSUME NEW q \in Seq(Int), NEW m \in Nat, m <= Len(q)
    PROVE  Remains(q, m, SubSeq(q, m + 1, Len(q)))
<1> DEFINE r == SubSeq(q, m + 1, Len(q))
<1>1. Len(q) \in Nat
  OBVIOUS
<1>2. r \in Seq(Int)
  BY <1>1
<1>3. Len(r) = Len(q) - m
  BY <1>1
<1>4. \A i \in 1..(Len(q) - m) : i + m \in 1..Len(q) /\ r[i] = q[i + m]
  BY <1>1
<1> HIDE DEF r
<1>5. Remains(q, m, r)
  BY <1>2, <1>3, <1>4 DEF Remains
<1> QED
  BY <1>5 DEF r

\* An empty sequence has no number.
LEMMA NoneSaid == Bridges!Ns(<<>>) = {}
  BY DEF Bridges!Ns

\* The pass of the WireGuard bridge: what was held goes first, and what goes
\* beyond HELD_MAX is not the first report.
LEMMA WireguardKept ==
    ASSUME NetworkAssumption, BridgesInv, Bridges!WireguardReport, kind' = kind, made' = made, got' = got
    PROVE  BridgesInv'
<1>1. BridgesTypes /\ SaidInOrder /\ HeldIsSaid /\ Bridges!HeldKept
  BY DEF BridgesInv
<1>2. kind = "wireguard" /\ HELD_MAX \in Nat /\ HELD_MAX >= 1 /\ made \in Nat
  BY <1>1 DEF Bridges!WireguardReport, NetworkAssumption, BridgesTypes
<1> DEFINE all == keep \o channel
<1>3. all \in Seq(Int) /\ Fits(all)
  BY <1>1, HeldThenSaid
<1>4. \A i \in 1..Len(all) : all[i] >= 0
  <2>1. keep \in Seq(Int) /\ channel \in Seq(Int)
    BY <1>1 DEF BridgesTypes
  <2>2. /\ \A i \in 1..Len(keep) : keep[i] > 0 /\ keep[i] \in Int
        /\ \A i \in 1..Len(channel) : channel[i] >= 0
    BY <1>1, <2>1, SMTT(30) DEF HeldIsSaid
  <2>3. \A i \in 1..Len(all) : \/ i \in 1..Len(keep) /\ all[i] = keep[i]
                               \/ i - Len(keep) \in 1..Len(channel) /\ all[i] = channel[i - Len(keep)]
    BY <2>1, Joined
  <2> HIDE DEF all
  <2> SUFFICES ASSUME NEW i \in 1..Len(all)
               PROVE  all[i] >= 0
    OBVIOUS
  <2>4. CASE i \in 1..Len(keep) /\ all[i] = keep[i]
    <3>1. keep[i] \in Int /\ keep[i] > 0
      BY <2>2, <2>4
    <3> QED
      BY <2>4, <3>1
  <2>5. CASE i - Len(keep) \in 1..Len(channel) /\ all[i] = channel[i - Len(keep)]
    BY <2>2, <2>5
  <2> QED
    BY <2>3, <2>4, <2>5
<1>5. PICK t, l : t = Bridges!Pushed(all).taken /\ l = Bridges!Pushed(all).left
  OBVIOUS
<1>6. channel' = <<>> /\ inbox' = inbox \o t /\ Bridges!HoldReports(l) /\ counter' = counter
  BY <1>5 DEF Bridges!WireguardReport, Bridges!counterVars
<1> HIDE DEF all
<1>7. Split(all, t, l)
  BY <1>1, <1>3, <1>5, PushSplits
<1>8. t \in Seq(Int) /\ l \in Seq(Int) /\ Among(t, all) /\ Among(l, all) /\ Under(t, l) /\ Len(inbox \o t) <= QueueCap
  BY <1>3, <1>7 DEF Split, Fits
<1>9. Fits(t) /\ Fits(l)
  BY <1>1, <1>3, <1>8, FitsAmong
<1>10. \A i \in 1..Len(l) : l[i] >= 0
  <2>1. PICK g : Picked(all, 1..Len(all), l, g)
    BY <1>8 DEF Among
  <2>2. \A i \in 1..Len(l) : g[i] \in 1..Len(all) /\ l[i] = all[g[i]]
    BY <2>1 DEF Picked
  <2> QED
    BY <1>4, <2>2
<1>11. PICK once : once = Bridges!Once(l, {})
  OBVIOUS
<1>12. once \in Seq(Int) /\ Among(once, l) /\ \A i \in 1..Len(once) : once[i] > 0
  BY <1>8, <1>10, <1>11, OnceAmong
<1>13. Fits(once) /\ Under(t, once)
  BY <1>1, <1>8, <1>9, <1>12, FitsAmong, AmongUnder
<1>14. Len(once) \in Nat /\ Len(once) <= made /\ \A i \in 1..Len(once) : once[i] >= i
  <2>1. Rising(once) /\ Upto(once, made)
    BY <1>13 DEF Fits
  <2>2. Len(once) <= made
    BY <1>2, <1>12, <2>1, AtMost
  <2>3. \A i \in 1..Len(once) : once[i] >= i
    BY <1>12, <2>1, AtLeast
  <2>4. Len(once) \in Nat
    BY <1>12
  <2> QED
    BY <2>2, <2>3, <2>4
<1>15. PICK m \in Nat : m = IF Len(once) <= HELD_MAX THEN Len(once) ELSE HELD_MAX
  <2>1. (IF Len(once) <= HELD_MAX THEN Len(once) ELSE HELD_MAX) \in Nat
    BY <1>2, <1>14
  <2> QED
    BY ONLY <2>1
<1>16. PICK held, gone : held = SubSeq(once, 1, m) /\ gone = SubSeq(once, m + 1, Len(once))
  OBVIOUS
<1>17. keep' = held /\ lost' = lost \cup Bridges!Ns(gone)
  BY <1>6, <1>11, <1>15, <1>16 DEF Bridges!HoldReports
<1>18. held \in Seq(Int) /\ Among(held, once)
  <2>1. m <= Len(once) /\ 0 + 1 = 1
    BY <1>2, <1>14, <1>15
  <2>2. SubSeq(once, 0 + 1, m) \in Seq(Int) /\ Among(SubSeq(once, 0 + 1, m), once)
    BY <1>12, <2>1, PartOf
  <2> QED
    BY <1>16, <2>1, <2>2
<1>19. Fits(held) /\ Under(t, held) /\ \A i \in 1..Len(held) : held[i] > 0
  BY <1>1, <1>8, <1>12, <1>13, <1>18, FitsAmong, AmongUnder, AmongOf
<1>20. made <= HELD_MAX => Bridges!Ns(gone) = {}
  <2> SUFFICES ASSUME made <= HELD_MAX
               PROVE  Bridges!Ns(gone) = {}
    OBVIOUS
  <2>1. m = Len(once)
    BY <1>2, <1>14, <1>15
  <2>2. gone = <<>>
    BY <1>12, <1>14, <1>16, <2>1
  <2> QED
    BY <2>2, NoneSaid
<1>21. 1 \notin Bridges!Ns(gone)
  <2>1. CASE m = Len(once)
    <3>1. gone = <<>>
      BY <1>12, <1>14, <1>16, <2>1
    <3> QED
      BY <3>1, NoneSaid
  <2>2. CASE m # Len(once)
    <3>1. m >= 1 /\ m <= Len(once)
      BY <1>2, <1>14, <1>15, <2>2
    <3>2. \A i \in DOMAIN gone : i >= 1 /\ i \in Int /\ i + m \in 1..Len(once) /\ gone[i] = once[i + m]
      <4>0. m \in Nat /\ m <= Len(once) /\ once \in Seq(Int) /\ gone = SubSeq(once, m + 1, Len(once))
        BY <1>12, <1>16, <3>1
      <4>5. Remains(once, m, gone)
        BY <4>0, RestRemains
      <4>1. gone \in Seq(Int) /\ Len(gone) = Len(once) - m
        BY <4>5 DEF Remains
      <4>2. \A i \in 1..(Len(once) - m) : i + m \in 1..Len(once) /\ gone[i] = once[i + m]
        BY <4>5 DEF Remains
      <4>3. DOMAIN gone = 1..(Len(once) - m)
        BY <4>1
      <4> QED
        BY <4>2, <4>3, SMTT(30)
    <3>3. \A i \in 1..Len(once) : once[i] \in Int
      BY <1>12
    <3>4. \A i \in DOMAIN gone : gone[i] # 1
      BY <1>14, <3>1, <3>2, <3>3, SMTT(30)
    <3> QED
      BY <3>4 DEF Bridges!Ns
  <2> QED
    BY <2>1, <2>2
<1>22. Bridges!HeldKept'
  BY <1>1, <1>17, <1>20, <1>21 DEF Bridges!HeldKept
<1>23. SaidInOrder'
  BY <1>1, <1>6, <1>8, <1>9, <1>17, <1>18, <1>19, PassOrdered
<1>24. HeldIsSaid'
  <2>1. Len(channel') = 0
    BY <1>6
  <2> QED
    BY <1>2, <1>17, <1>19, <2>1 DEF HeldIsSaid
<1>25. BridgesTypes'
  <2>1. inbox \o t \in Seq(Int) /\ <<>> \in Seq(Int)
    BY <1>1, <1>8 DEF BridgesTypes
  <2> QED
    BY <1>1, <1>6, <1>8, <1>17, <1>18, <2>1 DEF BridgesTypes
<1> QED
  BY <1>22, <1>23, <1>24, <1>25 DEF BridgesInv

\* The pass of the WebRTC bridge: the oldest goes, only when HELD_MAX are held.
LEMMA WebrtcKept ==
    ASSUME NetworkAssumption, BridgesInv, Bridges!WebrtcReport, kind' = kind, made' = made, got' = got
    PROVE  BridgesInv'
<1>1. BridgesTypes /\ SaidInOrder /\ HeldIsSaid /\ Bridges!HeldKept
  BY DEF BridgesInv
<1>2. kind = "webrtc" /\ HELD_MAX \in Nat /\ HELD_MAX >= 1 /\ made \in Nat
  BY <1>1 DEF Bridges!WebrtcReport, NetworkAssumption, BridgesTypes
<1>3. PICK all : all = keep \o channel
  OBVIOUS
<1>4. all \in Seq(Int) /\ Fits(all)
  BY <1>1, <1>3, HeldThenSaid
<1>5. \A i \in 1..Len(all) : all[i] > 0
  <2>1. keep \in Seq(Int) /\ channel \in Seq(Int)
    BY <1>1 DEF BridgesTypes
  <2>2. (\A i \in 1..Len(keep) : keep[i] > 0) /\ (\A i \in 1..Len(channel) : channel[i] > 0)
    BY <1>1, <1>2 DEF HeldIsSaid
  <2> QED
    BY <1>3, <2>1, <2>2, Joins
<1>6. Len(all) \in Nat /\ Len(all) <= made
  <2>1. Rising(all) /\ Upto(all, made)
    BY <1>4 DEF Fits
  <2>2. Len(all) <= made
    BY <1>2, <1>4, <1>5, <2>1, AtMost
  <2>3. Len(all) \in Nat
    BY <1>4
  <2> QED
    BY <2>2, <2>3
<1>7. PICK cut \in Nat : cut = IF Len(all) > HELD_MAX THEN Len(all) - HELD_MAX ELSE 0
  <2>1. HELD_MAX \in Nat /\ Len(all) \in Nat
    BY <1>2, <1>6
  <2>2. (IF Len(all) > HELD_MAX THEN Len(all) - HELD_MAX ELSE 0) \in Nat
    BY ONLY <2>1
  <2> QED
    BY ONLY <2>2
<1>8. PICK rest : rest = SubSeq(all, cut + 1, Len(all))
  OBVIOUS
<1>9. PICK t, l : t = Bridges!Pushed(rest).taken /\ l = Bridges!Pushed(rest).left
  OBVIOUS
<1>10. /\ channel' = <<>> /\ inbox' = inbox \o t /\ keep' = l /\ counter' = counter
       /\ lost' = lost \cup Bridges!Ns(SubSeq(all, 1, cut))
  BY <1>3, <1>7, <1>8, <1>9 DEF Bridges!WebrtcReport, Bridges!counterVars
<1>11. rest \in Seq(Int) /\ Among(rest, all)
  <2>1. Len(all) <= Len(all)
    BY <1>6
  <2> QED
    BY <1>4, <1>6, <1>7, <1>8, <2>1, PartOf
<1>12. Fits(rest) /\ \A i \in 1..Len(rest) : rest[i] > 0
  BY <1>1, <1>4, <1>5, <1>11, FitsAmong, AmongOf
<1>13. Split(rest, t, l)
  BY <1>1, <1>9, <1>11, PushSplits
<1>14. t \in Seq(Int) /\ l \in Seq(Int) /\ Among(t, rest) /\ Among(l, rest) /\ Under(t, l) /\ Len(inbox \o t) <= QueueCap
  BY <1>12, <1>13 DEF Split, Fits
<1>15. Fits(t) /\ Fits(l) /\ \A i \in 1..Len(l) : l[i] > 0
  BY <1>1, <1>11, <1>12, <1>14, FitsAmong, AmongOf
<1>16. made <= HELD_MAX => Bridges!Ns(SubSeq(all, 1, cut)) = {}
  <2> SUFFICES ASSUME made <= HELD_MAX
               PROVE  Bridges!Ns(SubSeq(all, 1, cut)) = {}
    OBVIOUS
  <2>1. cut = 0
    BY <1>2, <1>6, <1>7
  <2>2. SubSeq(all, 1, cut) = <<>>
    BY <1>4, <2>1
  <2> QED
    BY <2>2, NoneSaid
<1>17. Bridges!HeldKept'
  BY <1>1, <1>2, <1>10, <1>16 DEF Bridges!HeldKept
<1>18. SaidInOrder'
  BY <1>1, <1>10, <1>14, <1>15, PassOrdered
<1>19. HeldIsSaid'
  <2>1. Len(channel') = 0
    BY <1>10
  <2> QED
    BY <1>2, <1>10, <1>15, <2>1 DEF HeldIsSaid
<1>20. BridgesTypes'
  <2>1. inbox \o t \in Seq(Int) /\ <<>> \in Seq(Int)
    BY <1>1, <1>14 DEF BridgesTypes
  <2> QED
    BY <1>1, <1>10, <1>14, <2>1 DEF BridgesTypes
<1> QED
  BY <1>17, <1>18, <1>19, <1>20 DEF BridgesInv

\* A reading of a counter is no report said once.
LEMMA ReadingFits ==
    ASSUME BridgesTypes, SaidInOrder, NEW x \in Int, x < 0
    PROVE  channel \o <<x>> \in Seq(Int) /\ Fits(channel \o <<x>>)
<1>1. got \in Seq(Int) /\ inbox \in Seq(Int) /\ channel \in Seq(Int) /\ made \in Nat
  BY DEF BridgesTypes
<1>2. Rising(channel) /\ Upto(channel, made) /\ Under(got, channel) /\ Under(inbox, channel)
  BY DEF SaidInOrder
<1>3. <<x>> \in Seq(Int) /\ Len(<<x>>) = 1 /\ <<x>>[1] = x
  OBVIOUS
<1>4. Rising(<<x>>) /\ Upto(<<x>>, made) /\ Under(got, <<x>>) /\ Under(inbox, <<x>>) /\ Under(channel, <<x>>)
  <2>1. \A i \in 1..Len(<<x>>) : <<x>>[i] = x
    BY <1>3
  <2>2. ~(x > 0) /\ x <= made
    BY <1>1
  <2> QED
    BY <1>1, <2>1, <2>2 DEF Rising, Upto, Under
<1>5. channel \o <<x>> \in Seq(Int) /\ Rising(channel \o <<x>>) /\ Upto(channel \o <<x>>, made)
  <2>1. made \in Int
    BY <1>1
  <2> QED
    BY <1>1, <1>2, <1>3, <1>4, <2>1, Joins
<1>6. Under(got, channel \o <<x>>) /\ Under(inbox, channel \o <<x>>)
  BY <1>1, <1>2, <1>3, <1>4, JoinsUnder
<1> QED
  BY <1>5, <1>6 DEF Fits

\* The pass of a bridge that holds nothing.
LEMMA PushedOnceKept ==
    ASSUME NetworkAssumption, BridgesInv, Bridges!PushedOnce, kind' = kind, made' = made, got' = got
    PROVE  BridgesInv'
<1>1. BridgesTypes /\ SaidInOrder /\ HeldIsSaid /\ Bridges!HeldKept
  BY DEF BridgesInv
<1>2. /\ kind \notin {"wireguard", "webrtc"} /\ keep' = keep /\ counter' = counter /\ channel' = <<>>
  BY DEF Bridges!PushedOnce
<1>3. keep = <<>> /\ made \in Nat /\ counter \in Nat
  BY <1>1, <1>2 DEF HeldIsSaid, BridgesTypes
<1>4a. PICK msgs : /\ msgs \in {channel \o <<>>, channel \o <<Bridges!Reading(counter)>>}
                   /\ inbox' = inbox \o Bridges!Pushed(msgs).taken
  <2>1. PICK due \in BOOLEAN :
          LET reads == due /\ kind \in {"turn", "stun"} /\ sent # counter
              msgs == channel \o (IF reads THEN <<Bridges!Reading(counter)>> ELSE <<>>)
          IN  inbox' = inbox \o Bridges!Pushed(msgs).taken
    BY DEF Bridges!PushedOnce
  <2>2. CASE due /\ kind \in {"turn", "stun"} /\ sent # counter
    <3>1. inbox' = inbox \o Bridges!Pushed(channel \o <<Bridges!Reading(counter)>>).taken
      BY <2>1, <2>2
    <3> QED
      BY <3>1
  <2>3. CASE ~(due /\ kind \in {"turn", "stun"} /\ sent # counter)
    <3>1. inbox' = inbox \o Bridges!Pushed(channel \o <<>>).taken
      BY <2>1, <2>3
    <3> QED
      BY <3>1
  <2> QED
    BY <2>2, <2>3
<1>4. PICK t, l : t = Bridges!Pushed(msgs).taken /\ l = Bridges!Pushed(msgs).left
  OBVIOUS
<1>5. msgs \in Seq(Int) /\ Fits(msgs)
  <2>1. channel \in Seq(Int) /\ channel \o <<>> = channel
    BY <1>1 DEF BridgesTypes
  <2>2. Fits(channel)
    BY <1>1 DEF SaidInOrder, Fits
  <2>3. Bridges!Reading(counter) \in Int /\ Bridges!Reading(counter) < 0
    BY <1>3 DEF Bridges!Reading
  <2>4. channel \o <<Bridges!Reading(counter)>> \in Seq(Int) /\ Fits(channel \o <<Bridges!Reading(counter)>>)
    BY <1>1, <2>3, ReadingFits
  <2> QED
    BY <1>4a, <2>1, <2>2, <2>4
<1>6. Split(msgs, t, l)
  BY <1>1, <1>4, <1>5, PushSplits
<1>7. t \in Seq(Int) /\ Among(t, msgs) /\ Len(inbox \o t) <= QueueCap
  BY <1>6 DEF Split
<1>8. Fits(t)
  BY <1>1, <1>5, <1>7, FitsAmong
<1>9. <<>> \in Seq(Int) /\ Fits(<<>>) /\ Under(t, <<>>)
  <2>1. got \in Seq(Int) /\ inbox \in Seq(Int) /\ made \in Int
    BY <1>1 DEF BridgesTypes
  <2> QED
    BY <1>7, <2>1, NoneFits DEF Fits
<1>10. SaidInOrder'
  BY <1>1, <1>2, <1>3, <1>4a, <1>4, <1>7, <1>8, <1>9, PassOrdered
<1>11. Bridges!HeldKept'
  BY <1>2 DEF Bridges!HeldKept
<1>12. HeldIsSaid'
  <2>1. Len(channel') = 0 /\ Len(keep') = 0
    BY <1>2, <1>3
  <2> QED
    BY <1>2, <1>3, <2>1 DEF HeldIsSaid
<1>13. BridgesTypes'
  <2>1. inbox \o t \in Seq(Int)
    BY <1>1, <1>7 DEF BridgesTypes
  <2> QED
    BY <1>1, <1>2, <1>3, <1>4a, <1>4, <1>7, <1>9, <2>1 DEF BridgesTypes
<1> QED
  BY <1>10, <1>11, <1>12, <1>13 DEF BridgesInv

\* Saying a report, or a snapshot, which is numbered 0.
LEMMA SaysOne ==
    ASSUME NEW q \in Seq(Int), NEW n \in Nat, Rising(q), Upto(q, n), NEW x \in Nat, x = n + 1 \/ x = 0
    PROVE  /\ Append(q, x) \in Seq(Int) /\ Rising(Append(q, x)) /\ Upto(Append(q, x), n + 1)
           /\ x = 0 => Upto(Append(q, x), n)
           /\ \A u \in Seq(Int) : Upto(u, n) /\ Under(u, q) => Under(u, Append(q, x))
<1> DEFINE v == Append(q, x)
<1>1. Len(q) \in Nat /\ v \in Seq(Int) /\ Len(v) = Len(q) + 1 /\ v[Len(q) + 1] = x
  OBVIOUS
<1>2. \A i \in 1..Len(q) : v[i] = q[i] /\ q[i] \in Int
  OBVIOUS
<1>3. \A i \in 1..Len(q) : q[i] <= n
  BY DEF Upto
<1> HIDE DEF v
<1>4. \A i \in 1..Len(v) : i \in 1..Len(q) \/ i = Len(q) + 1
  BY <1>1
<1>5. ASSUME NEW i \in 1..Len(v), NEW j \in 1..Len(v), i < j, v[i] > 0, v[j] > 0
      PROVE  v[i] < v[j]
  <2>1. i \in 1..Len(q) /\ v[i] = q[i] /\ q[i] \in Int /\ q[i] <= n
    BY <1>1, <1>2, <1>3, <1>4, <1>5
  <2>2. CASE j \in 1..Len(q)
    BY <1>2, <1>5, <2>1, <2>2 DEF Rising
  <2>3. CASE j = Len(q) + 1
    BY <1>1, <1>5, <2>1, <2>3
  <2> QED
    BY <1>4, <2>2, <2>3
<1>6. Upto(v, n + 1) /\ (x = 0 => Upto(v, n))
  <2>1. \A i \in 1..Len(v) : v[i] <= n \/ v[i] = x
    BY <1>1, <1>2, <1>3, <1>4
  <2>2. \A i \in 1..Len(v) : v[i] \in Int
    BY <1>1
  <2> QED
    BY <2>1, <2>2 DEF Upto
<1>7. ASSUME NEW u \in Seq(Int), Upto(u, n), Under(u, q)
      PROVE  Under(u, v)
  <2> SUFFICES ASSUME NEW i \in 1..Len(u), NEW j \in 1..Len(v), u[i] > 0, v[j] > 0
               PROVE  u[i] < v[j]
    BY DEF Under
  <2>1. u[i] \in Int /\ u[i] <= n
    BY <1>7 DEF Upto
  <2>2. CASE j \in 1..Len(q)
    BY <1>2, <1>7, <2>2 DEF Under
  <2>3. CASE j = Len(q) + 1
    BY <1>1, <2>1, <2>3
  <2> QED
    BY <1>4, <2>2, <2>3
<1>8. Rising(v)
  BY <1>5 DEF Rising
<1> QED
  BY <1>1, <1>6, <1>7, <1>8 DEF v

\* A step that says the report x.
Speaks(x) ==
    /\ channel' = Append(channel, x)
    /\ (x = made + 1 /\ made' = made + 1) \/ (x = 0 /\ made' = made /\ kind # "webrtc")
    /\ kind' = kind /\ keep' = keep /\ inbox' = inbox /\ got' = got /\ lost' = lost /\ counter' = counter

\* The service says a report, or a snapshot.
LEMMA SaidKept ==
    ASSUME NetworkAssumption, BridgesInv, NEW x \in Nat, Speaks(x)
    PROVE  BridgesInv'
<1>0. /\ channel' = Append(channel, x)
      /\ (x = made + 1 /\ made' = made + 1) \/ (x = 0 /\ made' = made /\ kind # "webrtc")
      /\ kind' = kind /\ keep' = keep /\ inbox' = inbox /\ got' = got /\ lost' = lost /\ counter' = counter
  BY DEF Speaks
<1>1. BridgesTypes /\ SaidInOrder /\ HeldIsSaid /\ Bridges!HeldKept
  BY DEF BridgesInv
<1>2. /\ got \in Seq(Int) /\ inbox \in Seq(Int) /\ keep \in Seq(Int) /\ channel \in Seq(Int)
      /\ made \in Nat /\ counter \in Nat /\ Len(inbox) <= QueueCap
  BY <1>1 DEF BridgesTypes
<1>3. /\ Rising(got) /\ Rising(inbox) /\ Rising(keep) /\ Rising(channel)
      /\ Under(got, inbox) /\ Under(got, keep) /\ Under(got, channel)
      /\ Under(inbox, keep) /\ Under(inbox, channel) /\ Under(keep, channel)
      /\ Upto(got, made) /\ Upto(inbox, made) /\ Upto(keep, made) /\ Upto(channel, made)
      /\ \A i \in 1..Len(got) : got[i] > 0
  BY <1>1 DEF SaidInOrder
<1>4. PICK v : v = Append(channel, x)
  OBVIOUS
<1>5. v \in Seq(Int) /\ Rising(v) /\ Upto(v, made + 1) /\ (x = 0 => Upto(v, made))
  BY <1>0, <1>2, <1>3, <1>4, SaysOne
<1>6. \A u \in Seq(Int) : Upto(u, made) /\ Under(u, channel) => Under(u, v)
  BY <1>0, <1>2, <1>3, <1>4, SaysOne
<1>7. Under(got, v) /\ Under(inbox, v) /\ Under(keep, v)
  BY <1>2, <1>3, <1>6
<1>8. made' \in Nat /\ made' >= made
  BY <1>0, <1>2, SMTT(30)
<1>9. \A u \in Seq(Int) : Upto(u, made) => Upto(u, made')
  <2>1. PICK n \in Nat : n = made'
    BY <1>8
  <2>2. made \in Nat /\ made <= n
    BY <1>2, <1>8, <2>1
  <2> SUFFICES ASSUME NEW u \in Seq(Int), Upto(u, made), NEW i \in 1..Len(u)
               PROVE  u[i] <= n
    BY <2>1 DEF Upto
  <2>3. u[i] \in Int
    OBVIOUS
  <2>4. u[i] <= made
    BY DEF Upto
  <2> QED
    BY <2>2, <2>3, <2>4, SMTT(30)
<1>10. channel' = v /\ Upto(v, made')
  BY <1>0, <1>4, <1>5
<1>11. Rising(got)' /\ Rising(inbox)' /\ Rising(keep)' /\ Rising(channel)'
  BY <1>0, <1>3, <1>5, <1>10 DEF Rising
<1>12. Under(got, inbox)' /\ Under(got, keep)' /\ Under(inbox, keep)'
  BY <1>0, <1>3 DEF Under
<1>13. Under(got, channel)' /\ Under(inbox, channel)' /\ Under(keep, channel)'
  BY <1>0, <1>7, <1>10 DEF Under
<1>14. Upto(got, made') /\ Upto(inbox, made') /\ Upto(keep, made')
  BY <1>2, <1>3, <1>9
<1>15. Upto(got, made)' /\ Upto(inbox, made)' /\ Upto(keep, made)' /\ Upto(channel, made)'
  BY <1>0, <1>10, <1>14 DEF Upto
<1>16. SaidInOrder'
  BY <1>0, <1>3, <1>11, <1>12, <1>13, <1>15 DEF SaidInOrder
<1>17. HeldIsSaid'
  <2>1. /\ \A i \in 1..Len(keep) : keep[i] > 0
        /\ \A i \in 1..Len(channel) : channel[i] >= 0 /\ (kind = "webrtc" => channel[i] > 0)
        /\ kind \notin {"wireguard", "webrtc"} => keep = <<>>
    BY <1>1 DEF HeldIsSaid
  <2>2. Len(channel) \in Nat /\ Len(v) = Len(channel) + 1 /\ v[Len(channel) + 1] = x /\ x \in Nat
    BY <1>2, <1>4
  <2>3. \A i \in 1..Len(channel) : v[i] = channel[i]
    BY <1>2, <1>4
  <2>4. \A i \in 1..Len(v) : i \in 1..Len(channel) \/ i = Len(channel) + 1
    BY <2>2
  <2>5. kind = "webrtc" => x > 0
    BY <1>0, <1>2
  <2>6. \A i \in 1..Len(v) : v[i] >= 0 /\ (kind = "webrtc" => v[i] > 0)
    BY <2>1, <2>2, <2>3, <2>4, <2>5, SMTT(30)
  <2> QED
    BY <1>0, <1>10, <2>1, <2>6 DEF HeldIsSaid
<1>18. Bridges!HeldKept'
  <2>1. made' <= HELD_MAX => made <= HELD_MAX
    BY <1>2, <1>8 DEF NetworkAssumption
  <2> QED
    BY <1>0, <1>1, <2>1 DEF Bridges!HeldKept
<1>19. BridgesTypes'
  BY <1>0, <1>2, <1>5, <1>8, <1>10 DEF BridgesTypes
<1> QED
  BY <1>16, <1>17, <1>18, <1>19 DEF BridgesInv

\* What was read comes before all the rest.
LEMMA ReadKept ==
    ASSUME NetworkAssumption, BridgesInv, Bridges!Read
    PROVE  BridgesInv'
<1>1. BridgesTypes /\ SaidInOrder /\ HeldIsSaid /\ Bridges!HeldKept
  BY DEF BridgesInv
<1>2. /\ got \in Seq(Int) /\ inbox \in Seq(Int) /\ keep \in Seq(Int) /\ channel \in Seq(Int)
      /\ made \in Nat /\ counter \in Nat /\ Len(inbox) <= QueueCap
  BY <1>1 DEF BridgesTypes
<1>3. /\ Rising(got) /\ Rising(inbox) /\ Rising(keep) /\ Rising(channel)
      /\ Under(got, inbox) /\ Under(got, keep) /\ Under(got, channel)
      /\ Under(inbox, keep) /\ Under(inbox, channel) /\ Under(keep, channel)
      /\ Upto(got, made) /\ Upto(inbox, made) /\ Upto(keep, made) /\ Upto(channel, made)
      /\ \A i \in 1..Len(got) : got[i] > 0
  BY <1>1 DEF SaidInOrder
<1>4. PICK h, t : h = Head(inbox) /\ t = Tail(inbox)
  OBVIOUS
<1>5. /\ inbox # <<>> /\ inbox' = t /\ got' = IF h > 0 THEN Append(got, h) ELSE got
      /\ kind' = kind /\ made' = made /\ channel' = channel /\ keep' = keep /\ lost' = lost /\ counter' = counter
  BY <1>4 DEF Bridges!Read, Bridges!counterVars
<1>6. h \in Int /\ t \in Seq(Int) /\ inbox[1] = h /\ Len(inbox) \in Nat /\ Len(inbox) >= 1 /\ Len(t) = Len(inbox) - 1
  BY <1>2, <1>4, <1>5, SMTT(30)
<1>7. \A i \in 1..Len(t) : i + 1 \in 1..Len(inbox) /\ t[i] = inbox[i + 1]
  BY <1>2, <1>4, <1>5, <1>6
<1>8. 1 \in 1..Len(inbox)
  BY <1>6
<1>9. Rising(t) /\ Upto(t, made) /\ \A u \in Seq(Int) : (Under(u, inbox) => Under(u, t)) /\ (Under(inbox, u) => Under(t, u))
  <2>1. \A i, j \in 1..Len(t) : i < j => i + 1 < j + 1
    BY <1>6
  <2>2. Rising(t)
    BY <1>3, <1>7, <2>1 DEF Rising
  <2>3. Upto(t, made)
    BY <1>3, <1>7 DEF Upto
  <2>4. \A u \in Seq(Int) : (Under(u, inbox) => Under(u, t)) /\ (Under(inbox, u) => Under(t, u))
    BY <1>7 DEF Under
  <2> QED
    BY <2>2, <2>3, <2>4
<1>10. PICK g : g = IF h > 0 THEN Append(got, h) ELSE got
  OBVIOUS
\* What the program has now: as before, or one more.
<1>11. /\ g \in Seq(Int) /\ Rising(g) /\ Upto(g, made) /\ (\A i \in 1..Len(g) : g[i] > 0)
       /\ Under(g, t) /\ Under(g, keep) /\ Under(g, channel)
  <2>1. CASE ~(h > 0)
    BY <1>2, <1>3, <1>9, <1>10, <2>1
  <2>2. CASE h > 0
    <3>1. g = Append(got, h)
      BY <1>10, <2>2
    <3>2. g \in Seq(Int) /\ Len(got) \in Nat /\ Len(g) = Len(got) + 1 /\ g[Len(got) + 1] = h
      <4>1. got \in Seq(Int) /\ h \in Int
        BY <1>2, <1>6
      <4>2. Append(got, h) \in Seq(Int) /\ Len(Append(got, h)) = Len(got) + 1 /\ Append(got, h)[Len(got) + 1] = h
        BY ONLY <4>1
      <4>3. Len(got) \in Nat
        BY <4>1
      <4> QED
        BY <3>1, <4>2, <4>3
    <3>3. \A i \in 1..Len(got) : g[i] = got[i] /\ got[i] \in Int
      BY <1>2, <3>1
    <3>4. \A i \in 1..Len(g) : i \in 1..Len(got) \/ i = Len(got) + 1
      BY <3>2
    <3>5. \A i \in 1..Len(got) : got[i] < h
      BY <1>3, <1>6, <1>8, <2>2 DEF Under
    <3>6. \A i, j \in 1..Len(g) : i < j => i \in 1..Len(got)
      BY <3>2
    <3>7. Rising(g)
      BY <1>3, <3>2, <3>3, <3>4, <3>5, <3>6 DEF Rising
    <3>8. Upto(g, made)
      <4>1. h <= made
        BY <1>3, <1>6, <1>8 DEF Upto
      <4> QED
        BY <1>3, <3>2, <3>3, <3>4, <4>1 DEF Upto
    <3>9. \A i \in 1..Len(g) : g[i] > 0
      BY <1>3, <2>2, <3>2, <3>3, <3>4
    <3>10. Under(g, t)
      <4>1. \A j \in 1..Len(t) : t[j] > 0 => h < t[j]
        <5>1. \A j \in 1..Len(t) : 1 < j + 1
          BY <1>6
        <5> QED
          BY <1>3, <1>6, <1>7, <1>8, <2>2, <5>1 DEF Rising
      <4>2. Under(got, t)
        BY <1>2, <1>3, <1>9
      <4> QED
        BY <3>2, <3>3, <3>4, <4>1, <4>2 DEF Under
    <3>11. Under(g, keep)
      <4>1. \A j \in 1..Len(keep) : keep[j] > 0 => h < keep[j]
        BY <1>3, <1>6, <1>8, <2>2 DEF Under
      <4> QED
        BY <1>3, <3>2, <3>3, <3>4, <4>1 DEF Under
    <3>12. Under(g, channel)
      <4>1. \A j \in 1..Len(channel) : channel[j] > 0 => h < channel[j]
        BY <1>3, <1>6, <1>8, <2>2 DEF Under
      <4> QED
        BY <1>3, <3>2, <3>3, <3>4, <4>1 DEF Under
    <3> QED
      BY <3>2, <3>7, <3>8, <3>9, <3>10, <3>11, <3>12
  <2> QED
    BY <2>1, <2>2
<1>12. got' = g
  BY <1>5, <1>10
<1>13. Under(t, keep) /\ Under(t, channel)
  BY <1>2, <1>3, <1>9
<1>14. Rising(got)' /\ Rising(inbox)' /\ Rising(keep)' /\ Rising(channel)'
  BY <1>3, <1>5, <1>9, <1>11, <1>12 DEF Rising
<1>15. Under(got, inbox)' /\ Under(got, keep)' /\ Under(got, channel)'
  BY <1>5, <1>11, <1>12 DEF Under
<1>16. Under(inbox, keep)' /\ Under(inbox, channel)' /\ Under(keep, channel)'
  BY <1>3, <1>5, <1>13 DEF Under
<1>17. Upto(got, made)' /\ Upto(inbox, made)' /\ Upto(keep, made)' /\ Upto(channel, made)'
  BY <1>3, <1>5, <1>9, <1>11, <1>12 DEF Upto
<1>18. (\A i \in 1..Len(got) : got[i] > 0)'
  BY <1>11, <1>12
<1>19. SaidInOrder'
  BY <1>14, <1>15, <1>16, <1>17, <1>18 DEF SaidInOrder
<1>20. HeldIsSaid'
  BY <1>1, <1>5 DEF HeldIsSaid
<1>21. Bridges!HeldKept'
  BY <1>1, <1>5 DEF Bridges!HeldKept
<1>22. BridgesTypes'
  <2>1. Len(t) <= QueueCap
    BY <1>1, <1>6, SMTT(30) DEF BridgesTypes, NetworkAssumption
  <2> QED
    BY <1>2, <1>5, <1>6, <1>11, <1>12, <2>1 DEF BridgesTypes
<1> QED
  BY <1>19, <1>20, <1>21, <1>22 DEF BridgesInv

\* A counter that moves and a queue that is declared change no report.
LEMMA SameReports ==
    ASSUME BridgesInv, counter' \in Nat, UNCHANGED <<kind, made, channel, keep, inbox, got, lost>>
    PROVE  BridgesInv'
<1>1. BridgesTypes /\ SaidInOrder /\ HeldIsSaid /\ Bridges!HeldKept
  BY DEF BridgesInv
<1>2. BridgesTypes'
  BY <1>1 DEF BridgesTypes
<1>3. SaidInOrder'
  BY <1>1 DEF SaidInOrder, Rising, Under, Upto
<1>4. HeldIsSaid'
  BY <1>1 DEF HeldIsSaid
<1>5. Bridges!HeldKept'
  BY <1>1 DEF Bridges!HeldKept
<1> QED
  BY <1>2, <1>3, <1>4, <1>5 DEF BridgesInv

\* At first nothing was said.
LEMMA BridgesFirst == NetworkAssumption /\ Bridges!Init => BridgesInv
<1> SUFFICES ASSUME NetworkAssumption, Bridges!Init
             PROVE  BridgesInv
  OBVIOUS
<1>1. /\ made = 0 /\ channel = <<>> /\ keep = <<>> /\ inbox = <<>> /\ got = <<>> /\ lost = {} /\ counter = 0
  BY DEF Bridges!Init
<1>2. <<>> \in Seq(Int) /\ Len(<<>>) = 0
  OBVIOUS
<1>3. BridgesTypes
  BY <1>1, <1>2 DEF BridgesTypes, NetworkAssumption
<1>4. SaidInOrder
  <2>1. Rising(<<>>) /\ Under(<<>>, <<>>) /\ Upto(<<>>, made)
    BY <1>2 DEF Rising, Under, Upto
  <2>2. \A i \in 1..Len(got) : got[i] > 0
    BY <1>1, <1>2
  <2> QED
    BY <1>1, <2>1, <2>2 DEF SaidInOrder
<1>5. HeldIsSaid
  BY <1>1, <1>2 DEF HeldIsSaid
<1>6. Bridges!HeldKept
  BY <1>1 DEF Bridges!HeldKept
<1> QED
  BY <1>3, <1>4, <1>5, <1>6 DEF BridgesInv

\* Every step of a bridge keeps its invariant.
LEMMA BridgesKept == NetworkAssumption /\ BridgesInv /\ Bridges!Next => BridgesInv'
<1> SUFFICES ASSUME NetworkAssumption, BridgesInv, Bridges!Next
             PROVE  BridgesInv'
  OBVIOUS
<1>0. made \in Nat /\ counter \in Nat
  BY DEF BridgesInv, BridgesTypes
<1>1. CASE Bridges!Says
  <2>1. PICK x \in Nat : x = made + 1
    BY <1>0
  <2>2. channel' = Append(channel, made + 1) /\ made' = made + 1
    BY <1>1 DEF Bridges!Says
  <2>3. kind' = kind /\ keep' = keep /\ inbox' = inbox /\ got' = got /\ lost' = lost /\ counter' = counter
    BY <1>1 DEF Bridges!Says, Bridges!counterVars
  <2>4. channel' = Append(channel, x) /\ x = made + 1
    BY <2>1, <2>2
  <2>5. Speaks(x)
    BY <2>2, <2>3, <2>4 DEF Speaks
  <2> QED
    BY <2>5, SaidKept
<1>2. CASE Bridges!Snapshot
  <2>1. PICK x \in Nat : x = 0
    OBVIOUS
  <2>2. Speaks(x)
    BY <1>2, <2>1 DEF Bridges!Snapshot, Bridges!counterVars, Speaks
  <2> QED
    BY <2>2, SaidKept
<1>3. CASE Bridges!Counts
  <2>1. counter' \in Nat /\ UNCHANGED <<kind, made, channel, keep, inbox, got, lost>>
    BY <1>0, <1>3 DEF Bridges!Counts
  <2> QED
    BY <2>1, SameReports
<1>4. CASE Bridges!Pass
  <2>1. kind' = kind /\ made' = made /\ got' = got
    BY <1>4 DEF Bridges!Pass
  <2>2. Bridges!WireguardReport \/ Bridges!WebrtcReport \/ Bridges!PushedOnce
    BY <1>4 DEF Bridges!Pass
  <2> QED
    BY <2>1, <2>2, WireguardKept, WebrtcKept, PushedOnceKept
<1>5. CASE Bridges!Declare
  <2>1. counter' \in Nat /\ UNCHANGED <<kind, made, channel, keep, inbox, got, lost>>
    BY <1>0, <1>5 DEF Bridges!Declare, Bridges!counterVars
  <2> QED
    BY <2>1, SameReports
<1>6. CASE Bridges!Read
  BY <1>6, ReadKept
<1> QED
  BY <1>1, <1>2, <1>3, <1>4, <1>5, <1>6 DEF Bridges!Next

\* What the program heard is in order, and what a bridge must not lose is not
\* lost.
LEMMA BridgesTells == BridgesInv => Bridges!HeardInOrder /\ Bridges!HeldKept
<1> SUFFICES ASSUME BridgesInv
             PROVE  Bridges!HeardInOrder /\ Bridges!HeldKept
  OBVIOUS
<1>1. Bridges!HeldKept /\ Rising(got) /\ (\A i \in 1..Len(got) : got[i] > 0) /\ got \in Seq(Int)
  BY DEF BridgesInv, SaidInOrder, BridgesTypes
<1>2. DOMAIN got = 1..Len(got)
  BY <1>1
<1>3. Bridges!HeardInOrder
  BY <1>1, <1>2 DEF Bridges!HeardInOrder, Rising
<1> QED
  BY <1>1, <1>3

(***************************************************************************)
(* The network.                                                            *)
(***************************************************************************)

\* Each part keeps its own promise while the behaviour is its own.
NetworkInv ==
    /\ part \in {"relay", "wisp", "p2p", "bridges"}
    /\ part = "relay" => RelayInv
    /\ part = "wisp" => WispInv
    /\ part = "p2p" => P2pInv
    /\ part = "bridges" => BridgesInv

\* The part that runs starts with its own invariant.
LEMMA NetworkFirst == Init => NetworkInv
<1>1. ASSUME part = "relay", Relay!Init
      PROVE  NetworkInv
  BY <1>1, RelayFirst DEF NetworkInv
<1>2. ASSUME part = "wisp", Wisp!Init
      PROVE  NetworkInv
  BY <1>2, WispFirst DEF NetworkInv
<1>3. ASSUME part = "p2p", P2p!Init
      PROVE  NetworkInv
  BY <1>3, P2pFirst DEF NetworkInv
<1>4. ASSUME part = "bridges", Bridges!Init
      PROVE  NetworkInv
  BY <1>4, BridgesFirst, NetworkAssumption DEF NetworkInv
<1> QED
  BY <1>1, <1>2, <1>3, <1>4 DEF Init

\* A step that leaves the relay alone.
LEMMA RelayStays == RelayInv /\ UNCHANGED relayVars => RelayInv'
<1> SUFFICES ASSUME RelayInv, UNCHANGED relayVars
             PROVE  RelayInv'
  OBVIOUS
<1>1. ws' = ws /\ lot' = lot /\ asks' = asks /\ queue' = queue /\ replies' = replies
  BY DEF relayVars
<1>2. RelayTypes /\ AskedOnce /\ Answered /\ PlacedOnce
  BY DEF RelayInv
<1>3. RelayTypes'
  BY <1>1, <1>2 DEF RelayTypes
<1>4. AskedOnce'
  BY <1>1, <1>2 DEF AskedOnce
<1>5. Answered'
  BY <1>1, <1>2 DEF Answered
<1>6. PlacedOnce'
  BY <1>1, <1>2 DEF PlacedOnce
<1> QED
  BY <1>3, <1>4, <1>5, <1>6 DEF RelayInv

\* A step that leaves the streams alone.
LEMMA WispStays == WispInv /\ UNCHANGED wispVars => WispInv'
<1> SUFFICES ASSUME WispInv, UNCHANGED wispVars
             PROVE  WispInv'
  OBVIOUS
<1>1. /\ call' = call /\ serve' = serve /\ up' = up /\ down' = down /\ outbox' = outbox
      /\ said' = said /\ target' = target /\ live' = live
  BY DEF wispVars
<1>2. WispTypes'
  BY <1>1 DEF WispInv, WispTypes
<1>3. (\A s \in Streams : CallFine(call[s]) /\ ServeFine(serve[s], said[s], target[s]))'
  BY <1>1 DEF WispInv
<1>4. (live = "up" => \A s \in Streams : OnTheWay(up, s, call[s], serve[s], target[s]))'
  BY <1>1 DEF WispInv
<1>5. (live # "up" => \A s \in Streams : serve[s].st \in {"none", "gone"})'
  BY <1>1 DEF WispInv
<1> QED
  BY <1>2, <1>3, <1>4, <1>5 DEF WispInv

\* A step that leaves the pairing host alone.
LEMMA P2pStays == P2pInv /\ UNCHANGED p2pVars => P2pInv'
<1> SUFFICES ASSUME P2pInv, UNCHANGED p2pVars
             PROVE  P2pInv'
  OBVIOUS
<1>1. page' = page /\ pair' = pair /\ commands' = commands /\ sess' = sess /\ reports' = reports /\ ever' = ever
  BY DEF p2pVars
<1>2. P2p!Asked' = P2p!Asked
  BY <1>1 DEF P2p!Asked, P2p!Own
<1> QED
  BY <1>1, <1>2 DEF P2pInv, P2p!OnlyAllowed

\* A step that leaves the bridges alone.
LEMMA BridgesStay == BridgesInv /\ UNCHANGED bridgeVars => BridgesInv'
<1> SUFFICES ASSUME BridgesInv, UNCHANGED bridgeVars
             PROVE  BridgesInv'
  OBVIOUS
<1>1. counter' \in Nat
  BY DEF bridgeVars, BridgesInv, BridgesTypes
<1>2. UNCHANGED <<kind, made, channel, keep, inbox, got, lost>>
  BY DEF bridgeVars
<1> QED
  BY <1>1, <1>2, SameReports

\* A step is of one part and keeps the invariant of that part.
LEMMA NetworkKept == NetworkInv /\ [Next]_vars => NetworkInv'
<1> SUFFICES ASSUME NetworkInv, [Next]_vars
             PROVE  NetworkInv'
  OBVIOUS
<1>1. CASE RelayStep(Relay!Next)
  <2>1. part = "relay" /\ part' = part /\ Relay!Next
    BY <1>1 DEF RelayStep
  <2>2. RelayInv'
    BY <2>1, RelayKept DEF NetworkInv
  <2> QED
    BY <2>1, <2>2 DEF NetworkInv
<1>2. CASE WispStep(Wisp!Next)
  <2>1. part = "wisp" /\ part' = part /\ Wisp!Next
    BY <1>2 DEF WispStep
  <2>2. WispInv'
    BY <2>1, WispKept DEF NetworkInv
  <2> QED
    BY <2>1, <2>2 DEF NetworkInv
<1>3. CASE P2pStep(P2p!Next)
  <2>1. part = "p2p" /\ part' = part /\ P2p!Next
    BY <1>3 DEF P2pStep
  <2>2. P2pInv'
    BY <2>1, P2pKept DEF NetworkInv
  <2> QED
    BY <2>1, <2>2 DEF NetworkInv
<1>4. CASE BridgesStep(Bridges!Next)
  <2>1. part = "bridges" /\ part' = part /\ Bridges!Next
    BY <1>4 DEF BridgesStep
  <2>2. BridgesInv'
    BY <2>1, BridgesKept, NetworkAssumption DEF NetworkInv
  <2> QED
    BY <2>1, <2>2 DEF NetworkInv
<1>5. CASE UNCHANGED vars
  <2>1. part' = part /\ UNCHANGED relayVars /\ UNCHANGED wispVars /\ UNCHANGED p2pVars /\ UNCHANGED bridgeVars
    BY <1>5 DEF vars
  <2>2. (RelayInv => RelayInv') /\ (WispInv => WispInv') /\ (P2pInv => P2pInv') /\ (BridgesInv => BridgesInv')
    BY <2>1, RelayStays, WispStays, P2pStays, BridgesStay
  <2> QED
    BY <2>1, <2>2 DEF NetworkInv
<1> QED
  BY <1>1, <1>2, <1>3, <1>4, <1>5 DEF Next

\* Whichever part of the network runs, the inductive invariant of that part
\* holds in every state, for any number of legs, streams, pairings and
\* reports and any size of a channel, window or queue.
THEOREM NetworkInvariance == Spec => []NetworkInv
<1>1. Init => NetworkInv
  BY NetworkFirst
<1>2. NetworkInv /\ [Next]_vars => NetworkInv'
  BY NetworkKept
<1> QED
  BY <1>1, <1>2, PTL DEF Spec

\* Always: no leg of the relay is with two callers and none goes on that the
\* deployment did not say yes to (relay.rs), a pairing the rule forbids calls
\* nobody and is called connected only when it was (park.rs), and every stream
\* opened is reported closed once (host.rs).
THEOREM AdmittedAndToldAlways == Spec => []AdmittedAndTold
<1>1. NetworkInv => AdmittedAndTold
  BY RelayTells, P2pTells, WispTells DEF NetworkInv, AdmittedAndTold
<1> QED
  BY <1>1, NetworkInvariance, PTL

\* Always: the bytes of a stream reach its target in order and without a gap
\* (caller.rs, host.rs), and the program hears reports in the order they were
\* said, none lost that a bridge must hold (start.rs, wireguard.rs, webrtc.rs).
THEOREM ArrivesInOrderAlways == Spec => []ArrivesInOrder
<1>1. NetworkInv => ArrivesInOrder
  BY WispTells, BridgesTells DEF NetworkInv, ArrivesInOrder
<1> QED
  BY <1>1, NetworkInvariance, PTL
=============================================================================
