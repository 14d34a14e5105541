-------------------------- MODULE ConnectorsProofs --------------------------
(***************************************************************************)
(* Proofs about Connectors, for every number of instances, handles,        *)
(* connections and queue lengths.                                          *)
(***************************************************************************)
EXTENDS Connectors, FiniteSetTheorems, TLAPS

(***************************************************************************)
(* Induction.  A set of numbers that has something in it has a least one   *)
(* (the initial segments of the naturals are well founded under strict     *)
(* inclusion), so a set of numbers closed under successor is all of them.  *)
(***************************************************************************)

\* Every set of numbers with an element has a least element.
LEMMA LeastNumber ==
    ASSUME NEW T \in SUBSET Nat, T # {}
    PROVE  \E x \in T : \A y \in T : x <= y
<1> DEFINE Segments == {0..n : n \in T}
<1> DEFINE R == StrictSubsetOrdering(Nat)
<1>1. Segments \subseteq FiniteSubsetsOf(Nat)
  <2>1. \A n \in T : n \in Int /\ IsFiniteSet(0..n) /\ 0..n \in SUBSET Nat
    BY FS_Interval
  <2> QED
    BY <2>1 DEF FiniteSubsetsOf
<1>2. Segments # {}
  OBVIOUS
<1>3. IsWellFoundedOn(R, FiniteSubsetsOf(Nat))
  BY FS_StrictSubsetOrderingWellFounded
<1>4. \E s \in Segments : \A r \in Segments : ~ (<<r, s>> \in R)
  <2> HIDE DEF Segments, R
  <2> QED
    BY <1>1, <1>2, <1>3, WFMin
<1>5. PICK m \in T : \A n \in T : ~ (<<0..n, 0..m>> \in R)
  BY <1>4
<1>6. ASSUME NEW n \in T, n < m
      PROVE  FALSE
  <2>1. m \in 0..m /\ m \notin 0..n
    BY <1>6
  <2>2. 0..n \subseteq 0..m /\ 0..n # 0..m
    BY <2>1, <1>6
  <2>3. <<0..n, 0..m>> \in R
    BY <2>2 DEF StrictSubsetOrdering
  <2> QED
    BY <2>3, <1>5
<1> QED
  BY <1>6

\* Induction over the naturals, for a set of them.
LEMMA Induction ==
    ASSUME NEW T \in SUBSET Nat, 0 \in T, \A n \in T : n + 1 \in T
    PROVE  \A n \in Nat : n \in T
<1> SUFFICES ASSUME \E n \in Nat : n \notin T
             PROVE  FALSE
  OBVIOUS
<1> DEFINE Rest == Nat \ T
<1>1. PICK x \in Rest : \A y \in Rest : x <= y
  BY LeastNumber
<1>2. x # 0 /\ x - 1 \in Nat
  BY <1>1
<1>3. x - 1 \in T
  BY <1>1, <1>2
<1> QED
  BY <1>1, <1>2, <1>3

-----------------------------------------------------------------------------
(***************************************************************************)
(* Only: a sequence at some of its indices.                                *)
(***************************************************************************)

\* The function Only builds exists: Only unfolds as it is written.
LEMMA OnlyUnfolds ==
    ASSUME NEW seq, NEW at, Len(seq) \in Nat
    PROVE  \E f : /\ Only(seq, at) = f[Len(seq)]
                  /\ f = [i \in 0..Len(seq) |->
                            IF i = 0 THEN <<>>
                            ELSE IF i \in at THEN Append(f[i - 1], seq[i]) ELSE f[i - 1]]
<1> DEFINE Upto(n, f) ==
             f = [i \in 0..n |-> IF i = 0 THEN <<>>
                                 ELSE IF i \in at THEN Append(f[i - 1], seq[i]) ELSE f[i - 1]]
<1> DEFINE Has == {n \in Nat : \E f : Upto(n, f)}
<1>1. 0 \in Has
  <2>1. \E f : Upto(0, f)
    <3>1. Upto(0, [i \in 0..0 |-> <<>>])
      OBVIOUS
    <3> HIDE DEF Upto
    <3> QED
      BY <3>1
  <2> QED
    BY <2>1
<1>2. ASSUME NEW n \in Has
      PROVE  n + 1 \in Has
  <2>1. PICK f : Upto(n, f)
    OBVIOUS
  <2> DEFINE g == [i \in 0..(n + 1) |-> IF i <= n THEN f[i]
                                        ELSE IF i \in at THEN Append(f[n], seq[i]) ELSE f[n]]
  <2>2. Upto(n + 1, g)
    <3>1. n \in Nat
      OBVIOUS
    <3>2. \A i \in 0..n : g[i] = f[i]
      BY <3>1
    <3>3. ASSUME NEW i \in 0..n
          PROVE  g[i] = IF i = 0 THEN <<>> ELSE IF i \in at THEN Append(g[i - 1], seq[i]) ELSE g[i - 1]
      <4>1. i # 0 => g[i - 1] = f[i - 1]
        BY <3>1, <3>2
      <4>2. f[i] = IF i = 0 THEN <<>> ELSE IF i \in at THEN Append(f[i - 1], seq[i]) ELSE f[i - 1]
        <5> HIDE DEF g
        <5> QED
          BY <2>1, Zenon
      <4> QED
        <5> HIDE DEF g, Upto
        <5> QED
          BY <3>2, <4>1, <4>2
    <3>4. g[n + 1] = IF n + 1 \in at THEN Append(g[n], seq[n + 1]) ELSE g[n]
      BY <3>1, <3>2
    <3>5. \A i \in 0..(n + 1) : i \in 0..n \/ (i = n + 1 /\ i # 0 /\ i - 1 = n)
      BY <3>1
    <3>6. \A i \in 0..(n + 1) :
             g[i] = IF i = 0 THEN <<>> ELSE IF i \in at THEN Append(g[i - 1], seq[i]) ELSE g[i - 1]
      <4> HIDE DEF g
      <4> QED
        BY <3>3, <3>4, <3>5
    <3> QED
      BY <3>6
  <2>3. n + 1 \in Nat
    OBVIOUS
  <2> HIDE DEF Upto, g
  <2> QED
    BY <2>2, <2>3
<1>3. \A n \in Nat : n \in Has
  <2>1. Has \in SUBSET Nat
    OBVIOUS
  <2> HIDE DEF Has
  <2> QED
    BY <1>1, <1>2, <2>1, Induction
<1>4. \E f : Upto(Len(seq), f)
  BY <1>3
<1> DEFINE F == CHOOSE f : Upto(Len(seq), f)
<1>5. Upto(Len(seq), F)
  BY <1>4
<1>6. Only(seq, at) = F[Len(seq)]
  BY DEF Only
<1> QED
  BY <1>5, <1>6

\* A sequence picked out of seq: g says where each element comes from.
Picked(seq, at, r, g) ==
    /\ g \in [1..Len(r) -> at]
    /\ \A i \in 1..Len(r) : r[i] = seq[g[i]]
    /\ \A i, j \in 1..Len(r) : i < j => g[i] < g[j]

\* One more index after all those picked so far.
LEMMA PickedMore ==
    ASSUME NEW X, NEW seq \in Seq(X), NEW at \in SUBSET (1..Len(seq)), NEW n \in Nat,
           NEW r \in Seq(X), NEW g, Picked(seq, {i \in at : i <= n}, r, g), n + 1 \in at
    PROVE  \E g2 : Picked(seq, {i \in at : i <= n + 1}, Append(r, seq[n + 1]), g2)
<1> DEFINE r2 == Append(r, seq[n + 1])
<1> DEFINE g2 == [i \in 1..(Len(r) + 1) |-> IF i <= Len(r) THEN g[i] ELSE n + 1]
<1>1. seq[n + 1] \in X /\ Len(r) \in Nat
  OBVIOUS
<1>2. Len(r2) = Len(r) + 1 /\ r2[Len(r) + 1] = seq[n + 1]
  BY <1>1
<1>3. \A i \in 1..Len(r) : r2[i] = r[i]
  BY <1>1
<1>4. \A i \in 1..Len(r) : g2[i] = g[i] /\ g[i] \in at /\ g[i] <= n /\ g[i] \in Nat
  <2> SUFFICES ASSUME NEW i \in 1..Len(r)
               PROVE  g2[i] = g[i] /\ g[i] \in at /\ g[i] <= n /\ g[i] \in Nat
    OBVIOUS
  <2>1. g[i] \in {k \in at : k <= n}
    BY DEF Picked
  <2>2. g2[i] = g[i]
    BY <1>1
  <2>3. \A k \in at : k \in Nat
    OBVIOUS
  <2> HIDE DEF g2
  <2> QED
    BY <2>1, <2>2, <2>3
<1>5. g2[Len(r) + 1] = n + 1
  BY <1>1
<1>6. g2 \in [1..Len(r2) -> {i \in at : i <= n + 1}]
  <2>1. \A i \in 1..(Len(r) + 1) : i \in 1..Len(r) \/ i = Len(r) + 1
    BY <1>1
  <2>2. \A i \in 1..(Len(r) + 1) : g2[i] \in {k \in at : k <= n + 1}
    <3>1. \A i \in 1..Len(r) : g[i] <= n + 1
      <4> HIDE DEF g2
      <4> QED
        BY <1>4
    <3> HIDE DEF g2
    <3> QED
      BY <2>1, <3>1, <1>4, <1>5
  <2> HIDE DEF r2
  <2> QED
    BY <2>2, <1>2
<1>7. \A i \in 1..Len(r2) : r2[i] = seq[g2[i]]
  <2>1. \A i \in 1..Len(r) : r2[i] = seq[g2[i]]
    BY <1>3, <1>4 DEF Picked
  <2>2. \A i \in 1..Len(r2) : i \in 1..Len(r) \/ i = Len(r) + 1
    BY <1>1, <1>2
  <2> HIDE DEF r2, g2
  <2> QED
    BY <2>1, <2>2, <1>2, <1>5
<1>8. \A i, j \in 1..Len(r2) : i < j => g2[i] < g2[j]
  <2> SUFFICES ASSUME NEW i \in 1..Len(r2), NEW j \in 1..Len(r2), i < j
               PROVE  g2[i] < g2[j]
    OBVIOUS
  <2>1. i \in 1..Len(r) /\ (j \in 1..Len(r) \/ j = Len(r) + 1)
    BY <1>1, <1>2
  <2>2. CASE j \in 1..Len(r)
    <3> HIDE DEF g2
    <3> QED
      BY <2>1, <2>2, <1>4 DEF Picked
  <2>3. CASE j = Len(r) + 1
    <3> HIDE DEF g2
    <3> QED
      BY <2>1, <2>3, <1>4, <1>5
  <2> QED
    BY <2>1, <2>2, <2>3
<1> HIDE DEF r2, g2
<1>9. Picked(seq, {i \in at : i <= n + 1}, r2, g2)
  BY <1>6, <1>7, <1>8 DEF Picked
<1> QED
  BY <1>9 DEF r2

\* Only picks: every element is one of the sequence's, at one of the
\* indices, and the order is the sequence's own.
LEMMA OnlyPicks ==
    ASSUME NEW X, NEW seq \in Seq(X), NEW at \in SUBSET (1..Len(seq))
    PROVE  /\ Only(seq, at) \in Seq(X)
           /\ \E g : Picked(seq, at, Only(seq, at), g)
<1>0. Len(seq) \in Nat
  OBVIOUS
<1>1. PICK f : /\ Only(seq, at) = f[Len(seq)]
               /\ f = [i \in 0..Len(seq) |->
                         IF i = 0 THEN <<>>
                         ELSE IF i \in at THEN Append(f[i - 1], seq[i]) ELSE f[i - 1]]
  BY <1>0, OnlyUnfolds
<1>2. f[0] = <<>> /\ \A n \in Nat : n + 1 <= Len(seq) =>
         f[n + 1] = IF n + 1 \in at THEN Append(f[n], seq[n + 1]) ELSE f[n]
  <2>1. f[0] = <<>>
    BY <1>0, <1>1
  <2>2. ASSUME NEW n \in Nat, n + 1 <= Len(seq)
        PROVE  f[n + 1] = IF n + 1 \in at THEN Append(f[n], seq[n + 1]) ELSE f[n]
    <3>1. n + 1 \in 0..Len(seq) /\ n + 1 # 0 /\ (n + 1) - 1 = n
      BY <2>2, <1>0
    <3>2. f[n + 1] = IF n + 1 = 0 THEN <<>>
                     ELSE IF n + 1 \in at THEN Append(f[(n + 1) - 1], seq[n + 1]) ELSE f[(n + 1) - 1]
      BY <1>1, <3>1, Zenon
    <3> QED
      BY <3>1, <3>2
  <2> QED
    BY <2>1, <2>2
<1> DEFINE Sofar(n) == f[n] \in Seq(X) /\ \E g : Picked(seq, {i \in at : i <= n}, f[n], g)
<1> DEFINE T == {n \in Nat : n <= Len(seq) => Sofar(n)}
<1>3. 0 \in T
  <2>1. Picked(seq, {i \in at : i <= 0}, <<>>, <<>>)
    BY DEF Picked
  <2>2. <<>> \in Seq(X)
    OBVIOUS
  <2> QED
    BY <2>1, <2>2, <1>2
<1>4. ASSUME NEW n \in T
      PROVE  n + 1 \in T
  <2>1. n \in Nat /\ n + 1 \in Nat
    OBVIOUS
  <2> SUFFICES ASSUME n + 1 <= Len(seq)
               PROVE  Sofar(n + 1)
    BY <2>1
  <2>2. Sofar(n)
    <3> HIDE DEF Sofar
    <3> QED
      BY <2>1, <1>0
  <2>3. PICK g : Picked(seq, {i \in at : i <= n}, f[n], g)
    BY <2>2
  <2>4. CASE n + 1 \in at
    <3>1. f[n + 1] = Append(f[n], seq[n + 1])
      BY <1>2, <2>1, <2>4
    <3>2. f[n + 1] \in Seq(X)
      BY <3>1, <2>2, <2>1
    <3>3. \E g2 : Picked(seq, {i \in at : i <= n + 1}, f[n + 1], g2)
      <4>1. f[n] \in Seq(X)
        BY <2>2
      <4>2. \E g2 : Picked(seq, {i \in at : i <= n + 1}, Append(f[n], seq[n + 1]), g2)
        <5> HIDE DEF T, Sofar
        <5> QED
          BY <2>1, <2>3, <2>4, <4>1, PickedMore
      <4> QED
        BY <3>1, <4>2
    <3> QED
      BY <3>2, <3>3
  <2>5. CASE n + 1 \notin at
    <3>1. f[n + 1] = f[n]
      BY <1>2, <2>1, <2>5
    <3>2. {i \in at : i <= n} = {i \in at : i <= n + 1}
      <4>1. \A i \in at : i \in Nat /\ i # n + 1
        BY <2>5
      <4>2. \A i \in at : i <= n <=> i <= n + 1
        BY <2>1, <4>1
      <4> HIDE DEF T, Sofar
      <4> QED
        BY <4>2
    <3> QED
      BY <2>2, <3>1, <3>2
  <2> QED
    BY <2>4, <2>5
<1>5. \A n \in Nat : n \in T
  <2>1. T \in SUBSET Nat
    OBVIOUS
  <2> HIDE DEF T
  <2> QED
    BY <1>3, <1>4, <2>1, Induction
<1>6. Sofar(Len(seq))
  <2> HIDE DEF Sofar
  <2> QED
    BY <1>5, <1>0
<1>7. {i \in at : i <= Len(seq)} = at
  <2>1. \A i \in at : i <= Len(seq)
    BY <1>0
  <2> QED
    BY <2>1
<1> QED
  BY <1>1, <1>6, <1>7

(***************************************************************************)
(* Handles and offers, of any connector: t is the table, nx the next       *)
(* handle, o the offers, dead the instances that are gone.  A lax          *)
(* connector leaves an offer behind whose handle is held by nobody.        *)
(***************************************************************************)

\* The offer's maker holds what it offers.
Backed(t, offer, lax) ==
    \/ offer[3] \in DOMAIN t /\ t[offer[3]].owner = offer[1]
    \/ lax /\ offer[3] \notin DOMAIN t

\* No maker offers one handle twice.
Once(o) == \A i, j \in 1..Len(o) : o[j][1] = o[i][1] /\ o[j][3] = o[i][3] => i = j

\* What every step keeps: handles are below next, offers are backed and made
\* once, and nobody who is gone owns or offers.
Accounted(t, nx, o, dead, lax) ==
    /\ nx \in Nat \ {0} /\ DOMAIN t \subseteq 1..(nx - 1)
    /\ o \in Seq(Inst \X Inst \X (1..(nx - 1)))
    /\ \A h \in DOMAIN t : t[h].owner \in Inst \ dead
    /\ \A i \in 1..Len(o) : o[i][1] \notin dead /\ Backed(t, o[i], lax)
    /\ Once(o)

\* Fewer offers, over a table that backs the ones that are left.
LEMMA OnlyAccounted ==
    ASSUME NEW t, NEW nx, NEW o, NEW dead, NEW lax, Accounted(t, nx, o, dead, lax),
           NEW t2, NEW nx2 \in Nat, nx <= nx2, NEW dead2, NEW at \in SUBSET (1..Len(o)),
           DOMAIN t2 \subseteq 1..(nx2 - 1), \A h \in DOMAIN t2 : t2[h].owner \in Inst \ dead2,
           \A i \in at : o[i][1] \notin dead2 /\ Backed(t2, o[i], lax)
    PROVE  Accounted(t2, nx2, Only(o, at), dead2, lax)
<1> DEFINE r == Only(o, at)
<1> DEFINE X == Inst \X Inst \X (1..(nx - 1))
<1>1. o \in Seq(X) /\ nx \in Nat \ {0}
  BY DEF Accounted
<1>2. r \in Seq(X)
  BY <1>1, OnlyPicks
<1>3. PICK g : Picked(o, at, r, g)
  BY <1>1, OnlyPicks
<1> HIDE DEF r
<1>4. Len(r) \in Nat
  BY <1>2
<1>5. \A i \in 1..Len(r) : g[i] \in at /\ r[i] = o[g[i]]
  BY <1>3 DEF Picked
<1>6. r \in Seq(Inst \X Inst \X (1..(nx2 - 1)))
  <2>1. X \subseteq Inst \X Inst \X (1..(nx2 - 1))
    BY <1>1
  <2> QED
    BY <1>2, <2>1
<1>7. \A i \in 1..Len(r) : r[i][1] \notin dead2 /\ Backed(t2, r[i], lax)
  BY <1>5
<1>8. Once(r)
  <2> SUFFICES ASSUME NEW i \in 1..Len(r), NEW j \in 1..Len(r), r[j][1] = r[i][1], r[j][3] = r[i][3], i # j
               PROVE  FALSE
    BY DEF Once
  <2>0. g[i] \in 1..Len(o) /\ g[j] \in 1..Len(o) /\ r[i] = o[g[i]] /\ r[j] = o[g[j]]
    BY <1>5
  <2>1. g[i] = g[j]
    <3>1. Once(o)
      BY DEF Accounted
    <3> QED
      BY <2>0, <3>1 DEF Once
  <2>2. i < j \/ j < i
    BY <1>4
  <2>3. g[i] < g[j] \/ g[j] < g[i]
    BY <2>2, <1>3 DEF Picked
  <2>4. g[i] \in Nat
    BY <2>0, <1>1
  <2> QED
    BY <2>1, <2>3, <2>4
<1>9. nx2 \in Nat \ {0}
  BY <1>1
<1> QED
  BY <1>6, <1>7, <1>8, <1>9 DEF Accounted, r

\* The same offers, over a table that backs them.
LEMMA SameAccounted ==
    ASSUME NEW t, NEW nx, NEW o, NEW dead, NEW lax, Accounted(t, nx, o, dead, lax),
           NEW t2, NEW nx2 \in Nat, nx <= nx2,
           DOMAIN t2 \subseteq 1..(nx2 - 1), \A h \in DOMAIN t2 : t2[h].owner \in Inst \ dead,
           \A i \in 1..Len(o) : Backed(t2, o[i], lax)
    PROVE  Accounted(t2, nx2, o, dead, lax)
<1>1. Inst \X Inst \X (1..(nx - 1)) \subseteq Inst \X Inst \X (1..(nx2 - 1)) /\ nx2 \in Nat \ {0}
  BY DEF Accounted
<1>2. o \in Seq(Inst \X Inst \X (1..(nx2 - 1)))
  BY <1>1 DEF Accounted
<1> QED
  BY <1>1, <1>2 DEF Accounted

\* A table that holds the same handles for the same owners.
LEMMA OwnersKept ==
    ASSUME NEW t, NEW nx, NEW o, NEW dead, NEW lax, Accounted(t, nx, o, dead, lax),
           NEW t2, DOMAIN t2 = DOMAIN t, \A h \in DOMAIN t : t2[h].owner = t[h].owner
    PROVE  Accounted(t2, nx, o, dead, lax)
<1>1. nx \in Nat /\ nx <= nx
  BY DEF Accounted
<1>2. \A i \in 1..Len(o) : Backed(t2, o[i], lax)
  BY DEF Accounted, Backed
<1>3. DOMAIN t2 \subseteq 1..(nx - 1) /\ \A h \in DOMAIN t2 : t2[h].owner \in Inst \ dead
  BY DEF Accounted
<1> QED
  BY <1>1, <1>2, <1>3, SameAccounted

\* A new handle.
LEMMA InsertAccounted ==
    ASSUME NEW t, NEW nx, NEW o, NEW dead, NEW lax, Accounted(t, nx, o, dead, lax),
           NEW e, e.owner \in Inst \ dead
    PROVE  Accounted(With(t, nx, e), nx + 1, o, dead, lax)
<1> DEFINE t2 == With(t, nx, e)
<1>1. nx \in Nat /\ nx + 1 \in Nat /\ nx <= nx + 1 /\ nx \notin DOMAIN t
  BY DEF Accounted
<1>2. DOMAIN t2 = DOMAIN t \cup {nx} /\ t2[nx] = e /\ \A h \in DOMAIN t : t2[h] = t[h]
  BY <1>1 DEF With
<1> HIDE DEF t2
<1>3. DOMAIN t2 \subseteq 1..((nx + 1) - 1) /\ \A h \in DOMAIN t2 : t2[h].owner \in Inst \ dead
  BY <1>1, <1>2 DEF Accounted
<1>4. \A i \in 1..Len(o) : Backed(t2, o[i], lax)
  <2> SUFFICES ASSUME NEW i \in 1..Len(o)
               PROVE  Backed(t2, o[i], lax)
    OBVIOUS
  <2>1. o[i] \in Inst \X Inst \X (1..(nx - 1))
    BY DEF Accounted
  <2>2. o[i][3] # nx
    BY <2>1, <1>1
  <2>3. Backed(t, o[i], lax)
    BY DEF Accounted
  <2> QED
    BY <2>2, <2>3, <1>2 DEF Backed
<1>5. Accounted(t2, nx + 1, o, dead, lax)
  BY <1>1, <1>3, <1>4, SameAccounted
<1> QED
  BY <1>5 DEF t2

\* A table that has lost some handles, offers or not.
Kept(t, hs) == [h \in DOMAIN t \ hs |-> t[h]]

\* Instances die: their handles go, and the offers they made or were made.
LEMMA ReleaseAccounted ==
    ASSUME NEW t, NEW nx, NEW o, NEW dead, NEW lax, Accounted(t, nx, o, dead, lax),
           NEW D, NEW hs, hs = {h \in DOMAIN t : t[h].owner \in D},
           NEW at, at = {i \in DOMAIN o : o[i][1] \notin D /\ o[i][2] \notin D}
    PROVE  Accounted(Kept(t, hs), nx, Only(o, at), dead \cup D, lax)
<1> DEFINE t2 == Kept(t, hs)
<1>1. nx \in Nat /\ nx <= nx
  BY DEF Accounted
<1>2. DOMAIN t2 = {h \in DOMAIN t : t[h].owner \notin D} /\ \A h \in DOMAIN t2 : t2[h] = t[h]
  BY DEF Kept
<1>3. at \in SUBSET (1..Len(o))
  BY DEF Accounted
<1> HIDE DEF t2
<1>4. DOMAIN t2 \subseteq 1..(nx - 1) /\ \A h \in DOMAIN t2 : t2[h].owner \in Inst \ (dead \cup D)
  BY <1>2 DEF Accounted
<1>5. \A i \in at : o[i][1] \notin dead \cup D /\ Backed(t2, o[i], lax)
  <2> SUFFICES ASSUME NEW i \in at
               PROVE  o[i][1] \notin dead \cup D /\ Backed(t2, o[i], lax)
    OBVIOUS
  <2>1. o[i][1] \notin dead /\ o[i][1] \notin D /\ Backed(t, o[i], lax)
    BY <1>3 DEF Accounted
  <2> QED
    BY <2>1, <1>2 DEF Backed
<1>6. Accounted(t2, nx, Only(o, at), dead \cup D, lax)
  BY <1>1, <1>3, <1>4, <1>5, OnlyAccounted
<1> QED
  BY <1>6 DEF t2

\* The offers that are not of this handle by this maker.
Others(o, n, h) == {i \in DOMAIN o : ~(o[i][1] = n /\ o[i][3] = h)}

\* Handles are given up with the one that is closed, and its offer goes.
LEMMA CloseAccounted ==
    ASSUME NEW t, NEW nx, NEW o, NEW dead, NEW lax, Accounted(t, nx, o, dead, lax),
           NEW n, NEW h \in DOMAIN t, t[h].owner = n, NEW hs, lax \/ hs = {h}
    PROVE  Accounted(Kept(t, hs), nx, Only(o, Others(o, n, h)), dead, lax)
<1> DEFINE t2 == Kept(t, hs)
<1> DEFINE at == Others(o, n, h)
<1>1. nx \in Nat /\ nx <= nx
  BY DEF Accounted
<1>2. DOMAIN t2 = DOMAIN t \ hs /\ \A k \in DOMAIN t2 : t2[k] = t[k]
  BY DEF Kept
<1>3. at \in SUBSET (1..Len(o))
  BY DEF Accounted, Others
<1> HIDE DEF t2
<1>4. DOMAIN t2 \subseteq 1..(nx - 1) /\ \A k \in DOMAIN t2 : t2[k].owner \in Inst \ dead
  BY <1>2 DEF Accounted
<1>5. \A i \in at : o[i][1] \notin dead /\ Backed(t2, o[i], lax)
  <2> SUFFICES ASSUME NEW i \in at
               PROVE  o[i][1] \notin dead /\ Backed(t2, o[i], lax)
    OBVIOUS
  <2>1. o[i][1] \notin dead /\ Backed(t, o[i], lax)
    BY <1>3 DEF Accounted
  <2>2. ~(o[i][1] = n /\ o[i][3] = h)
    BY DEF Others
  <2> QED
    BY <2>1, <2>2, <1>2 DEF Backed
<1> HIDE DEF at
<1>6. Accounted(t2, nx, Only(o, at), dead, lax)
  BY <1>1, <1>3, <1>4, <1>5, OnlyAccounted
<1> QED
  BY <1>6 DEF t2, at

\* An offer: it takes the place of an earlier one of the same handle.
LEMMA TransferAccounted ==
    ASSUME NEW t, NEW nx, NEW o, NEW dead, NEW lax, Accounted(t, nx, o, dead, lax),
           NEW n, NEW to \in Inst, NEW h \in DOMAIN t, t[h].owner = n
    PROVE  Accounted(t, nx, Append(Only(o, Others(o, n, h)), <<n, to, h>>), dead, lax)
<1> DEFINE at == Others(o, n, h)
<1> DEFINE r == Only(o, at)
<1> DEFINE X == Inst \X Inst \X (1..(nx - 1))
<1>1. at \in SUBSET (1..Len(o)) /\ o \in Seq(X) /\ nx \in Nat /\ nx <= nx
  BY DEF Accounted, Others
<1>2. Accounted(t, nx, r, dead, lax)
  <2>1. \A i \in at : o[i][1] \notin dead /\ Backed(t, o[i], lax)
    BY <1>1 DEF Accounted
  <2>2. DOMAIN t \subseteq 1..(nx - 1) /\ \A k \in DOMAIN t : t[k].owner \in Inst \ dead
    BY DEF Accounted
  <2> QED
    BY <1>1, <2>1, <2>2, OnlyAccounted
<1>3. \A i \in 1..Len(r) : ~(r[i][1] = n /\ r[i][3] = h)
  <2>1. PICK g : Picked(o, at, r, g)
    BY <1>1, OnlyPicks
  <2>2. \A i \in 1..Len(r) : g[i] \in at /\ r[i] = o[g[i]]
    BY <2>1 DEF Picked
  <2>3. \A i \in at : ~(o[i][1] = n /\ o[i][3] = h)
    BY DEF Others
  <2> HIDE DEF r, at
  <2> QED
    BY <2>2, <2>3
<1> HIDE DEF r, at
<1> DEFINE r2 == Append(r, <<n, to, h>>)
<1>4. <<n, to, h>> \in X /\ n \notin dead
  BY DEF Accounted
<1>5. r \in Seq(X) /\ r2 \in Seq(X)
  BY <1>2, <1>4 DEF Accounted
<1>6. Len(r2) = Len(r) + 1 /\ r2[Len(r) + 1] = <<n, to, h>> /\ \A i \in 1..Len(r) : r2[i] = r[i]
  BY <1>4, <1>5
<1>7. \A i \in 1..Len(r2) : i \in 1..Len(r) \/ i = Len(r) + 1
  BY <1>5, <1>6
<1> HIDE DEF r2
<1>8. \A i \in 1..Len(r2) : r2[i][1] \notin dead /\ Backed(t, r2[i], lax)
  <2>1. \A i \in 1..Len(r) : r[i][1] \notin dead /\ Backed(t, r[i], lax)
    BY <1>2 DEF Accounted
  <2>2. Backed(t, <<n, to, h>>, lax)
    BY DEF Backed
  <2> QED
    BY <2>1, <2>2, <1>4, <1>6, <1>7
<1>9. Once(r2)
  <2>1. Once(r)
    BY <1>2 DEF Accounted
  <2> QED
    BY <2>1, <1>3, <1>6, <1>7 DEF Once
<1>10. Accounted(t, nx, r2, dead, lax)
  BY <1>2, <1>5, <1>8, <1>9 DEF Accounted
<1> QED
  BY <1>10 DEF r, r2, at

\* A claim: the offer goes, and if its maker still held the handle it is the
\* claimant's.
LEMMA ClaimAccounted ==
    ASSUME NEW t, NEW nx, NEW o, NEW dead, NEW lax, Accounted(t, nx, o, dead, lax),
           NEW i \in DOMAIN o, NEW t2, DOMAIN t2 = DOMAIN t,
           \A k \in DOMAIN t : IF k = o[i][3] THEN t2[k].owner \in Inst \ dead ELSE t2[k].owner = t[k].owner
    PROVE  Accounted(t2, nx, Only(o, DOMAIN o \ {i}), dead, lax)
<1> DEFINE h == o[i][3]
<1> DEFINE at == DOMAIN o \ {i}
<1>1. at \in SUBSET (1..Len(o)) /\ i \in 1..Len(o) /\ nx \in Nat /\ nx <= nx
  BY DEF Accounted
<1>2. DOMAIN t2 \subseteq 1..(nx - 1) /\ \A k \in DOMAIN t2 : t2[k].owner \in Inst \ dead
  BY DEF Accounted
<1>3. \A j \in at : o[j][1] \notin dead /\ Backed(t2, o[j], lax)
  <2> SUFFICES ASSUME NEW j \in at
               PROVE  o[j][1] \notin dead /\ Backed(t2, o[j], lax)
    OBVIOUS
  <2>1. o[j][1] \notin dead /\ Backed(t, o[j], lax) /\ Backed(t, o[i], lax)
    BY <1>1 DEF Accounted
  <2>2. h \in DOMAIN t => o[j][3] # h
    <3>1. ~(o[j][1] = o[i][1] /\ o[j][3] = h)
      BY <1>1 DEF Accounted, Once
    <3> QED
      BY <2>1, <3>1 DEF Backed
  <2> QED
    BY <2>1, <2>2 DEF Backed
<1> HIDE DEF at
<1>4. Accounted(t2, nx, Only(o, at), dead, lax)
  BY <1>1, <1>2, <1>3, OnlyAccounted
<1> QED
  BY <1>4 DEF at

-----------------------------------------------------------------------------
(***************************************************************************)
(* The socket connector.                                                   *)
(***************************************************************************)

\* A handle its owner was told of has something for it.
SockSays(s) == s.wake = "told" => IF s.kind = "listener" THEN s.back > 0 ELSE s.unread > 0 \/ s.fin

\* One entry of the socket table is what it has to be.
SockFine(s) == s \in S!Socket /\ SockSays(s)

SockInv ==
    /\ Accounted(table, next, offers, gone, FALSE)
    /\ \A h \in DOMAIN table : SockFine(table[h])

\* No vital handle goes without its owner.
SockVital == \A h \in DOMAIN table : table[h].vital /\ h \notin DOMAIN table' => table[h].owner \in gone' \cup ended'

\* Every instance of Owners picks with the same operators.
LEMMA SameOperators ==
    /\ \A q, a : S!Only(q, a) = Only(q, a) /\ N!Only(q, a) = Only(q, a) /\ W!Only(q, a) = Only(q, a)
    /\ \A t, h, e : S!With(t, h, e) = With(t, h, e) /\ N!With(t, h, e) = With(t, h, e) /\ W!With(t, h, e) = With(t, h, e)
  BY Zenon DEF Only, S!Only, N!Only, W!Only, With, S!With, N!With, W!With

\* Release of instances, by either hook.
LEMMA SockReleased ==
    ASSUME SockInv, NEW D, S!Release(D), gone' = gone \cup D, next' = next
    PROVE  SockInv' /\ SockVital
<1> DEFINE hs == {h \in DOMAIN table : table[h].owner \in D}
<1> DEFINE at == {i \in DOMAIN offers : offers[i][1] \notin D /\ offers[i][2] \notin D}
<1>1. table' = Kept(table, hs) /\ offers' = Only(offers, at)
  BY SameOperators DEF S!Release, S!Without, S!OwnedBy, S!Living, Kept
<1>2. Accounted(table', next', offers', gone', FALSE)
  <2> HIDE DEF hs, at
  <2>1. Accounted(Kept(table, hs), next, Only(offers, at), gone \cup D, FALSE)
    BY ReleaseAccounted DEF hs, at, SockInv
  <2> QED
    BY <2>1, <1>1
<1>3. \A h \in DOMAIN table' : h \in DOMAIN table /\ table'[h] = table[h]
  BY <1>1 DEF Kept
<1>4. \A h \in DOMAIN table : h \notin DOMAIN table' => table[h].owner \in D
  BY <1>1 DEF Kept
<1> QED
  BY <1>2, <1>3, <1>4 DEF SockInv, SockVital

\* The bounds are numbers.
LEMMA SockBounds == ACCEPT_SWEEP \in Nat \ {0} /\ MaxUnread \in Nat \ {0}
  BY ConnectorsAssumption

\* A socket as it is opened.
LEMMA OpenedFine ==
    ASSUME NEW n \in Inst, NEW kind \in {"listener", "stream"}, NEW v \in BOOLEAN, NEW w \in {"off", "armed"}
    PROVE  SockFine(S!Opened(n, kind, v, w)) /\ S!Opened(n, kind, v, w).owner = n
  BY SockBounds DEF SockFine, SockSays, S!Opened, S!Socket

\* What the readiness sweep makes of a socket.
LEMMA SweptFine ==
    ASSUME NEW s, SockFine(s)
    PROVE  SockFine(S!Swept(s)) /\ S!Swept(s).owner = s.owner
<1>1. s \in S!Socket /\ SockSays(s)
  BY DEF SockFine
<1>2. CASE s.wake # "armed" \/ s.eof
  BY <1>1, <1>2 DEF SockFine, S!Swept
<1>3. CASE s.wake = "armed" /\ ~s.eof /\ s.kind = "stream"
  <2> DEFINE w == IF s.unread > 0 \/ s.fin THEN "told" ELSE s.wake
  <2>1. S!Swept(s) = [s EXCEPT !.wake = w, !.eof = S!AtEnd(s)]
    BY <1>3 DEF S!Swept
  <2>2. S!AtEnd(s) \in BOOLEAN
    BY DEF S!AtEnd
  <2> HIDE DEF w
  <2>3. w \in {"told", "armed"} /\ (w = "told" => s.unread > 0 \/ s.fin)
    BY <1>3 DEF w
  <2> QED
    BY <1>1, <1>3, <2>1, <2>2, <2>3 DEF SockFine, SockSays, S!Socket
<1>4. CASE s.wake = "armed" /\ ~s.eof /\ s.kind # "stream"
  <2> DEFINE k == S!Least(ACCEPT_SWEEP - s.back, s.unread)
  <2>0. s.back \in 0..ACCEPT_SWEEP /\ s.unread \in 0..MaxUnread
    BY <1>1 DEF S!Socket
  <2>1. k \in Nat /\ k <= s.unread /\ s.back + k <= ACCEPT_SWEEP
    BY <2>0, SockBounds DEF S!Least
  <2> DEFINE w == IF s.back + k > 0 THEN "told" ELSE s.wake
  <2>2. S!Swept(s) = [s EXCEPT !.wake = w, !.back = s.back + k, !.unread = s.unread - k]
    BY <1>1, <1>4 DEF S!Swept, S!Socket
  <2> HIDE DEF k
  <2>3. w \in {"told", "armed"} /\ (w = "told" => s.back + k > 0)
    BY <1>4, <2>0, <2>1
  <2> HIDE DEF w
  <2>4. s.back + k \in 0..ACCEPT_SWEEP /\ s.unread - k \in 0..MaxUnread /\ s.kind = "listener"
    BY <1>1, <1>4, <2>0, <2>1, SockBounds DEF S!Socket
  <2> QED
    BY <1>1, <2>2, <2>3, <2>4 DEF SockFine, SockSays, S!Socket
<1> QED
  BY <1>2, <1>3, <1>4

\* Ended: who has to go goes.
LEMMA SockEnded ==
    ASSUME SockInv, S!Ended
    PROVE  SockInv' /\ SockVital
<1>1. PICK D : S!Release(D) /\ gone' = gone \cup D /\ next' = next
  BY DEF S!Ended, S!Doomed
<1> QED
  BY <1>1, SockReleased

\* Released: one instance died in the drive.
LEMMA SockDies ==
    ASSUME SockInv, NEW n \in Inst, S!Released(n)
    PROVE  SockInv' /\ SockVital
<1>1. S!Release({n}) /\ gone' = gone \cup {n} /\ next' = next
  BY DEF S!Released, S!Dies
<1> QED
  BY <1>1, SockReleased

\* A step that changes entries and neither handles nor owners.
LEMMA SockEntries ==
    ASSUME SockInv, next' = next, offers' = offers, gone' = gone, DOMAIN table' = DOMAIN table,
           \A h \in DOMAIN table : SockFine(table'[h]) /\ table'[h].owner = table[h].owner
    PROVE  SockInv' /\ SockVital
<1>1. Accounted(table', next', offers', gone', FALSE)
  BY OwnersKept DEF SockInv
<1> QED
  BY <1>1 DEF SockInv, SockVital

\* Notices: the readiness sweep.
LEMMA SockNotices ==
    ASSUME SockInv, S!Notices
    PROVE  SockInv' /\ SockVital
<1>1. /\ next' = next /\ offers' = offers /\ gone' = gone
      /\ table' = [h \in DOMAIN table |-> S!Swept(table[h])]
  BY DEF S!Notices, S!Told
<1>2. \A h \in DOMAIN table : SockFine(table'[h]) /\ table'[h].owner = table[h].owner
  BY <1>1, SweptFine DEF SockInv
<1> QED
  BY <1>1, <1>2, SockEntries

\* One entry is exchanged for another of the same owner.
LEMMA SockOne ==
    ASSUME SockInv, next' = next, offers' = offers, gone' = gone,
           NEW h \in DOMAIN table, NEW s, SockFine(s), s.owner = table[h].owner, table' = [table EXCEPT ![h] = s]
    PROVE  SockInv' /\ SockVital
<1>1. DOMAIN table' = DOMAIN table
  OBVIOUS
<1>2. \A k \in DOMAIN table : SockFine(table'[k]) /\ table'[k].owner = table[k].owner
  BY DEF SockInv
<1> QED
  BY <1>1, <1>2, SockEntries

\* listen.
LEMMA SockListen ==
    ASSUME SockInv, NEW n \in Inst, NEW v \in BOOLEAN, NEW w \in {"off", "armed"}, S!Listen(n, v, w)
    PROVE  SockInv' /\ SockVital
<1> DEFINE e == S!Opened(n, "listener", v, w)
<1>1. table' = With(table, next, e) /\ next' = next + 1 /\ offers' = offers /\ gone' = gone /\ n \notin gone
  BY SameOperators DEF S!Listen, S!Insert, S!Calls, S!Driven, S!swarmVars
<1>2. SockFine(e) /\ e.owner = n
  BY OpenedFine
<1> HIDE DEF e
<1>3. Accounted(table', next', offers', gone', FALSE)
  BY <1>1, <1>2, InsertAccounted DEF SockInv
<1>4. DOMAIN table' = DOMAIN table \cup {next} /\ \A h \in DOMAIN table' : table'[h] = e \/ (h \in DOMAIN table /\ table'[h] = table[h])
  BY <1>1 DEF With
<1> QED
  BY <1>2, <1>3, <1>4 DEF SockInv, SockVital

\* accept: the listener has one less, the connection is a new handle.
LEMMA SockAccept ==
    ASSUME SockInv, NEW n \in Inst, NEW h, NEW v \in BOOLEAN, NEW w \in {"off", "armed"}, S!Accept(n, h, v, w)
    PROVE  SockInv' /\ SockVital
<1> DEFINE s == table[h]
<1> DEFINE e == S!Opened(n, "stream", v, w)
<1> DEFINE left == [s EXCEPT !.wake = S!Rearmed(s.wake), !.back = s.back - S!Least(s.back, 1),
                             !.unread = IF s.back > 0 THEN s.unread ELSE s.unread - 1]
<1>1. h \in DOMAIN table /\ s.owner = n /\ s.kind = "listener" /\ s.back + s.unread > 0 /\ n \notin gone
  BY DEF S!Accept, S!Is, S!Holds, S!Calls, S!Driven
<1>2. SockFine(s)
  BY <1>1 DEF SockInv
<1>3. table' = With([table EXCEPT ![h] = left], next, e) /\ next' = next + 1 /\ offers' = offers /\ gone' = gone
  BY SameOperators, <1>2 DEF S!Accept, S!Calls, S!swarmVars, SockFine, S!Socket
<1>4. SockFine(left) /\ left.owner = n
  <2> DEFINE b == s.back - S!Least(s.back, 1)
  <2> DEFINE u == IF s.back > 0 THEN s.unread ELSE s.unread - 1
  <2> DEFINE a == S!Rearmed(s.wake)
  <2>1. s \in S!Socket /\ s.back \in 0..ACCEPT_SWEEP /\ s.unread \in 0..MaxUnread /\ s.wake \in {"off", "armed", "told"}
    BY <1>2 DEF SockFine, S!Socket
  <2>2. b \in 0..ACCEPT_SWEEP /\ u \in 0..MaxUnread
    BY <2>1, <1>1, SockBounds DEF S!Least
  <2>3. a \in {"off", "armed"}
    BY <2>1 DEF S!Rearmed
  <2>4. left = [s EXCEPT !.wake = a, !.back = b, !.unread = u]
    OBVIOUS
  <2> HIDE DEF a, b, u, left, s
  <2> QED
    BY <2>1, <2>2, <2>3, <2>4, <1>1 DEF SockFine, SockSays, S!Socket
<1>5. SockFine(e) /\ e.owner = n
  BY OpenedFine
<1> DEFINE mid == [table EXCEPT ![h] = left]
<1>6. DOMAIN mid = DOMAIN table /\ \A k \in DOMAIN table : mid[k] = IF k = h THEN left ELSE table[k]
  OBVIOUS
<1> HIDE DEF s, e, left, mid
<1>7. Accounted(mid, next, offers, gone, FALSE)
  <2>1. \A k \in DOMAIN table : mid[k].owner = table[k].owner
    BY <1>1, <1>4, <1>6 DEF s
  <2> QED
    BY <1>6, <2>1, OwnersKept DEF SockInv
<1>8. Accounted(table', next', offers', gone', FALSE)
  <2>1. Accounted(With(mid, next, e), next + 1, offers, gone, FALSE)
    BY <1>1, <1>5, <1>7, InsertAccounted
  <2> QED
    BY <1>3, <2>1 DEF mid
<1>9. DOMAIN table' = DOMAIN table \cup {next} /\ \A k \in DOMAIN table' : SockFine(table'[k])
  <2>1. DOMAIN table' = DOMAIN mid \cup {next} /\ \A k \in DOMAIN table' : table'[k] = IF k = next THEN e ELSE mid[k]
    BY <1>3 DEF With, mid
  <2> QED
    BY <2>1, <1>4, <1>5, <1>6 DEF SockInv
<1> QED
  BY <1>8, <1>9 DEF SockInv, SockVital

\* read: what is left, re-armed.
LEMMA SockRead ==
    ASSUME SockInv, NEW n \in Inst, NEW h, S!Read(n, h)
    PROVE  SockInv' /\ SockVital
<1> DEFINE s == table[h]
<1> DEFINE u == s.unread - S!Least(s.unread, 1)
<1> DEFINE a == S!Rearmed(s.wake)
<1> DEFINE d == S!AtEnd(s)
<1> DEFINE left == [s EXCEPT !.unread = u, !.eof = d, !.wake = a]
<1>1. h \in DOMAIN table /\ next' = next /\ offers' = offers /\ gone' = gone
  BY DEF S!Read, S!Is, S!Holds, S!Calls, S!swarmVars
<1>2. SockFine(s)
  BY <1>1 DEF SockInv
<1>3. s \in S!Socket /\ s.unread \in 0..MaxUnread /\ s.wake \in {"off", "armed", "told"}
  BY <1>2 DEF SockFine, S!Socket
<1>4. u \in 0..MaxUnread /\ a \in {"off", "armed"} /\ d \in BOOLEAN
  BY <1>3, SockBounds DEF S!Least, S!Rearmed, S!AtEnd
<1>5. table' = [table EXCEPT ![h] = left]
  BY <1>1, <1>3 DEF S!Read, S!Socket
<1> HIDE DEF u, a, d, s
<1>6. SockFine(left) /\ left.owner = table[h].owner
  BY <1>3, <1>4 DEF SockFine, SockSays, S!Socket, s
<1> HIDE DEF left
<1> QED
  BY <1>1, <1>5, <1>6, SockOne

\* close: the handle, its offer, and the report of a vital one's owner.
LEMMA SockClose ==
    ASSUME SockInv, NEW n \in Inst, NEW h, S!Close(n, h)
    PROVE  SockInv' /\ SockVital
<1>1. h \in DOMAIN table /\ table[h].owner = n /\ next' = next /\ gone' = gone
  BY DEF S!Close, S!Holds, S!Calls, S!swarmVars
<1>2. table' = Kept(table, {h}) /\ offers' = Only(offers, Others(offers, n, h))
  BY SameOperators DEF S!Close, S!Without, S!Withdrawn, Kept, Others
<1>3. table[h].vital => n \in ended'
  BY DEF S!Close
<1>4. Accounted(table', next', offers', gone', FALSE)
  <2>1. Accounted(Kept(table, {h}), next, Only(offers, Others(offers, n, h)), gone, FALSE)
    BY <1>1, CloseAccounted DEF SockInv
  <2> QED
    BY <1>1, <1>2, <2>1
<1>5. DOMAIN table' = DOMAIN table \ {h} /\ \A k \in DOMAIN table' : table'[k] = table[k]
  BY <1>2 DEF Kept
<1> QED
  BY <1>1, <1>3, <1>4, <1>5 DEF SockInv, SockVital

\* transfer.
LEMMA SockOffer ==
    ASSUME SockInv, NEW n \in Inst, NEW to \in Inst, NEW h, S!Offer(n, to, h)
    PROVE  SockInv' /\ SockVital
<1>1. h \in DOMAIN table /\ table[h].owner = n /\ table' = table /\ next' = next /\ gone' = gone
  BY DEF S!Offer, S!Transfer, S!Holds, S!Calls, S!swarmVars
<1>2. offers' = Append(Only(offers, Others(offers, n, h)), <<n, to, h>>)
  BY SameOperators DEF S!Offer, S!Transfer, S!Withdrawn, Others
<1>3. Accounted(table, next, Append(Only(offers, Others(offers, n, h)), <<n, to, h>>), gone, FALSE)
  BY <1>1, TransferAccounted DEF SockInv
<1> QED
  BY <1>1, <1>2, <1>3 DEF SockInv, SockVital

\* The offer a claim takes is one of those addressed to the caller.
LEMMA OldestAddressed ==
    ASSUME NEW I \in SUBSET Nat, I # {}
    PROVE  (CHOOSE i \in I : \A j \in I : i <= j) \in I
  BY LeastNumber

\* claim: the oldest offer goes, and the handle is the claimant's.
LEMMA SockClaim ==
    ASSUME SockInv, NEW n \in Inst, NEW named, NEW v \in BOOLEAN, NEW w \in {"off", "armed"}, S!Claim(n, named, v, w)
    PROVE  SockInv' /\ SockVital
<1> DEFINE i == S!Oldest(n, named)
<1> DEFINE h == offers[i][3]
<1>1. n \notin gone /\ gone' = gone /\ next' = next /\ offers' = Only(offers, DOMAIN offers \ {i})
  BY SameOperators DEF S!Claim, S!Calls, S!Driven, S!swarmVars, S!Taken
<1>2. i \in DOMAIN offers
  <2>1. S!Addressed(n, named) # {} /\ S!Addressed(n, named) \subseteq DOMAIN offers
    BY DEF S!Claim, S!Addressed
  <2>2. DOMAIN offers \subseteq Nat
    BY DEF SockInv, Accounted
  <2>3. i \in S!Addressed(n, named)
    BY <2>1, <2>2, OldestAddressed DEF S!Oldest
  <2> QED
    BY <2>1, <2>3
<1>3. h \in DOMAIN table /\ table[h].owner = offers[i][1]
  BY <1>2, SMTT(30) DEF SockInv, Accounted, Backed
<1> DEFINE e == S!Claimed(table[h], n, v, w)
<1>4. table' = [table EXCEPT ![h] = e]
  BY <1>3 DEF S!Claim, S!Holds
<1>5. SockFine(e) /\ e.owner = n
  <2>1. SockFine(table[h])
    BY <1>3 DEF SockInv
  <2> QED
    BY <2>1 DEF S!Claimed, SockFine, SockSays, S!Socket
<1>6. DOMAIN table' = DOMAIN table /\ \A k \in DOMAIN table : table'[k] = IF k = h THEN e ELSE table[k]
  BY <1>4
<1> HIDE DEF i, e
<1>7. Accounted(table', next', offers', gone', FALSE)
  <2>1. \A k \in DOMAIN table :
           IF k = h THEN table'[k].owner \in Inst \ gone ELSE table'[k].owner = table[k].owner
    BY <1>1, <1>5, <1>6
  <2>2. Accounted(table', next, Only(offers, DOMAIN offers \ {i}), gone, FALSE)
    BY <1>2, <1>6, <2>1, ClaimAccounted DEF SockInv
  <2> QED
    BY <1>1, <2>2
<1> QED
  BY <1>5, <1>6, <1>7 DEF SockInv, SockVital

\* The far end: something arrives, or it is done.
LEMMA SockFar ==
    ASSUME SockInv, NEW h, S!Arrives(h) \/ S!HangsUp(h)
    PROVE  SockInv' /\ SockVital
<1>1. h \in DOMAIN table /\ next' = next /\ offers' = offers /\ gone' = gone
  BY DEF S!Arrives, S!HangsUp, S!Stays, S!swarmVars
<1>2. SockFine(table[h]) /\ table[h] \in S!Socket
  BY <1>1 DEF SockInv, SockFine
<1>3. CASE S!Arrives(h)
  <2> DEFINE s == [table[h] EXCEPT !.unread = table[h].unread + 1]
  <2>1. table' = [table EXCEPT ![h] = s] /\ table[h].unread < MaxUnread
    BY <1>2, <1>3 DEF S!Arrives, S!Socket
  <2>2. SockFine(s) /\ s.owner = table[h].owner
    <3>1. table[h].unread + 1 \in 0..MaxUnread /\ table[h].unread + 1 > 0
      BY <1>2, <2>1, SockBounds DEF S!Socket
    <3> QED
      BY <1>2, <3>1 DEF SockFine, SockSays, S!Socket
  <2> HIDE DEF s
  <2> QED
    BY <1>1, <2>1, <2>2, SockOne
<1>4. CASE S!HangsUp(h)
  <2> DEFINE s == [table[h] EXCEPT !.fin = TRUE]
  <2>1. table' = [table EXCEPT ![h] = s]
    BY <1>2, <1>4 DEF S!HangsUp, S!Socket
  <2>2. SockFine(s) /\ s.owner = table[h].owner
    BY <1>2 DEF SockFine, SockSays, S!Socket
  <2> HIDE DEF s
  <2> QED
    BY <1>1, <2>1, <2>2, SockOne
<1> QED
  BY <1>3, <1>4

\* Every step of the socket connector.
LEMMA SockStep ==
    ASSUME SockInv, S!Next
    PROVE  SockInv' /\ SockVital
<1>1. CASE S!Ended
  BY <1>1, SockEnded
<1>2. CASE S!Notices
  BY <1>2, SockNotices
<1>3. ASSUME NEW n \in Inst, S!Released(n)
      PROVE  SockInv' /\ SockVital
  BY <1>3, SockDies
<1>4. ASSUME NEW n \in Inst, NEW f \in S!Flags, S!Listen(n, f[1], f[2])
      PROVE  SockInv' /\ SockVital
  BY <1>4, SockListen DEF S!Flags
<1>5. ASSUME NEW n \in Inst, NEW h \in S!Handle, NEW f \in S!Flags, S!Accept(n, h, f[1], f[2])
      PROVE  SockInv' /\ SockVital
  BY <1>5, SockAccept DEF S!Flags
<1>6. ASSUME NEW n \in Inst, NEW h \in S!Handle, S!Read(n, h)
      PROVE  SockInv' /\ SockVital
  BY <1>6, SockRead
<1>7. ASSUME NEW n \in Inst, NEW h \in S!Handle, S!Close(n, h)
      PROVE  SockInv' /\ SockVital
  BY <1>7, SockClose
<1>8. ASSUME NEW n \in Inst, NEW h \in S!Handle, NEW m \in Inst, S!Offer(n, m, h)
      PROVE  SockInv' /\ SockVital
  BY <1>8, SockOffer
<1>9. ASSUME NEW n \in Inst, NEW h \in 0..MaxHandle, NEW f \in S!Flags, S!Claim(n, h, f[1], f[2])
      PROVE  SockInv' /\ SockVital
  BY <1>9, SockClaim DEF S!Flags
<1>10. ASSUME NEW h \in S!Handle, S!Arrives(h) \/ S!HangsUp(h)
       PROVE  SockInv' /\ SockVital
  BY <1>10, SockFar
<1> QED
  BY <1>1, <1>2, <1>3, <1>4, <1>5, <1>6, <1>7, <1>8, <1>9, <1>10 DEF S!Next

-----------------------------------------------------------------------------
(***************************************************************************)
(* The WebSocket connector.                                                *)
(***************************************************************************)

\* What a task is, its counters being numbers.
WsTask == [st : {"connecting", "open", "failed", "closed"}, at : {"look", "select"},
           full : BOOLEAN, permit : BOOLEAN, inbox : Nat, out : Nat, closing : BOOLEAN, wire : Nat,
           asked : BOOLEAN, sent : Nat, far : {"open", "fin"}]

\* A task that waits for room has a full inbox or will be told, and only an
\* open connection is in the select.
TaskFine(t) ==
    /\ t \in WsTask
    /\ t.st = "connecting" => t.at = "look"
    /\ t.st = "open" /\ t.at = "select" /\ t.full => t.inbox >= INBOX_MAX \/ t.permit

HasNews(t) == t.inbox > 0 \/ t.st \in {"failed", "closed"}

\* The handle's side, given its task.
ConnFine(c, t) == c \in W!Conn /\ (c.wake = "told" => HasNews(t))

WsInv ==
    /\ Accounted(table, next, offers, gone, FALSE) /\ offers = <<>>
    /\ tasks \in Seq(WsTask) /\ next = Len(tasks) + 1
    /\ \A h \in 1..Len(tasks) : TaskFine(tasks[h])
    /\ \A h \in DOMAIN table : ConnFine(table[h], tasks[h])

\* No vital handle goes without its owner, a failed connect apart.
WsVital ==
    \A h \in DOMAIN table :
        table[h].vital /\ h \notin DOMAIN table' /\ tasks[h].st # "failed" => table[h].owner \in gone' \cup ended'

\* Every handle has its task.
LEMMA WsTasks ==
    ASSUME WsInv
    PROVE  /\ \A h \in DOMAIN table : h \in 1..Len(tasks) /\ tasks[h] \in WsTask
           /\ DOMAIN tasks = 1..Len(tasks) /\ Len(tasks) \in Nat
<1>1. tasks \in Seq(WsTask) /\ next = Len(tasks) + 1 /\ DOMAIN table \subseteq 1..(next - 1)
  BY DEF WsInv, Accounted
<1> QED
  BY <1>1

\* Release of instances, by either hook.
LEMMA WsReleased ==
    ASSUME WsInv, NEW D, W!Release(D), gone' = gone \cup D, next' = next, tasks' = tasks
    PROVE  WsInv' /\ WsVital
<1> DEFINE hs == {h \in DOMAIN table : table[h].owner \in D}
<1> DEFINE at == {i \in DOMAIN offers : offers[i][1] \notin D /\ offers[i][2] \notin D}
<1>1. table' = Kept(table, hs) /\ offers' = Only(offers, at)
  BY SameOperators DEF W!Release, W!Without, W!OwnedBy, W!Living, Kept
<1>2. Accounted(table', next', offers', gone', FALSE)
  <2> HIDE DEF hs, at
  <2>1. Accounted(Kept(table, hs), next, Only(offers, at), gone \cup D, FALSE)
    BY ReleaseAccounted DEF hs, at, WsInv
  <2> QED
    BY <2>1, <1>1
<1>3. offers' = <<>>
  <2>1. offers = <<>> /\ offers \in Seq(Int) /\ at = {}
    BY DEF WsInv
  <2>2. Only(offers, {}) \in Seq(Int) /\ \E g : Picked(offers, {}, Only(offers, {}), g)
    BY <2>1, OnlyPicks
  <2>3. Len(Only(offers, {})) = 0
    BY <2>2 DEF Picked
  <2> QED
    BY <1>1, <2>1, <2>2, <2>3
<1>4. \A h \in DOMAIN table' : h \in DOMAIN table /\ table'[h] = table[h]
  BY <1>1 DEF Kept
<1>5. \A h \in DOMAIN table : h \notin DOMAIN table' => table[h].owner \in D
  BY <1>1 DEF Kept
<1> QED
  BY <1>2, <1>3, <1>4, <1>5 DEF WsInv, WsVital

\* Ended.
LEMMA WsEnded ==
    ASSUME WsInv, W!Ended
    PROVE  WsInv' /\ WsVital
<1>1. PICK D : W!Release(D) /\ gone' = gone \cup D /\ next' = next /\ tasks' = tasks
  BY DEF W!Ended, W!Doomed
<1> QED
  BY <1>1, WsReleased

\* Released: one instance died in the drive.
LEMMA WsDies ==
    ASSUME WsInv, NEW n \in Inst, W!Released(n)
    PROVE  WsInv' /\ WsVital
<1>1. W!Release({n}) /\ gone' = gone \cup {n} /\ next' = next /\ tasks' = tasks
  BY DEF W!Released, W!Dies
<1> QED
  BY <1>1, WsReleased

\* Notices: the owners of what became ready are told.
LEMMA WsNotices ==
    ASSUME WsInv, W!Notices
    PROVE  WsInv' /\ WsVital
<1>1. /\ next' = next /\ offers' = offers /\ gone' = gone /\ tasks' = tasks
      /\ table' = [h \in DOMAIN table |-> [table[h] EXCEPT !.wake = IF W!BecomesReady(h) THEN "told" ELSE @]]
  BY DEF W!Notices, W!Told
<1>2. \A h \in DOMAIN table : ConnFine(table'[h], tasks[h]) /\ table'[h].owner = table[h].owner
  <2> SUFFICES ASSUME NEW h \in DOMAIN table
               PROVE  ConnFine(table'[h], tasks[h]) /\ table'[h].owner = table[h].owner
    OBVIOUS
  <2>1. table[h] \in W!Conn /\ (table[h].wake = "told" => HasNews(tasks[h]))
    BY DEF WsInv, ConnFine
  <2>2. CASE W!BecomesReady(h)
    <3>1. table'[h] = [table[h] EXCEPT !.wake = "told"]
      BY <1>1, <2>2
    <3>2. HasNews(tasks[h])
      BY <2>2 DEF W!BecomesReady, W!Ready, W!HasEnded, HasNews
    <3> QED
      BY <2>1, <3>1, <3>2 DEF ConnFine, W!Conn
  <2>3. CASE ~W!BecomesReady(h)
    <3>1. table'[h] = [table[h] EXCEPT !.wake = table[h].wake]
      BY <1>1, <2>3
    <3> QED
      BY <2>1, <3>1 DEF ConnFine, W!Conn
  <2> QED
    BY <2>2, <2>3
<1>3. DOMAIN table' = DOMAIN table
  BY <1>1
<1>4. Accounted(table', next', offers', gone', FALSE)
  BY <1>1, <1>2, <1>3, OwnersKept DEF WsInv
<1> QED
  BY <1>1, <1>2, <1>3, <1>4 DEF WsInv, WsVital

\* One task moves, and news of it is not lost.
LEMMA TaskMoves ==
    ASSUME WsInv, NEW h \in 1..Len(tasks), NEW t, TaskFine(t), HasNews(tasks[h]) => HasNews(t),
           tasks' = [tasks EXCEPT ![h] = t], table' = table, next' = next, offers' = offers, gone' = gone
    PROVE  WsInv' /\ WsVital
<1>1. tasks \in Seq(WsTask) /\ t \in WsTask
  BY DEF WsInv, TaskFine
<1>2. /\ tasks' \in Seq(WsTask) /\ Len(tasks') = Len(tasks)
      /\ \A k \in 1..Len(tasks) : tasks'[k] = IF k = h THEN t ELSE tasks[k]
  BY <1>1
<1>3. \A k \in 1..Len(tasks') : TaskFine(tasks'[k])
  BY <1>2 DEF WsInv
<1>4. \A k \in DOMAIN table' : ConnFine(table'[k], tasks'[k])
  <2>1. \A k \in DOMAIN table : k \in 1..Len(tasks) /\ ConnFine(table[k], tasks[k])
    BY WsTasks DEF WsInv
  <2> QED
    BY <1>2, <2>1 DEF ConnFine
<1> QED
  BY <1>2, <1>3, <1>4 DEF WsInv, WsVital

\* connect: a handle and its task.
LEMMA WsConnect ==
    ASSUME WsInv, NEW n \in Inst, NEW v \in BOOLEAN, NEW w \in {"off", "armed"}, W!Connect(n, v, w)
    PROVE  WsInv' /\ WsVital
<1> DEFINE e == [owner |-> n, vital |-> v, wake |-> w, seen |-> FALSE]
<1> DEFINE t == W!NewTask
<1>1. /\ table' = With(table, next, e) /\ next' = next + 1 /\ offers' = offers /\ gone' = gone
      /\ tasks' = Append(tasks, t) /\ n \notin gone
  BY SameOperators DEF W!Connect, W!Insert, W!Calls, W!Driven, W!swarmVars
<1>2. e \in W!Conn /\ e.owner = n /\ e.wake # "told"
  BY DEF W!Conn
<1>3. TaskFine(t)
  BY DEF TaskFine, WsTask, W!NewTask
<1> HIDE DEF e, t
<1>4. tasks \in Seq(WsTask) /\ t \in WsTask /\ next = Len(tasks) + 1
  BY <1>3 DEF WsInv, TaskFine
<1>5. /\ tasks' \in Seq(WsTask) /\ Len(tasks') = Len(tasks) + 1 /\ next' = Len(tasks') + 1
      /\ tasks'[next] = t /\ \A k \in 1..Len(tasks) : tasks'[k] = tasks[k]
  BY <1>1, <1>4
<1>6. Accounted(table', next', offers', gone', FALSE)
  BY <1>1, <1>2, InsertAccounted DEF WsInv
<1>7. \A k \in 1..Len(tasks') : TaskFine(tasks'[k])
  <2>1. \A k \in 1..Len(tasks') : k \in 1..Len(tasks) \/ k = next
    BY <1>4, <1>5
  <2> QED
    BY <2>1, <1>3, <1>5 DEF WsInv
<1>8. \A k \in DOMAIN table' : ConnFine(table'[k], tasks'[k])
  <2>1. /\ \A k \in DOMAIN table' : k \in DOMAIN table \/ k = next
        /\ table'[next] = e /\ \A k \in DOMAIN table : k # next => table'[k] = table[k]
    BY <1>1 DEF With
  <2>2. \A k \in DOMAIN table : k \in 1..Len(tasks) /\ k # next /\ ConnFine(table[k], tasks[k])
    <3>1. \A k \in DOMAIN table : k \in 1..Len(tasks) /\ ConnFine(table[k], tasks[k])
      BY WsTasks DEF WsInv
    <3>2. \A k \in 1..Len(tasks) : k # next
      BY <1>4
    <3> QED
      BY <3>1, <3>2
  <2>3. ConnFine(e, t)
    BY <1>2 DEF ConnFine
  <2> QED
    BY <2>1, <2>2, <2>3, <1>5
<1>9. \A k \in DOMAIN table : k \in DOMAIN table'
  BY <1>1 DEF With
<1> QED
  BY <1>1, <1>5, <1>6, <1>7, <1>8, <1>9 DEF WsInv, WsVital

\* A handle goes and its task stays, no worse.
LEMMA WsGone ==
    ASSUME WsInv, NEW h \in DOMAIN table, table' = Kept(table, {h}), next' = next, offers' = offers, gone' = gone,
           NEW t, TaskFine(t), tasks' = [tasks EXCEPT ![h] = t]
    PROVE  WsInv'
<1>1. tasks \in Seq(WsTask) /\ t \in WsTask /\ h \in 1..Len(tasks)
  BY WsTasks DEF WsInv, TaskFine
<1>2. /\ tasks' \in Seq(WsTask) /\ Len(tasks') = Len(tasks)
      /\ \A k \in 1..Len(tasks) : tasks'[k] = IF k = h THEN t ELSE tasks[k]
  BY <1>1
<1>3. DOMAIN table' = DOMAIN table \ {h} /\ \A k \in DOMAIN table' : table'[k] = table[k]
  BY DEF Kept
<1>4. Accounted(table', next', offers', gone', FALSE)
  <2>1. Accounted(table, next, offers, gone, FALSE) /\ Len(offers) = 0 /\ next \in Nat /\ next <= next
    BY DEF WsInv, Accounted
  <2>2. DOMAIN table' \subseteq 1..(next - 1) /\ \A k \in DOMAIN table' : table'[k].owner \in Inst \ gone
    BY <1>3, <2>1 DEF Accounted
  <2>3. \A i \in 1..Len(offers) : Backed(table', offers[i], FALSE)
    BY <2>1
  <2> QED
    BY <2>1, <2>2, <2>3, SameAccounted
<1>5. \A k \in 1..Len(tasks') : TaskFine(tasks'[k])
  BY <1>2 DEF WsInv
<1>6. \A k \in DOMAIN table' : ConnFine(table'[k], tasks'[k])
  BY <1>2, <1>3, WsTasks DEF WsInv
<1> QED
  BY <1>2, <1>4, <1>5, <1>6 DEF WsInv

\* connect answers; a failed one takes its entry out.
LEMMA WsConnected ==
    ASSUME WsInv, NEW n \in Inst, NEW h, W!Connected(n, h)
    PROVE  WsInv' /\ WsVital
<1> DEFINE t == [tasks[h] EXCEPT !.asked = FALSE]
<1>1. h \in DOMAIN table /\ next' = next /\ offers' = offers /\ gone' = gone
  BY DEF W!Connected, W!Holds, W!Calls, W!swarmVars
<1>2. h \in 1..Len(tasks) /\ tasks[h] \in WsTask /\ TaskFine(tasks[h])
  BY <1>1, WsTasks DEF WsInv
<1>3. tasks' = [tasks EXCEPT ![h] = t]
  BY <1>2 DEF W!Connected, WsTask
<1>4. TaskFine(t) /\ (HasNews(tasks[h]) => HasNews(t))
  BY <1>2 DEF TaskFine, HasNews, WsTask
<1> HIDE DEF t
<1>5. CASE tasks[h].st = "failed"
  <2>1. table' = Kept(table, {h})
    BY <1>5 DEF W!Connected, W!Without, Kept
  <2>2. WsInv'
    BY <1>1, <1>3, <1>4, <2>1, WsGone
  <2>3. WsVital
    BY <1>5, <2>1 DEF WsVital, Kept
  <2> QED
    BY <2>2, <2>3
<1>6. CASE tasks[h].st # "failed"
  <2>1. table' = table
    BY <1>6 DEF W!Connected
  <2> QED
    BY <1>1, <1>2, <1>3, <1>4, <2>1, TaskMoves
<1> QED
  BY <1>5, <1>6

\* send.
LEMMA WsSend ==
    ASSUME WsInv, NEW n \in Inst, NEW h, W!Send(n, h)
    PROVE  WsInv' /\ WsVital
<1> DEFINE t == [tasks[h] EXCEPT !.out = tasks[h].out + 1]
<1>1. h \in DOMAIN table /\ table' = table /\ next' = next /\ offers' = offers /\ gone' = gone
  BY DEF W!Send, W!Holds, W!Calls, W!swarmVars, W!heldVars
<1>2. h \in 1..Len(tasks) /\ tasks[h] \in WsTask /\ TaskFine(tasks[h])
  BY <1>1, WsTasks DEF WsInv
<1>3. tasks' = [tasks EXCEPT ![h] = t]
  BY <1>2 DEF W!Send, WsTask
<1>4. TaskFine(t) /\ (HasNews(tasks[h]) => HasNews(t))
  BY <1>2 DEF TaskFine, HasNews, WsTask
<1> HIDE DEF t
<1> QED
  BY <1>1, <1>2, <1>3, <1>4, TaskMoves

\* recv: re-armed, the whole inbox taken, and a task that waits for room told.
LEMMA WsRecv ==
    ASSUME WsInv, NEW n \in Inst, NEW h, W!Recv(n, h)
    PROVE  WsInv' /\ WsVital
<1> DEFINE p == tasks[h].permit \/ tasks[h].inbox >= INBOX_MAX
<1> DEFINE t == [tasks[h] EXCEPT !.inbox = 0, !.permit = p]
<1> DEFINE a == IF table[h].wake = "told" THEN "armed" ELSE table[h].wake
<1> DEFINE b == table[h].seen \/ W!HasEnded(h)
<1> DEFINE c == [table[h] EXCEPT !.wake = a, !.seen = b]
<1>1. h \in DOMAIN table /\ next' = next /\ offers' = offers /\ gone' = gone
  BY DEF W!Recv, W!Holds, W!Calls, W!swarmVars
<1>2. h \in 1..Len(tasks) /\ tasks[h] \in WsTask /\ TaskFine(tasks[h]) /\ tasks \in Seq(WsTask) /\ table[h] \in W!Conn
  BY <1>1, WsTasks DEF WsInv, ConnFine
<1>3. tasks' = [tasks EXCEPT ![h] = t] /\ table' = [table EXCEPT ![h] = c]
  BY <1>1, <1>2 DEF W!Recv, WsTask, W!Conn
<1>4. p \in BOOLEAN /\ a \in {"off", "armed"} /\ b \in BOOLEAN
  BY <1>2 DEF WsTask, W!Conn, W!HasEnded
<1>5. TaskFine(t)
  <2>1. tasks[h].inbox >= INBOX_MAX \/ tasks[h].permit => p
    OBVIOUS
  <2> HIDE DEF p
  <2>2. t \in WsTask /\ t.st = tasks[h].st /\ t.at = tasks[h].at /\ t.full = tasks[h].full /\ t.permit = p
    BY <1>2, <1>4 DEF WsTask
  <2> HIDE DEF t
  <2> QED
    BY <1>2, <2>1, <2>2 DEF TaskFine
<1>6. c \in W!Conn /\ c.wake # "told" /\ c.owner = table[h].owner
  <2> HIDE DEF a, b
  <2> QED
    BY <1>2, <1>4 DEF W!Conn
<1> HIDE DEF p, t, a, b, c
<1>7. /\ tasks' \in Seq(WsTask) /\ Len(tasks') = Len(tasks)
      /\ \A k \in 1..Len(tasks) : tasks'[k] = IF k = h THEN t ELSE tasks[k]
  BY <1>2, <1>3, <1>5 DEF TaskFine
<1>8. DOMAIN table' = DOMAIN table /\ \A k \in DOMAIN table : table'[k] = IF k = h THEN c ELSE table[k]
  BY <1>3
<1>9. Accounted(table', next', offers', gone', FALSE)
  <2>1. \A k \in DOMAIN table : table'[k].owner = table[k].owner
    BY <1>6, <1>8
  <2> QED
    BY <1>1, <1>8, <2>1, OwnersKept DEF WsInv
<1>10. \A k \in 1..Len(tasks') : TaskFine(tasks'[k])
  BY <1>5, <1>7 DEF WsInv
<1>11. \A k \in DOMAIN table' : ConnFine(table'[k], tasks'[k])
  <2>1. \A k \in DOMAIN table : k \in 1..Len(tasks) /\ ConnFine(table[k], tasks[k])
    BY WsTasks DEF WsInv
  <2>2. ConnFine(c, t)
    BY <1>6 DEF ConnFine
  <2> QED
    BY <1>7, <1>8, <2>1, <2>2
<1> QED
  BY <1>1, <1>7, <1>8, <1>9, <1>10, <1>11 DEF WsInv, WsVital

\* close: the handle goes, the task is told or finds its sender dropped.
LEMMA WsClose ==
    ASSUME WsInv, NEW n \in Inst, NEW h, W!Close(n, h)
    PROVE  WsInv' /\ WsVital
<1> DEFINE b == tasks[h].out < OUTBOX_MAX
<1> DEFINE t == [tasks[h] EXCEPT !.closing = b, !.asked = FALSE]
<1>1. /\ h \in DOMAIN table /\ table[h].owner = n /\ next' = next /\ offers' = offers /\ gone' = gone
      /\ table' = Kept(table, {h}) /\ (table[h].vital => n \in ended')
  BY DEF W!Close, W!Holds, W!Calls, W!swarmVars, W!Without, Kept
<1>2. h \in 1..Len(tasks) /\ tasks[h] \in WsTask /\ TaskFine(tasks[h])
  BY <1>1, WsTasks DEF WsInv
<1>3. tasks' = [tasks EXCEPT ![h] = t]
  BY <1>2 DEF W!Close, WsTask
<1>4. b \in BOOLEAN
  OBVIOUS
<1> HIDE DEF b
<1>5. TaskFine(t)
  BY <1>2, <1>4 DEF TaskFine, WsTask
<1> HIDE DEF t
<1>6. WsInv'
  BY <1>1, <1>3, <1>5, WsGone
<1>7. DOMAIN table' = DOMAIN table \ {h}
  BY <1>1 DEF Kept
<1> QED
  BY <1>1, <1>6, <1>7 DEF WsVital

\* The bound of the inbox is a number.
LEMMA WsBounds == INBOX_MAX \in Nat \ {0}
  BY ConnectorsAssumption

\* What a move of the task does to it.
LEMMA WsMoved ==
    ASSUME WsInv, NEW h \in DOMAIN tasks, W!Runs(h) \/ W!Dials(h) \/ W!Idle(h) \/ W!Frame(h) \/ W!Leaves(h)
    PROVE  /\ table' = table /\ next' = next /\ offers' = offers /\ gone' = gone
           /\ \E t : TaskFine(t) /\ (HasNews(tasks[h]) => HasNews(t)) /\ tasks' = [tasks EXCEPT ![h] = t]
<1> DEFINE T == tasks[h]
<1> DEFINE Goal(t) == TaskFine(t) /\ (HasNews(T) => HasNews(t)) /\ tasks' = [tasks EXCEPT ![h] = t]
<1>1. T \in WsTask /\ TaskFine(T)
  BY WsTasks DEF WsInv
<1>2. table' = table /\ next' = next /\ offers' = offers /\ gone' = gone
  BY DEF W!Runs, W!Dials, W!Idle, W!Frame, W!Leaves, W!Looks, W!ReadsFrame, W!SeesEnd, W!Drained, W!SendsOne,
         W!LetGo, W!Dialled, W!Moves, W!Stays, W!swarmVars, W!heldVars
<1>3. ASSUME NEW st \in {"open", "failed"}, W!Dialled(h, st)
      PROVE  \E t : Goal(t)
  <2> DEFINE t == [T EXCEPT !.st = st]
  <2>1. T.st = "connecting" /\ tasks' = [tasks EXCEPT ![h] = t]
    BY <1>3 DEF W!Dialled, W!Moves
  <2>2. TaskFine(t) /\ (HasNews(T) => HasNews(t))
    BY <1>1, <2>1 DEF TaskFine, HasNews, WsTask
  <2> HIDE DEF t
  <2> QED
    BY <2>1, <2>2
<1>4. CASE W!Looks(h)
  <2> DEFINE f == T.inbox >= INBOX_MAX
  <2> DEFINE t == [T EXCEPT !.at = "select", !.full = f]
  <2>1. T.st = "open" /\ tasks' = [tasks EXCEPT ![h] = t]
    BY <1>4 DEF W!Looks, W!Moves
  <2>2. f \in BOOLEAN /\ (f => T.inbox >= INBOX_MAX)
    OBVIOUS
  <2> HIDE DEF f
  <2>3. t \in WsTask /\ t.st = "open" /\ t.inbox = T.inbox /\ t.full = f
    BY <1>1, <2>1, <2>2 DEF WsTask
  <2> HIDE DEF t
  <2>4. TaskFine(t) /\ (HasNews(T) => HasNews(t))
    BY <2>1, <2>2, <2>3 DEF TaskFine, HasNews
  <2> QED
    BY <1>2, <2>1, <2>4
<1>5. CASE W!ReadsFrame(h)
  <2> DEFINE t == [T EXCEPT !.wire = T.wire - 1, !.inbox = T.inbox + 1, !.at = "look"]
  <2>1. T.wire > 0 /\ tasks' = [tasks EXCEPT ![h] = t]
    BY <1>1, <1>5 DEF W!ReadsFrame, W!Moves, WsTask
  <2>2. TaskFine(t) /\ HasNews(t)
    <3>1. T.wire - 1 \in Nat /\ T.inbox + 1 \in Nat
      BY <1>1, <2>1 DEF WsTask
    <3>2. t \in WsTask /\ t.at = "look" /\ t.inbox = T.inbox + 1
      BY <1>1, <3>1 DEF WsTask
    <3>3. T.inbox \in Nat
      BY <1>1 DEF WsTask
    <3> HIDE DEF t, T
    <3> QED
      BY <3>2, <3>3 DEF TaskFine, HasNews
  <2> HIDE DEF t
  <2> QED
    BY <1>2, <2>1, <2>2
<1>6. CASE W!SeesEnd(h) \/ W!LetGo(h) \/ W!Idle(h)
  <2> DEFINE t == [T EXCEPT !.st = "closed"]
  <2>1. tasks' = [tasks EXCEPT ![h] = t]
    BY <1>6 DEF W!SeesEnd, W!LetGo, W!Idle, W!Moves
  <2>2. TaskFine(t) /\ HasNews(t)
    BY <1>1 DEF TaskFine, HasNews, WsTask
  <2> HIDE DEF t
  <2> QED
    BY <1>2, <2>1, <2>2
<1>7. CASE W!Drained(h)
  <2> DEFINE t == [T EXCEPT !.permit = FALSE, !.at = "look"]
  <2>1. tasks' = [tasks EXCEPT ![h] = t]
    BY <1>7 DEF W!Drained, W!Moves
  <2>2. TaskFine(t) /\ (HasNews(T) => HasNews(t))
    BY <1>1 DEF TaskFine, HasNews, WsTask
  <2> HIDE DEF t
  <2> QED
    BY <1>2, <2>1, <2>2
<1>8. CASE W!SendsOne(h)
  <2> DEFINE t == [T EXCEPT !.out = T.out - 1, !.at = "look"]
  <2> DEFINE u == [T EXCEPT !.out = T.out - 1, !.st = "closed"]
  <2>1. T.out > 0 /\ (tasks' = [tasks EXCEPT ![h] = t] \/ tasks' = [tasks EXCEPT ![h] = u])
    BY <1>1, <1>8 DEF W!SendsOne, W!Moves, WsTask
  <2>0. T.out - 1 \in Nat
    BY <1>1, <2>1 DEF WsTask
  <2>2. TaskFine(t) /\ (HasNews(T) => HasNews(t))
    <3>1. t \in WsTask /\ t.at = "look" /\ t.inbox = T.inbox /\ t.st = T.st
      BY <1>1, <2>0 DEF WsTask
    <3> HIDE DEF t, T
    <3> QED
      BY <3>1 DEF TaskFine, HasNews
  <2>3. TaskFine(u) /\ HasNews(u)
    <3>1. u \in WsTask /\ u.st = "closed"
      BY <1>1, <2>0 DEF WsTask
    <3> HIDE DEF u
    <3> QED
      BY <3>1 DEF TaskFine, HasNews
  <2> HIDE DEF t, u
  <2> QED
    BY <1>2, <2>1, <2>2, <2>3
<1>9. CASE W!Frame(h)
  <2> DEFINE t == [T EXCEPT !.sent = T.sent + 1, !.wire = T.wire + 1]
  <2>1. tasks' = [tasks EXCEPT ![h] = t]
    BY <1>1, <1>9 DEF W!Frame, W!Moves, WsTask
  <2>2. TaskFine(t) /\ (HasNews(T) => HasNews(t))
    <3>1. T.sent + 1 \in Nat /\ T.wire + 1 \in Nat
      BY <1>1 DEF WsTask
    <3>2. /\ t \in WsTask /\ t.at = T.at /\ t.inbox = T.inbox /\ t.st = T.st
          /\ t.full = T.full /\ t.permit = T.permit
      BY <1>1, <3>1 DEF WsTask
    <3> HIDE DEF t
    <3> QED
      BY <1>1, <3>2 DEF TaskFine, HasNews
  <2> HIDE DEF t
  <2> QED
    BY <1>2, <2>1, <2>2
<1>10. CASE W!Leaves(h)
  <2> DEFINE t == [T EXCEPT !.far = "fin"]
  <2>1. tasks' = [tasks EXCEPT ![h] = t]
    BY <1>10 DEF W!Leaves, W!Moves
  <2>2. TaskFine(t) /\ (HasNews(T) => HasNews(t))
    BY <1>1 DEF TaskFine, HasNews, WsTask
  <2> HIDE DEF t
  <2> QED
    BY <1>2, <2>1, <2>2
<1>11. CASE W!Dials(h)
  BY <1>2, <1>3, <1>11 DEF W!Dials
<1> HIDE DEF Goal
<1> QED
  BY <1>4, <1>5, <1>6, <1>7, <1>8, <1>9, <1>10, <1>11 DEF W!Runs

\* Every step of the WebSocket connector.
LEMMA WsStep ==
    ASSUME WsInv, W!Next
    PROVE  WsInv' /\ WsVital
<1>1. CASE W!Ended
  BY <1>1, WsEnded
<1>2. CASE W!Notices
  BY <1>2, WsNotices
<1>3. ASSUME NEW n \in Inst, W!Released(n)
      PROVE  WsInv' /\ WsVital
  BY <1>3, WsDies
<1>4. ASSUME NEW n \in Inst, NEW v \in BOOLEAN, NEW w \in {"off", "armed"}, W!Connect(n, v, w)
      PROVE  WsInv' /\ WsVital
  BY <1>4, WsConnect
<1>5. ASSUME NEW n \in Inst, NEW h \in W!Handle, W!Connected(n, h) \/ W!Send(n, h) \/ W!Recv(n, h) \/ W!Close(n, h)
      PROVE  WsInv' /\ WsVital
  BY <1>5, WsConnected, WsSend, WsRecv, WsClose
<1>6. ASSUME NEW h \in DOMAIN tasks, W!Runs(h) \/ W!Dials(h) \/ W!Idle(h) \/ W!Frame(h) \/ W!Leaves(h)
      PROVE  WsInv' /\ WsVital
  <2>1. h \in 1..Len(tasks)
    BY WsTasks
  <2>2. /\ table' = table /\ next' = next /\ offers' = offers /\ gone' = gone
        /\ \E t : TaskFine(t) /\ (HasNews(tasks[h]) => HasNews(t)) /\ tasks' = [tasks EXCEPT ![h] = t]
    BY <1>6, WsMoved
  <2> QED
    BY <2>1, <2>2, TaskMoves
<1> QED
  BY <1>1, <1>2, <1>3, <1>4, <1>5, <1>6 DEF W!Next

-----------------------------------------------------------------------------
(***************************************************************************)
(* The net connector.  What is said of its state is said of a table t, its *)
(* next handle nx, the pushes p, the keys to close, the transport's c and  *)
(* the events e of which the first i are read: a sweep passes through      *)
(* every i.                                                                *)
(***************************************************************************)

NetEntry == [owner : Inst, key : Nat, conn : BOOLEAN, listener : BOOLEAN, queue : BOOLEAN, vital : BOOLEAN,
             inbound : Seq(Nat \ {0}), waiting : Nat, gone : BOOLEAN]
NetConn  == [st : {"opening", "up", "refused", "down"}, listener : BOOLEAN, sent : Nat, asker : SUBSET Inst]
NetEvent == [kind : {"data"}, key : Nat, data : Nat \ {0}] \cup [kind : {"closed"}, key : Nat]
                \cup [kind : {"accepted"}, key : Nat, on : Nat]
NetPush  == Inst \X (Nat \X Nat)

\* One event, given the transport: what it carries was sent, what it
\* reports closed is down, and nobody asked for what arrived.
EventFine(ev, c) ==
    /\ ev.key \in 1..Len(c)
    /\ ev.kind = "data" => ev.data <= c[ev.key].sent
    /\ ev.kind = "closed" => c[ev.key].st = "down"
    /\ ev.kind = "accepted" => c[ev.key].asker = {}

\* Two events of one connection: data in the order sent, one accept.
Ordered(a, b) ==
    a.key = b.key => /\ a.kind = "data" /\ b.kind = "data" => a.data < b.data
                     /\ ~(a.kind = "accepted" /\ b.kind = "accepted")

TransportFine(c, e) ==
    /\ c \in Seq(NetConn) /\ e \in Seq(NetEvent)
    /\ \A k \in 1..Len(c) : /\ c[k].st = "opening" => c[k].asker # {}
                            /\ c[k].asker # {} => c[k].sent <= Early
    /\ \A i \in 1..Len(e) : EventFine(e[i], c)
    /\ \A i, j \in 1..Len(e) : i < j => Ordered(e[i], e[j])

\* Whether an open is always settled before its entry can overflow.
Settled == Early <= RECV_BACKLOG

\* One entry: a connection that is up and not yet the entry's own is one
\* somebody still waits for, and one that is over is not up.
EntryFine(en, c) ==
    /\ en \in NetEntry /\ en.key \in 1..Len(c)
    /\ en.queue => en.inbound = <<>>
    /\ en.waiting # 0 => ~en.vital
    /\ en.conn => c[en.key].asker = {}
    /\ c[en.key].st = "up" /\ ~en.conn /\ ~en.gone => c[en.key].asker # {}
    /\ Settled /\ ~en.conn /\ en.gone => c[en.key].st \in {"refused", "down"}

TableFine(t, c) ==
    /\ \A h \in DOMAIN t : EntryFine(t[h], c)
    /\ \A g, h \in DOMAIN t : t[g].key = t[h].key => g = h

\* No entry has the key of a connection that is still to be accepted.
Fresh(t, e, i) ==
    \A j \in (i + 1)..Len(e) : e[j].kind = "accepted" => \A h \in DOMAIN t : t[h].key # e[j].key

\* A message of handle h among the pushes.
Says(x, h) == x[2][1] = h /\ x[2][2] # 0

\* The messages of one handle, pushed, buffered and still in the events.
Line(en, h, p, sent, e, i) ==
    /\ \A a \in 1..Len(p) : Says(p[a], h) =>
          /\ p[a][2][2] <= sent
          /\ \A b \in 1..Len(p) : a < b /\ Says(p[b], h) => p[a][2][2] < p[b][2][2]
          /\ \A b \in 1..Len(en.inbound) : p[a][2][2] < en.inbound[b]
    /\ \A a \in 1..Len(en.inbound) :
          /\ en.inbound[a] <= sent
          /\ \A b \in 1..Len(en.inbound) : a < b => en.inbound[a] < en.inbound[b]
    /\ \A j \in (i + 1)..Len(e) : e[j].kind = "data" /\ e[j].key = en.key =>
          /\ \A a \in 1..Len(p) : Says(p[a], h) => p[a][2][2] < e[j].data
          /\ \A a \in 1..Len(en.inbound) : en.inbound[a] < e[j].data

Lines(t, nx, p, c, e, i) ==
    /\ p \in Seq(NetPush) /\ \A a \in 1..Len(p) : p[a][2][1] < nx
    /\ \A h \in DOMAIN t : Line(t[h], h, p, c[t[h].key].sent, e, i)

\* A connection that is up is to be closed, waited for, held, or to be
\* accepted.
Reached(t, close, c, e, i) ==
    \A k \in 1..Len(c) : Settled /\ c[k].st = "up" =>
        \/ k \in close
        \/ c[k].asker # {}
        \/ \E h \in DOMAIN t : t[h].key = k /\ ~t[h].gone
        \/ \E j \in (i + 1)..Len(e) : e[j].kind = "accepted" /\ e[j].key = k

\* A handle that is offered does not wait for accept.
Shown(t, o) == \A i \in 1..Len(o) : o[i][3] \in DOMAIN t => t[o[i][3]].waiting = 0

NetFine(t, nx, p, close, c, e, i) ==
    TableFine(t, c) /\ Fresh(t, e, i) /\ Lines(t, nx, p, c, e, i) /\ Reached(t, close, c, e, i)

NetInv ==
    /\ Accounted(table, next, offers, gone, TRUE)
    /\ Shown(table, offers) /\ TransportFine(conns, events)
    /\ NetFine(table, next, pushes, {}, conns, events, 0)

\* No vital handle goes or is found over without its owner, a refused one
\* apart.
NetVital ==
    \A h \in DOMAIN table :
        /\ table[h].vital
        /\ \/ h \notin DOMAIN table'
           \/ ~table[h].gone /\ table'[h].gone /\ table'[h].owner = table[h].owner
        /\ conns[table[h].key].st # "refused"
        => table[h].owner \in gone' \cup ended'

-----------------------------------------------------------------------------
\* A rising sequence of numbers from 1 reaches its own length.
LEMMA Rising ==
    ASSUME NEW s \in Seq(Nat \ {0}), \A a, b \in 1..Len(s) : a < b => s[a] < s[b]
    PROVE  \A i \in 1..Len(s) : i <= s[i]
<1> DEFINE T == {n \in Nat : n \in 1..Len(s) => n <= s[n]}
<1>1. 0 \in T
  OBVIOUS
<1>2. ASSUME NEW n \in T
      PROVE  n + 1 \in T
  <2>0. n \in Nat /\ (n \in 1..Len(s) => n <= s[n])
    OBVIOUS
  <2> SUFFICES ASSUME n + 1 \in 1..Len(s)
               PROVE  n + 1 <= s[n + 1]
    OBVIOUS
  <2>1. s[n + 1] \in Nat \ {0} /\ (n # 0 => n \in 1..Len(s))
    BY <2>0
  <2>2. CASE n = 0
    BY <2>1, <2>2
  <2>3. CASE n # 0
    <3>1. s[n] \in Nat /\ s[n] < s[n + 1] /\ n <= s[n]
      <4>1. n \in 1..Len(s) /\ n < n + 1
        BY <2>0, <2>1, <2>3
      <4> HIDE DEF T
      <4> QED
        BY <4>1, <2>0
    <3> QED
      BY <3>1, <2>0, <2>1
  <2> QED
    BY <2>2, <2>3
<1>3. T \in SUBSET Nat
  OBVIOUS
<1>4. \A n \in Nat : n \in T
  <2> HIDE DEF T
  <2> QED
    BY <1>1, <1>2, <1>3, Induction
<1> QED
  BY <1>4

\* The function a sweep builds exists: Sweep unfolds as it is written.
LEMMA SweepUnfolds ==
    ASSUME Len(events) \in Nat
    PROVE  \E f : /\ N!Sweep = f[Len(events)]
                  /\ f = [i \in 0..Len(events) |-> IF i = 0 THEN N!Swept0 ELSE N!OnEvent(f[i - 1], events[i])]
<1> DEFINE Upto(n, f) == f = [i \in 0..n |-> IF i = 0 THEN N!Swept0 ELSE N!OnEvent(f[i - 1], events[i])]
<1> DEFINE Has == {n \in Nat : \E f : Upto(n, f)}
<1>1. 0 \in Has
  <2>1. \E f : Upto(0, f)
    <3>1. Upto(0, [i \in 0..0 |-> N!Swept0])
      OBVIOUS
    <3> HIDE DEF Upto
    <3> QED
      BY <3>1
  <2> QED
    BY <2>1
<1>2. ASSUME NEW n \in Has
      PROVE  n + 1 \in Has
  <2>1. PICK f : Upto(n, f)
    OBVIOUS
  <2> DEFINE g == [i \in 0..(n + 1) |-> IF i <= n THEN f[i] ELSE N!OnEvent(f[n], events[n + 1])]
  <2>2. Upto(n + 1, g)
    <3>1. n \in Nat
      OBVIOUS
    <3>2. \A i \in 0..n : g[i] = f[i]
      BY <3>1
    <3>3. ASSUME NEW i \in 0..n
          PROVE  g[i] = IF i = 0 THEN N!Swept0 ELSE N!OnEvent(g[i - 1], events[i])
      <4>1. i # 0 => g[i - 1] = f[i - 1]
        BY <3>1, <3>2
      <4>2. f[i] = IF i = 0 THEN N!Swept0 ELSE N!OnEvent(f[i - 1], events[i])
        <5> HIDE DEF g
        <5> QED
          BY <2>1, Zenon
      <4> QED
        <5> HIDE DEF g, Upto
        <5> QED
          BY <3>2, <4>1, <4>2
    <3>4. g[n + 1] = N!OnEvent(g[n], events[n + 1])
      BY <3>1, <3>2
    <3>5. \A i \in 0..(n + 1) : i \in 0..n \/ (i = n + 1 /\ i # 0 /\ i - 1 = n)
      BY <3>1
    <3>6. \A i \in 0..(n + 1) : g[i] = IF i = 0 THEN N!Swept0 ELSE N!OnEvent(g[i - 1], events[i])
      <4> HIDE DEF g
      <4> QED
        BY <3>3, <3>4, <3>5
    <3> QED
      BY <3>6
  <2>3. n + 1 \in Nat
    OBVIOUS
  <2> HIDE DEF Upto, g
  <2> QED
    BY <2>2, <2>3
<1>3. \A n \in Nat : n \in Has
  <2>1. Has \in SUBSET Nat
    OBVIOUS
  <2> HIDE DEF Has
  <2> QED
    BY <1>1, <1>2, <2>1, Induction
<1>4. \E f : Upto(Len(events), f)
  BY <1>3
<1> DEFINE F == CHOOSE f : Upto(Len(events), f)
<1>5. Upto(Len(events), F)
  BY <1>4
<1>6. N!Sweep = F[Len(events)]
  BY DEF N!Sweep
<1> QED
  BY <1>5, <1>6

\* Pushes that say nothing of a handle leave its messages as they are, and
\* so does reading on, and learning that more was sent.
LEMMA LineKept ==
    ASSUME NEW p \in Seq(NetPush), NEW q \in Seq(NetPush), NEW en, NEW en2, NEW h, NEW sent \in Nat, NEW sent2 \in Nat,
           NEW e, NEW i \in Nat, NEW i2 \in Nat, i <= i2, Line(en, h, p, sent, e, i), \A b \in 1..Len(q) : ~Says(q[b], h),
           en2.key = en.key, en2.inbound = en.inbound, en.inbound \in Seq(Nat \ {0}), sent <= sent2, e \in Seq(NetEvent)
    PROVE  Line(en2, h, p \o q, sent2, e, i2)
<1> DEFINE r == p \o q
<1> DEFINE m == en.inbound
<1>1. Len(r) = Len(p) + Len(q) /\ \A a \in 1..Len(r) : IF a <= Len(p) THEN r[a] = p[a] ELSE r[a] = q[a - Len(p)]
  OBVIOUS
<1>2. \A a \in 1..Len(r) : a \notin 1..Len(p) => a - Len(p) \in 1..Len(q)
  BY <1>1
<1>3. \A a \in 1..Len(r) : Says(r[a], h) => a \in 1..Len(p) /\ r[a] = p[a]
  BY <1>1, <1>2
<1> HIDE DEF r
<1>4. \A a \in 1..Len(p) : p[a][2][2] \in Nat
  BY DEF NetPush
<1>5. \A a \in 1..Len(m) : m[a] \in Nat
  OBVIOUS
<1>6. \A a \in 1..Len(r) : Says(r[a], h) =>
          /\ r[a][2][2] <= sent2
          /\ \A b \in 1..Len(r) : a < b /\ Says(r[b], h) => r[a][2][2] < r[b][2][2]
          /\ \A b \in 1..Len(m) : r[a][2][2] < m[b]
  <2> SUFFICES ASSUME NEW a \in 1..Len(r), Says(r[a], h)
               PROVE  /\ r[a][2][2] <= sent2
                      /\ \A b \in 1..Len(r) : a < b /\ Says(r[b], h) => r[a][2][2] < r[b][2][2]
                      /\ \A b \in 1..Len(m) : r[a][2][2] < m[b]
    OBVIOUS
  <2>1. a \in 1..Len(p) /\ r[a] = p[a] /\ Says(p[a], h) /\ p[a][2][2] \in Nat
    BY <1>3, <1>4
  <2>2. /\ p[a][2][2] <= sent
        /\ \A b \in 1..Len(p) : a < b /\ Says(p[b], h) => p[a][2][2] < p[b][2][2]
        /\ \A b \in 1..Len(m) : p[a][2][2] < m[b]
    BY <2>1 DEF Line
  <2>3. r[a][2][2] <= sent2
    BY <2>1, <2>2
  <2>4. \A b \in 1..Len(r) : a < b /\ Says(r[b], h) => r[a][2][2] < r[b][2][2]
    BY <2>1, <2>2, <1>3
  <2> QED
    BY <2>1, <2>2, <2>3, <2>4
<1>7. \A a \in 1..Len(m) :
          /\ m[a] <= sent2
          /\ \A b \in 1..Len(m) : a < b => m[a] < m[b]
  BY <1>5 DEF Line
<1>8. \A j \in (i2 + 1)..Len(e) : j \in (i + 1)..Len(e)
  OBVIOUS
<1>9. \A j \in (i2 + 1)..Len(e) : e[j].kind = "data" /\ e[j].key = en.key =>
          /\ \A a \in 1..Len(r) : Says(r[a], h) => r[a][2][2] < e[j].data
          /\ \A a \in 1..Len(m) : m[a] < e[j].data
  BY <1>3, <1>8 DEF Line
<1> QED
  BY <1>6, <1>7, <1>9 DEF Line, r

\* A step at one handle h: its entry is exchanged, what is pushed says
\* nothing of the others, and events may be read.
LEMMA Exchange ==
    ASSUME NEW t, NEW nx \in Nat, NEW p, NEW c \in Seq(NetConn), NEW e \in Seq(NetEvent), NEW i \in Nat,
           TableFine(t, c), Fresh(t, e, i), Lines(t, nx, p, c, e, i),
           NEW h \in DOMAIN t, NEW t2, DOMAIN t2 = DOMAIN t, \A g \in DOMAIN t \ {h} : t2[g] = t[g],
           EntryFine(t2[h], c), t2[h].key = t[h].key,
           NEW q \in Seq(NetPush), \A b \in 1..Len(q) : q[b][2][1] < nx /\ \A g \in DOMAIN t \ {h} : ~Says(q[b], g),
           NEW i2 \in Nat, i <= i2, Line(t2[h], h, p \o q, c[t2[h].key].sent, e, i2)
    PROVE  TableFine(t2, c) /\ Fresh(t2, e, i2) /\ Lines(t2, nx, p \o q, c, e, i2)
<1>1. \A g \in DOMAIN t : t2[g].key = t[g].key
  OBVIOUS
<1>2. TableFine(t2, c)
  BY <1>1 DEF TableFine
<1>3. \A j \in (i2 + 1)..Len(e) : j \in (i + 1)..Len(e)
  OBVIOUS
<1>4. Fresh(t2, e, i2)
  BY <1>1, <1>3 DEF Fresh
<1>5. p \in Seq(NetPush) /\ \A a \in 1..Len(p) : p[a][2][1] < nx
  BY DEF Lines
<1>6. p \o q \in Seq(NetPush) /\ \A a \in 1..Len(p \o q) : (p \o q)[a][2][1] < nx
  <2>1. p \o q \in Seq(NetPush)
    BY <1>5
  <2>2. \A a \in 1..Len(p \o q) : \/ a \in 1..Len(p) /\ (p \o q)[a] = p[a]
                                  \/ a - Len(p) \in 1..Len(q) /\ (p \o q)[a] = q[a - Len(p)]
    BY <1>5
  <2> QED
    BY <1>5, <2>1, <2>2
<1>7. ASSUME NEW g \in DOMAIN t \ {h}
      PROVE  Line(t2[g], g, p \o q, c[t2[g].key].sent, e, i2)
  <2>1. EntryFine(t[g], c) /\ Line(t[g], g, p, c[t[g].key].sent, e, i) /\ t2[g] = t[g]
    BY DEF TableFine, Lines
  <2>2. t[g].inbound \in Seq(Nat \ {0}) /\ t[g].key \in 1..Len(c)
    BY <2>1 DEF EntryFine, NetEntry
  <2>3. c[t[g].key].sent \in Nat
    <3>1. c[t[g].key] \in NetConn
      BY <2>2
    <3> QED
      BY <3>1 DEF NetConn
  <2>4. c[t[g].key].sent <= c[t[g].key].sent
    BY <2>3
  <2>5. \A b \in 1..Len(q) : ~Says(q[b], g)
    OBVIOUS
  <2> QED
    BY <1>5, <2>1, <2>2, <2>3, <2>4, <2>5, LineKept
<1>8. \A g \in DOMAIN t2 : Line(t2[g], g, p \o q, c[t2[g].key].sent, e, i2)
  BY <1>7
<1> QED
  BY <1>2, <1>4, <1>6, <1>8 DEF Lines

\* Who reached a connection still does: entries keep their keys, one that
\* is found over leaves its connection to be closed or to whoever asked for
\* it, and a connection whose report is read is held or to be closed.
LEMMA ReachedOn ==
    ASSUME NEW t, NEW cl, NEW c, NEW e, NEW i \in Nat, Reached(t, cl, c, e, i),
           NEW t2, DOMAIN t \subseteq DOMAIN t2, \A g \in DOMAIN t : t2[g].key = t[g].key,
           NEW cl2, cl \subseteq cl2,
           \A g \in DOMAIN t : Settled /\ ~t[g].gone /\ t2[g].gone /\ c[t[g].key].st = "up" =>
               t[g].key \in cl2 \/ c[t[g].key].asker # {},
           NEW i2 \in {i, i + 1},
           i2 = i + 1 /\ e[i + 1].kind = "accepted" =>
               e[i + 1].key \in cl2 \/ \E h \in DOMAIN t2 : t2[h].key = e[i + 1].key /\ ~t2[h].gone
    PROVE  Reached(t2, cl2, c, e, i2)
<1> SUFFICES ASSUME NEW k \in 1..Len(c), Settled, c[k].st = "up"
             PROVE  \/ k \in cl2
                    \/ c[k].asker # {}
                    \/ \E h \in DOMAIN t2 : t2[h].key = k /\ ~t2[h].gone
                    \/ \E j \in (i2 + 1)..Len(e) : e[j].kind = "accepted" /\ e[j].key = k
  BY DEF Reached
<1>1. \/ k \in cl
      \/ c[k].asker # {}
      \/ \E h \in DOMAIN t : t[h].key = k /\ ~t[h].gone
      \/ \E j \in (i + 1)..Len(e) : e[j].kind = "accepted" /\ e[j].key = k
  BY DEF Reached
<1>2. CASE \E h \in DOMAIN t : t[h].key = k /\ ~t[h].gone
  <2>1. PICK h \in DOMAIN t : t[h].key = k /\ ~t[h].gone
    BY <1>2
  <2>2. h \in DOMAIN t2 /\ t2[h].key = k
    BY <2>1
  <2> QED
    BY <2>1, <2>2
<1>3. CASE \E j \in (i + 1)..Len(e) : e[j].kind = "accepted" /\ e[j].key = k
  <2>1. PICK j \in (i + 1)..Len(e) : e[j].kind = "accepted" /\ e[j].key = k
    BY <1>3
  <2>2. j \in (i2 + 1)..Len(e) \/ (i2 = i + 1 /\ j = i + 1)
    OBVIOUS
  <2> QED
    BY <2>1, <2>2
<1> QED
  BY <1>1, <1>2, <1>3

\* What is known of the event a sweep comes to.
LEMMA EventRead ==
    ASSUME NEW c, NEW e, TransportFine(c, e), NEW i \in Nat, i + 1 \in 1..Len(e)
    PROVE  /\ c \in Seq(NetConn) /\ e \in Seq(NetEvent)
           /\ e[i + 1].kind \in {"data", "closed", "accepted"} /\ e[i + 1].key \in 1..Len(c)
           /\ e[i + 1].kind = "data" => e[i + 1].data \in Nat \ {0} /\ e[i + 1].data <= c[e[i + 1].key].sent
           /\ e[i + 1].kind = "closed" => c[e[i + 1].key].st = "down"
           /\ \A j \in ((i + 1) + 1)..Len(e) : /\ Ordered(e[i + 1], e[j])
                                               /\ e[j].kind = "data" => e[j].data \in Nat \ {0}
           /\ c[e[i + 1].key] \in NetConn
<1>1. c \in Seq(NetConn) /\ e \in Seq(NetEvent)
  BY DEF TransportFine
<1>2. \A j \in 1..Len(e) : e[j] \in NetEvent
  BY <1>1
<1>3. \A ev \in NetEvent : ev.kind \in {"data", "closed", "accepted"} /\ (ev.kind = "data" => ev.data \in Nat \ {0})
  BY DEF NetEvent
<1>4. EventFine(e[i + 1], c)
  BY DEF TransportFine
<1>5. \A j \in ((i + 1) + 1)..Len(e) : Ordered(e[i + 1], e[j])
  <2>1. \A j \in ((i + 1) + 1)..Len(e) : j \in 1..Len(e) /\ i + 1 < j
    BY <1>1
  <2> QED
    BY <2>1 DEF TransportFine
<1>6. \A j \in ((i + 1) + 1)..Len(e) : j \in 1..Len(e)
  BY <1>1
<1>7. c[e[i + 1].key] \in NetConn
  BY <1>1, <1>4 DEF EventFine
<1> QED
  BY <1>1, <1>2, <1>3, <1>4, <1>5, <1>6, <1>7 DEF EventFine

\* Reading on changes nothing else.
LEMMA ReadOn ==
    ASSUME NEW t, NEW nx, NEW p, NEW c, NEW e, NEW i \in Nat, Fresh(t, e, i), Lines(t, nx, p, c, e, i),
           NEW i2 \in Nat, i <= i2
    PROVE  Fresh(t, e, i2) /\ Lines(t, nx, p, c, e, i2)
<1>1. \A j \in (i2 + 1)..Len(e) : j \in (i + 1)..Len(e)
  OBVIOUS
<1>2. Fresh(t, e, i2)
  BY <1>1 DEF Fresh
<1>3. \A h \in DOMAIN t : Line(t[h], h, p, c[t[h].key].sent, e, i2)
  <2> SUFFICES ASSUME NEW h \in DOMAIN t
               PROVE  Line(t[h], h, p, c[t[h].key].sent, e, i2)
    OBVIOUS
  <2>1. Line(t[h], h, p, c[t[h].key].sent, e, i)
    BY DEF Lines
  <2> QED
    BY <1>1, <2>1 DEF Line
<1> QED
  BY <1>2, <1>3 DEF Lines

\* An event nobody holds the connection of: an arrival is to be closed.
LEMMA ReadNothing ==
    ASSUME NEW t, NEW nx, NEW p, NEW cl, NEW c, NEW e, NEW i \in Nat, NetFine(t, nx, p, cl, c, e, i),
           NEW cl2, cl \subseteq cl2, e[i + 1].kind = "accepted" => e[i + 1].key \in cl2
    PROVE  NetFine(t, nx, p, cl2, c, e, i + 1)
<1>1. TableFine(t, c) /\ Fresh(t, e, i) /\ Lines(t, nx, p, c, e, i) /\ Reached(t, cl, c, e, i)
  BY DEF NetFine
<1>2. i + 1 \in Nat /\ i <= i + 1 /\ i + 1 \in {i, i + 1}
  OBVIOUS
<1>3. Fresh(t, e, i + 1) /\ Lines(t, nx, p, c, e, i + 1)
  BY <1>1, <1>2, ReadOn
<1>4. Reached(t, cl2, c, e, i + 1)
  BY <1>1, <1>2, ReachedOn
<1> QED
  BY <1>1, <1>3, <1>4 DEF NetFine

\* What the entry an event is for has to do with the others.
LEMMA AtEntry ==
    ASSUME NEW t, NEW nx, NEW p, NEW cl, NEW c, NEW e, NEW i, NetFine(t, nx, p, cl, c, e, i), NEW h \in DOMAIN t
    PROVE  /\ EntryFine(t[h], c) /\ t[h] \in NetEntry /\ t[h].key \in 1..Len(c)
           /\ t[h].inbound \in Seq(Nat \ {0})
           /\ Line(t[h], h, p, c[t[h].key].sent, e, i)
           /\ p \in Seq(NetPush) /\ \A a \in 1..Len(p) : p[a][2][2] \in Nat
<1>1. EntryFine(t[h], c) /\ Line(t[h], h, p, c[t[h].key].sent, e, i) /\ p \in Seq(NetPush)
  BY DEF NetFine, TableFine, Lines
<1>2. t[h] \in NetEntry /\ t[h].key \in 1..Len(c)
  BY <1>1 DEF EntryFine
<1>3. t[h].inbound \in Seq(Nat \ {0})
  BY <1>2 DEF NetEntry
<1>4. \A a \in 1..Len(p) : p[a][2][2] \in Nat
  BY <1>1 DEF NetPush
<1> QED
  BY <1>1, <1>2, <1>3, <1>4

\* A message for an owner that named a queue.
LEMMA DataPushed ==
    ASSUME NEW t, NEW nx \in Nat, NEW p, NEW cl, NEW c, NEW e, TransportFine(c, e), NEW i \in Nat, i + 1 \in 1..Len(e),
           NetFine(t, nx, p, cl, c, e, i), NEW h \in DOMAIN t, h \in Nat, h < nx, t[h].queue,
           e[i + 1].kind = "data", e[i + 1].key = t[h].key
    PROVE  NetFine(t, nx, p \o << <<t[h].owner, <<h, e[i + 1].data>>>> >>, cl, c, e, i + 1)
<1> DEFINE d == e[i + 1].data
<1> DEFINE x == <<t[h].owner, <<h, d>>>>
<1> DEFINE r == p \o <<x>>
<1> DEFINE sent == c[t[h].key].sent
<1>0. /\ c \in Seq(NetConn) /\ e \in Seq(NetEvent)
      /\ e[i + 1].data \in Nat \ {0} /\ e[i + 1].data <= c[e[i + 1].key].sent
      /\ c[e[i + 1].key] \in NetConn
  BY EventRead
<1>1. c \in Seq(NetConn) /\ e \in Seq(NetEvent) /\ d \in Nat \ {0} /\ d <= sent /\ c[t[h].key] \in NetConn
  BY <1>0
<1>2. /\ EntryFine(t[h], c) /\ t[h] \in NetEntry /\ Line(t[h], h, p, sent, e, i)
      /\ p \in Seq(NetPush) /\ \A a \in 1..Len(p) : p[a][2][2] \in Nat
  BY AtEntry
<1>3. t[h].inbound = <<>> /\ t[h].owner \in Inst
  BY <1>2 DEF EntryFine, NetEntry
<1>4. x \in NetPush /\ <<x>> \in Seq(NetPush) /\ x[2][1] = h /\ x[2][2] = d
  BY <1>1, <1>3 DEF NetPush
<1>5. Len(r) = Len(p) + 1 /\ r[Len(p) + 1] = x /\ \A a \in 1..Len(p) : r[a] = p[a]
  BY <1>2, <1>4
<1>6. \A a \in 1..Len(r) : a \in 1..Len(p) \/ a = Len(p) + 1
  BY <1>2, <1>5
<1> HIDE DEF r, x, d, sent
<1>7. \A a \in 1..Len(p) : Says(p[a], h) => p[a][2][2] < d
  BY <1>2 DEF Line, d
<1>8. \A j \in ((i + 1) + 1)..Len(e) : e[j].kind = "data" /\ e[j].key = t[h].key => d < e[j].data /\ e[j].data \in Nat
  <2>1. \A j \in ((i + 1) + 1)..Len(e) : /\ Ordered(e[i + 1], e[j])
                                         /\ e[j].kind = "data" => e[j].data \in Nat \ {0}
    BY EventRead
  <2> QED
    BY <2>1 DEF Ordered, d
<1>9. Line(t[h], h, r, sent, e, i + 1)
  <2>1. ASSUME NEW a \in 1..Len(r), Says(r[a], h)
        PROVE  /\ r[a][2][2] <= sent
               /\ \A b \in 1..Len(r) : a < b /\ Says(r[b], h) => r[a][2][2] < r[b][2][2]
               /\ \A b \in 1..Len(t[h].inbound) : r[a][2][2] < t[h].inbound[b]
    <3>1. CASE a \in 1..Len(p)
      <4>1. Says(p[a], h) /\ r[a] = p[a]
        BY <2>1, <3>1, <1>5
      <4>2. /\ p[a][2][2] <= sent
            /\ \A b \in 1..Len(p) : a < b /\ Says(p[b], h) => p[a][2][2] < p[b][2][2]
        BY <4>1, <3>1, <1>2 DEF Line
      <4> QED
        BY <4>1, <4>2, <3>1, <1>3, <1>4, <1>5, <1>6, <1>7
    <3>2. CASE a = Len(p) + 1
      <4>1. \A b \in 1..Len(r) : ~(a < b)
        BY <3>2, <1>2, <1>5
      <4> QED
        BY <4>1, <3>2, <1>1, <1>3, <1>4, <1>5
    <3> QED
      BY <3>1, <3>2, <1>6
  <2>2. ASSUME NEW j \in ((i + 1) + 1)..Len(e), e[j].kind = "data", e[j].key = t[h].key
        PROVE  \A a \in 1..Len(r) : Says(r[a], h) => r[a][2][2] < e[j].data
    <3>1. d < e[j].data /\ e[j].data \in Nat /\ d \in Nat
      BY <2>2, <1>8, <1>1
    <3> SUFFICES ASSUME NEW a \in 1..Len(r), Says(r[a], h)
                 PROVE  r[a][2][2] < e[j].data
      OBVIOUS
    <3>2. CASE a \in 1..Len(p)
      <4>1. Says(p[a], h) /\ r[a] = p[a] /\ p[a][2][2] \in Nat /\ p[a][2][2] < d
        BY <3>2, <1>2, <1>5, <1>7
      <4> QED
        BY <4>1, <3>1, SMTT(30)
    <3>3. CASE a = Len(p) + 1
      BY <3>3, <3>1, <1>4, <1>5
    <3> QED
      BY <3>2, <3>3, <1>6
  <2> QED
    BY <2>1, <2>2, <1>3 DEF Line
<1>10. \A b \in 1..Len(<<x>>) : <<x>>[b][2][1] < nx /\ \A g \in DOMAIN t \ {h} : ~Says(<<x>>[b], g)
  BY <1>4 DEF Says
<1>11. TableFine(t, c) /\ Fresh(t, e, i) /\ Lines(t, nx, p, c, e, i) /\ Reached(t, cl, c, e, i)
  BY DEF NetFine
<1>12. i + 1 \in Nat /\ i <= i + 1 /\ i + 1 \in {i, i + 1}
  OBVIOUS
<1>13. TableFine(t, c) /\ Fresh(t, e, i + 1) /\ Lines(t, nx, p \o <<x>>, c, e, i + 1)
  <2>1. Line(t[h], h, p \o <<x>>, c[t[h].key].sent, e, i + 1)
    BY <1>9 DEF r, sent
  <2> QED
    BY <1>1, <1>2, <1>4, <1>10, <1>11, <1>12, <2>1, Exchange
<1>14. Reached(t, cl, c, e, i + 1)
  BY <1>11, <1>12, ReachedOn
<1> QED
  BY <1>13, <1>14 DEF NetFine, x, d

\* A message for an owner that reads its own: it is buffered.
LEMMA DataBuffered ==
    ASSUME NEW t, NEW nx \in Nat, NEW p, NEW cl, NEW c, NEW e, TransportFine(c, e), NEW i \in Nat, i + 1 \in 1..Len(e),
           NetFine(t, nx, p, cl, c, e, i), NEW h \in DOMAIN t, ~t[h].queue,
           e[i + 1].kind = "data", e[i + 1].key = t[h].key,
           NEW m2, m2 = Append(t[h].inbound, e[i + 1].data), NEW en, en = [t[h] EXCEPT !.inbound = m2],
           NEW t2, t2 = [t EXCEPT ![h] = en]
    PROVE  NetFine(t2, nx, p, cl, c, e, i + 1)
<1> DEFINE d == e[i + 1].data
<1> DEFINE m == t[h].inbound
<1> DEFINE r == m2
<1> DEFINE sent == c[t[h].key].sent
<1>0. /\ c \in Seq(NetConn) /\ e \in Seq(NetEvent)
      /\ e[i + 1].data \in Nat \ {0} /\ e[i + 1].data <= c[e[i + 1].key].sent
      /\ c[e[i + 1].key] \in NetConn
  BY EventRead
<1>1. c \in Seq(NetConn) /\ e \in Seq(NetEvent) /\ d \in Nat \ {0} /\ d <= sent /\ c[t[h].key] \in NetConn
  BY <1>0
<1>2. /\ EntryFine(t[h], c) /\ t[h] \in NetEntry /\ Line(t[h], h, p, sent, e, i) /\ m \in Seq(Nat \ {0})
      /\ p \in Seq(NetPush) /\ \A a \in 1..Len(p) : p[a][2][2] \in Nat
  BY AtEntry
<1>3. r \in Seq(Nat \ {0}) /\ Len(r) = Len(m) + 1 /\ r[Len(m) + 1] = d /\ \A a \in 1..Len(m) : r[a] = m[a]
  BY <1>1, <1>2
<1>4. \A a \in 1..Len(r) : a \in 1..Len(m) \/ a = Len(m) + 1
  BY <1>2, <1>3
<1>5. /\ DOMAIN t2 = DOMAIN t /\ \A g \in DOMAIN t \ {h} : t2[g] = t[g]
      /\ t2[h] = en
  OBVIOUS
<1> HIDE DEF r, d, m, sent
<1>6. /\ t2[h] \in NetEntry /\ t2[h].key = t[h].key /\ t2[h].inbound = r /\ t2[h].queue = t[h].queue
      /\ t2[h].waiting = t[h].waiting /\ t2[h].vital = t[h].vital /\ t2[h].conn = t[h].conn /\ t2[h].gone = t[h].gone
  BY <1>2, <1>3, <1>5 DEF NetEntry, r
<1>7. EntryFine(t2[h], c)
  BY <1>2, <1>6 DEF EntryFine
<1>8. \A j \in ((i + 1) + 1)..Len(e) : e[j].kind = "data" /\ e[j].key = t[h].key => d < e[j].data /\ e[j].data \in Nat
  <2>1. \A j \in ((i + 1) + 1)..Len(e) : /\ Ordered(e[i + 1], e[j])
                                         /\ e[j].kind = "data" => e[j].data \in Nat \ {0}
    BY EventRead
  <2> QED
    BY <2>1 DEF Ordered, d
<1>9. i + 1 \in (i + 1)..Len(e)
  BY <1>1
<1>10. /\ \A a \in 1..Len(p) : Says(p[a], h) => p[a][2][2] < d
       /\ \A a \in 1..Len(m) : m[a] < d /\ m[a] \in Nat
  BY <1>2, <1>9 DEF Line, d, m
<1>11. Line(t2[h], h, p, sent, e, i + 1)
  <2>1. ASSUME NEW a \in 1..Len(p), Says(p[a], h)
        PROVE  /\ p[a][2][2] <= sent
               /\ \A b \in 1..Len(p) : a < b /\ Says(p[b], h) => p[a][2][2] < p[b][2][2]
               /\ \A b \in 1..Len(r) : p[a][2][2] < r[b]
    <3>1. /\ p[a][2][2] <= sent
          /\ \A b \in 1..Len(p) : a < b /\ Says(p[b], h) => p[a][2][2] < p[b][2][2]
          /\ \A b \in 1..Len(m) : p[a][2][2] < m[b]
      BY <2>1, <1>2 DEF Line, m
    <3>2. p[a][2][2] < d
      BY <2>1, <1>10
    <3> QED
      BY <3>1, <3>2, <1>3, <1>4
  <2>2. ASSUME NEW a \in 1..Len(r)
        PROVE  /\ r[a] <= sent
               /\ \A b \in 1..Len(r) : a < b => r[a] < r[b]
    <3>1. CASE a \in 1..Len(m)
      <4>1. m[a] <= sent /\ \A b \in 1..Len(m) : a < b => m[a] < m[b]
        BY <3>1, <1>2 DEF Line, m
      <4> QED
        BY <4>1, <3>1, <1>3, <1>4, <1>10
    <3>2. CASE a = Len(m) + 1
      <4>1. \A b \in 1..Len(r) : ~(a < b)
        BY <3>2, <1>2, <1>3
      <4> QED
        BY <4>1, <3>2, <1>1, <1>3
    <3> QED
      BY <3>1, <3>2, <1>4
  <2>3. ASSUME NEW j \in ((i + 1) + 1)..Len(e), e[j].kind = "data", e[j].key = t[h].key
        PROVE  /\ \A a \in 1..Len(p) : Says(p[a], h) => p[a][2][2] < e[j].data
               /\ \A a \in 1..Len(r) : r[a] < e[j].data
    <3>1. d < e[j].data /\ e[j].data \in Nat /\ d \in Nat
      BY <2>3, <1>8, <1>1
    <3>2. \A a \in 1..Len(p) : Says(p[a], h) => p[a][2][2] < e[j].data
      BY <3>1, <1>2, <1>10, SMTT(30)
    <3>3. ASSUME NEW a \in 1..Len(r)
          PROVE  r[a] < e[j].data
      <4>1. CASE a \in 1..Len(m)
        <5>1. r[a] = m[a] /\ m[a] \in Nat /\ m[a] < d
          BY <4>1, <1>3, <1>10
        <5> QED
          BY <5>1, <3>1
      <4>2. CASE a = Len(m) + 1
        BY <4>2, <3>1, <1>3
      <4> QED
        BY <4>1, <4>2, <1>4
    <3> QED
      BY <3>2, <3>3
  <2> DEFINE x == t2[h]
  <2>4. x.key = t[h].key /\ x.inbound = r
    BY <1>6
  <2> HIDE DEF x
  <2>5. Line(x, h, p, sent, e, i + 1)
    BY <2>1, <2>2, <2>3, <2>4 DEF Line
  <2> QED
    BY <2>5 DEF x
<1>12. TableFine(t, c) /\ Fresh(t, e, i) /\ Lines(t, nx, p, c, e, i) /\ Reached(t, cl, c, e, i)
  BY DEF NetFine
<1>13. i + 1 \in Nat /\ i <= i + 1 /\ i + 1 \in {i, i + 1}
  OBVIOUS
<1>14. p \o <<>> = p /\ <<>> \in Seq(NetPush) /\ Len(<<>>) = 0
  BY <1>2
<1>15. TableFine(t2, c) /\ Fresh(t2, e, i + 1) /\ Lines(t2, nx, p \o <<>>, c, e, i + 1)
  <2>1. Line(t2[h], h, p \o <<>>, c[t2[h].key].sent, e, i + 1)
    BY <1>6, <1>11, <1>14 DEF sent
  <2> DEFINE q == <<>>
  <2>2. q \in Seq(NetPush) /\ \A b \in 1..Len(q) : q[b][2][1] < nx /\ \A g \in DOMAIN t \ {h} : ~Says(q[b], g)
    BY <1>14
  <2>3. Line(t2[h], h, p \o q, c[t2[h].key].sent, e, i + 1)
    BY <2>1
  <2> HIDE DEF q
  <2>4. TableFine(t2, c) /\ Fresh(t2, e, i + 1) /\ Lines(t2, nx, p \o q, c, e, i + 1)
    BY <1>1, <1>5, <1>6, <1>7, <1>12, <1>13, <2>3, <2>2, Exchange
  <2> QED
    BY <2>4 DEF q
<1>16. Reached(t2, cl, c, e, i + 1)
  <2>1. \A g \in DOMAIN t : t2[g].key = t[g].key /\ t2[g].gone = t[g].gone
    BY <1>5, <1>6
  <2>2. DOMAIN t \subseteq DOMAIN t2 /\ \A g \in DOMAIN t : t2[g].key = t[g].key
    BY <1>5, <2>1
  <2>3. \A g \in DOMAIN t : Settled /\ ~t[g].gone /\ t2[g].gone /\ c[t[g].key].st = "up" =>
               t[g].key \in cl \/ c[t[g].key].asker # {}
    BY <2>1
  <2> QED
    BY <2>2, <2>3, <1>12, <1>13, ReachedOn
<1> QED
  BY <1>14, <1>15, <1>16 DEF NetFine

\* An entry is found over, by an overflow or by a close: it leaves its
\* connection to be closed, if it was up and the entry's own.
LEMMA EntryOver ==
    ASSUME NEW t, NEW nx \in Nat, NEW p, NEW cl, NEW c \in Seq(NetConn), NEW e \in Seq(NetEvent), NEW i \in Nat,
           i + 1 \in 1..Len(e), NetFine(t, nx, p, cl, c, e, i), NEW h \in DOMAIN t, ~t[h].gone,
           e[i + 1].kind # "accepted",
           NEW t2, t2 = [t EXCEPT ![h] = [t[h] EXCEPT !.gone = TRUE]], NEW cl2, cl \subseteq cl2,
           c[t[h].key].st = "up" /\ t[h].conn => t[h].key \in cl2,
           Settled /\ ~t[h].conn => c[t[h].key].st \in {"refused", "down"},
           NEW q \in Seq(NetPush), \A b \in 1..Len(q) : q[b][2][1] < nx /\ q[b][2][2] = 0
    PROVE  NetFine(t2, nx, p \o q, cl2, c, e, i + 1)
<1>1. /\ EntryFine(t[h], c) /\ t[h] \in NetEntry /\ t[h].key \in 1..Len(c) /\ t[h].inbound \in Seq(Nat \ {0})
      /\ Line(t[h], h, p, c[t[h].key].sent, e, i) /\ p \in Seq(NetPush)
  BY AtEntry
<1>2. /\ DOMAIN t2 = DOMAIN t /\ \A g \in DOMAIN t \ {h} : t2[g] = t[g]
      /\ t2[h] = [t[h] EXCEPT !.gone = TRUE]
  OBVIOUS
<1>3. /\ t2[h] \in NetEntry /\ t2[h].key = t[h].key /\ t2[h].inbound = t[h].inbound /\ t2[h].queue = t[h].queue
      /\ t2[h].waiting = t[h].waiting /\ t2[h].vital = t[h].vital /\ t2[h].conn = t[h].conn /\ t2[h].gone
  BY <1>1, <1>2 DEF NetEntry
<1>4. EntryFine(t2[h], c)
  BY <1>1, <1>3 DEF EntryFine
<1>5. TableFine(t, c) /\ Fresh(t, e, i) /\ Lines(t, nx, p, c, e, i) /\ Reached(t, cl, c, e, i)
  BY DEF NetFine
<1>6. i + 1 \in Nat /\ i <= i + 1 /\ i + 1 \in {i, i + 1} /\ i + 1 # i
  OBVIOUS
<1>7. \A b \in 1..Len(q) : q[b][2][1] < nx /\ \A g \in DOMAIN t : ~Says(q[b], g)
  BY DEF Says
<1>8. c[t[h].key].sent \in Nat
  <2>1. c[t[h].key] \in NetConn
    BY <1>1
  <2> QED
    BY <2>1 DEF NetConn
<1>9. Line(t2[h], h, p \o q, c[t2[h].key].sent, e, i + 1)
  <2> DEFINE sent == c[t[h].key].sent
  <2>1. sent <= sent /\ \A b \in 1..Len(q) : ~Says(q[b], h)
    BY <1>7, <1>8
  <2>2. Line(t2[h], h, p \o q, sent, e, i + 1)
    <3> HIDE DEF sent
    <3>1. sent \in Nat /\ Line(t[h], h, p, sent, e, i)
      BY <1>1, <1>8 DEF sent
    <3> QED
      BY <1>1, <1>3, <1>6, <2>1, <3>1, LineKept
  <2> QED
    BY <2>2, <1>3
<1>10. TableFine(t2, c) /\ Fresh(t2, e, i + 1) /\ Lines(t2, nx, p \o q, c, e, i + 1)
  BY <1>2, <1>3, <1>4, <1>5, <1>6, <1>7, <1>9, Exchange, ZenonT(30)
<1>11. Reached(t2, cl2, c, e, i + 1)
  <2>1. \A g \in DOMAIN t : t2[g].key = t[g].key
    BY <1>2, <1>3
  <2>2. ASSUME NEW g \in DOMAIN t, Settled, ~t[g].gone, t2[g].gone, c[t[g].key].st = "up"
        PROVE  t[g].key \in cl2 \/ c[t[g].key].asker # {}
    <3>1. g = h
      BY <2>2, <1>2
    <3> QED
      BY <2>2, <3>1
  <2>3. \A g \in DOMAIN t : Settled /\ ~t[g].gone /\ t2[g].gone /\ c[t[g].key].st = "up" =>
               t[g].key \in cl2 \/ c[t[g].key].asker # {}
    BY <2>2
  <2>4. DOMAIN t \subseteq DOMAIN t2
    BY <1>2
  <2> QED
    BY <2>1, <2>3, <2>4, <1>5, <1>6, ReachedOn
<1> QED
  BY <1>10, <1>11 DEF NetFine

\* A new entry at the next handle, of a connection nobody else holds.
LEMMA EntryAdded ==
    ASSUME NEW t, NEW nx \in Nat, DOMAIN t \subseteq 1..(nx - 1), NEW p, NEW c \in Seq(NetConn), NEW e \in Seq(NetEvent),
           NEW i \in Nat, TableFine(t, c), Fresh(t, e, i), Lines(t, nx, p, c, e, i),
           NEW i2 \in Nat, i <= i2, NEW new, EntryFine(new, c), new.inbound = <<>>,
           \A h \in DOMAIN t : t[h].key # new.key,
           \A j \in (i2 + 1)..Len(e) : e[j].kind = "accepted" => e[j].key # new.key,
           NEW q \in Seq(NetPush), \A b \in 1..Len(q) : q[b][2][1] < nx /\ q[b][2][2] = 0
    PROVE  /\ TableFine(With(t, nx, new), c) /\ Fresh(With(t, nx, new), e, i2)
           /\ Lines(With(t, nx, new), nx + 1, p \o q, c, e, i2)
<1> DEFINE t2 == With(t, nx, new)
<1>1. nx \notin DOMAIN t
  OBVIOUS
<1>2. DOMAIN t2 = DOMAIN t \cup {nx} /\ t2[nx] = new /\ \A h \in DOMAIN t : t2[h] = t[h]
  BY <1>1 DEF With
<1> HIDE DEF t2
<1>3. TableFine(t2, c)
  BY <1>1, <1>2 DEF TableFine
<1>4. \A j \in (i2 + 1)..Len(e) : j \in (i + 1)..Len(e)
  OBVIOUS
<1>5. Fresh(t2, e, i2)
  BY <1>2, <1>4 DEF Fresh
<1>6. p \in Seq(NetPush) /\ \A a \in 1..Len(p) : p[a][2][1] < nx /\ p[a][2][1] \in Nat
  BY DEF Lines, NetPush
<1> DEFINE r == p \o q
<1>7. r \in Seq(NetPush) /\ Len(r) = Len(p) + Len(q)
  BY <1>6
<1>8. \A a \in 1..Len(r) : r[a][2][1] < nx
  <2>1. \A a \in 1..Len(r) : \/ a \in 1..Len(p) /\ r[a] = p[a]
                             \/ a - Len(p) \in 1..Len(q) /\ r[a] = q[a - Len(p)]
    BY <1>6, <1>7
  <2> QED
    BY <1>6, <2>1
<1>9. \A a \in 1..Len(r) : r[a][2][1] \in Nat
  BY <1>7, SMTT(30) DEF NetPush
<1>10. Line(t2[nx], nx, r, c[t2[nx].key].sent, e, i2)
  <2>1. \A a \in 1..Len(r) : ~Says(r[a], nx)
    BY <1>8, <1>9 DEF Says
  <2> DEFINE x == t2[nx]
  <2>2. x.inbound = <<>> /\ Len(x.inbound) = 0
    BY <1>2
  <2> HIDE DEF r, x
  <2>3. Line(x, nx, r, c[x.key].sent, e, i2)
    BY <2>1, <2>2 DEF Line
  <2> QED
    BY <2>3 DEF x
<1>11. ASSUME NEW g \in DOMAIN t
      PROVE  Line(t2[g], g, r, c[t2[g].key].sent, e, i2)
  <2>1. EntryFine(t[g], c) /\ Line(t[g], g, p, c[t[g].key].sent, e, i) /\ t2[g] = t[g]
    BY <1>2 DEF TableFine, Lines
  <2>2. t[g].inbound \in Seq(Nat \ {0}) /\ t[g].key \in 1..Len(c)
    BY <2>1 DEF EntryFine, NetEntry
  <2>3. c[t[g].key].sent \in Nat
    <3>1. c[t[g].key] \in NetConn
      BY <2>2
    <3> QED
      BY <3>1 DEF NetConn
  <2>4. c[t[g].key].sent <= c[t[g].key].sent
    BY <2>3
  <2>5. \A b \in 1..Len(q) : ~Says(q[b], g)
    BY DEF Says
  <2>6. p \in Seq(NetPush)
    BY <1>6
  <2> QED
    BY <2>6, <2>1, <2>2, <2>3, <2>4, <2>5, LineKept
<1>12. \A a \in 1..Len(r) : r[a][2][1] < nx + 1
  BY <1>8, <1>9, SMTT(30)
<1>13. Lines(t2, nx + 1, r, c, e, i2)
  <2> HIDE DEF r
  <2>1. \A g \in DOMAIN t2 : Line(t2[g], g, r, c[t2[g].key].sent, e, i2)
    BY <1>2, <1>10, <1>11
  <2> QED
    BY <2>1, <1>7, <1>12 DEF Lines
<1> QED
  BY <1>3, <1>5, <1>13 DEF t2

\* An arrival under a listener that has room.
LEMMA AcceptedTaken ==
    ASSUME NEW t, NEW nx \in Nat, DOMAIN t \subseteq 1..(nx - 1), NEW p, NEW cl, NEW c, NEW e, TransportFine(c, e),
           NEW i \in Nat, i + 1 \in 1..Len(e), NetFine(t, nx, p, cl, c, e, i), e[i + 1].kind = "accepted",
           NEW new \in NetEntry, new.key = e[i + 1].key, new.inbound = <<>>, new.conn, ~new.gone, ~new.vital,
           NEW q \in Seq(NetPush), \A b \in 1..Len(q) : q[b][2][1] < nx /\ q[b][2][2] = 0
    PROVE  NetFine(With(t, nx, new), nx + 1, p \o q, cl, c, e, i + 1)
<1> DEFINE t2 == With(t, nx, new)
<1>1. c \in Seq(NetConn) /\ e \in Seq(NetEvent) /\ e[i + 1].key \in 1..Len(c)
  BY EventRead
<1>2. \A j \in ((i + 1) + 1)..Len(e) : e[j].kind = "accepted" => e[j].key # new.key
  <2>1. \A j \in ((i + 1) + 1)..Len(e) : /\ Ordered(e[i + 1], e[j])
                                         /\ e[j].kind = "data" => e[j].data \in Nat \ {0}
    BY EventRead
  <2> QED
    BY <2>1 DEF Ordered
<1>3. TableFine(t, c) /\ Fresh(t, e, i) /\ Lines(t, nx, p, c, e, i) /\ Reached(t, cl, c, e, i)
  BY DEF NetFine
<1>4. i + 1 \in Nat /\ i <= i + 1 /\ i + 1 \in {i, i + 1} /\ i + 1 \in (i + 1)..Len(e)
  BY <1>1
<1>5. \A h \in DOMAIN t : t[h].key # new.key
  BY <1>3, <1>4 DEF Fresh
<1>6. EntryFine(new, c)
  <2>1. c[new.key].asker = {}
    <3>1. EventFine(e[i + 1], c)
      BY DEF TransportFine
    <3> QED
      BY <3>1 DEF EventFine
  <2> QED
    BY <1>1, <2>1 DEF EntryFine
<1>7. TableFine(t2, c) /\ Fresh(t2, e, i + 1) /\ Lines(t2, nx + 1, p \o q, c, e, i + 1)
  BY <1>1, <1>2, <1>3, <1>4, <1>5, <1>6, EntryAdded
<1>8. DOMAIN t2 = DOMAIN t \cup {nx} /\ t2[nx] = new /\ \A h \in DOMAIN t : t2[h] = t[h]
  BY DEF With
<1> HIDE DEF t2
<1>9. Reached(t2, cl, c, e, i + 1)
  <2>1. DOMAIN t \subseteq DOMAIN t2 /\ \A g \in DOMAIN t : t2[g].key = t[g].key
    BY <1>8
  <2>2. \A g \in DOMAIN t : Settled /\ ~t[g].gone /\ t2[g].gone /\ c[t[g].key].st = "up" =>
               t[g].key \in cl \/ c[t[g].key].asker # {}
    BY <1>8
  <2>3. \E h \in DOMAIN t2 : t2[h].key = e[i + 1].key /\ ~t2[h].gone
    BY <1>8
  <2> QED
    BY <2>1, <2>2, <2>3, <1>3, <1>4, ReachedOn
<1> QED
  BY <1>7, <1>9 DEF NetFine, t2

\* Appending is concatenating.
LEMMA AppendedIs ==
    ASSUME NEW X, NEW p \in Seq(X), NEW x \in X
    PROVE  Append(p, x) = p \o <<x>>
<1> DEFINE a == Append(p, x)
<1> DEFINE b == p \o <<x>>
<1>1. a \in Seq(X) /\ b \in Seq(X) /\ Len(a) = Len(b)
  OBVIOUS
<1>2. \A i \in 1..Len(a) : a[i] = b[i]
  OBVIOUS
<1>3. a = [i \in 1..Len(a) |-> a[i]] /\ b = [i \in 1..Len(b) |-> b[i]]
  <2> HIDE DEF a, b
  <2> QED
    BY <1>1
<1> HIDE DEF a, b
<1>4. a = b
  BY <1>1, <1>2, <1>3
<1> QED
  BY <1>4 DEF a, b

\* From a table and its owners to report to later ones: every handle is
\* still there for the same owner, and of the vital ones that were found
\* over meanwhile the owner is to be reported.
Tells(t, d, t2, d2) ==
    /\ d \subseteq d2
    /\ \A h \in DOMAIN t :
         /\ h \in DOMAIN t2 /\ t2[h].owner = t[h].owner /\ t2[h].vital = t[h].vital
         /\ t[h].vital /\ ~t[h].gone /\ t2[h].gone => t[h].owner \in d2

\* A sweep that has read the first i events.
Sweeping(s, i) ==
    /\ s = [table |-> s.table, next |-> s.next, pushes |-> s.pushes, ended |-> s.ended, close |-> s.close]
    /\ Accounted(s.table, s.next, offers, gone, TRUE) /\ Shown(s.table, offers)
    /\ NetFine(s.table, s.next, s.pushes, s.close, conns, events, i)
    /\ Tells(table, ended, s.table, s.ended)

\* Handles are numbers below next.
LEMMA BelowNext ==
    ASSUME NEW t, NEW nx, NEW o, NEW dead, NEW lax, Accounted(t, nx, o, dead, lax)
    PROVE  nx \in Nat /\ DOMAIN t \subseteq 1..(nx - 1) /\ \A h \in DOMAIN t : h \in Nat /\ h < nx
  BY DEF Accounted

\* One entry is exchanged in the course of a sweep, for one that is the same
\* owner's.
LEMMA SweptEntry ==
    ASSUME NEW s, NEW i, Sweeping(s, i), NEW h \in DOMAIN s.table, NEW en, en.owner = s.table[h].owner,
           en.vital = s.table[h].vital, en.waiting = s.table[h].waiting, NEW d2, s.ended \subseteq d2,
           en.vital /\ ~s.table[h].gone /\ en.gone => en.owner \in d2,
           NEW t2, t2 = [s.table EXCEPT ![h] = en]
    PROVE  Accounted(t2, s.next, offers, gone, TRUE) /\ Shown(t2, offers) /\ Tells(table, ended, t2, d2)
<1>1. Accounted(s.table, s.next, offers, gone, TRUE) /\ Shown(s.table, offers) /\ Tells(table, ended, s.table, s.ended)
  BY DEF Sweeping
<1>2. DOMAIN t2 = DOMAIN s.table /\ t2[h] = en /\ \A g \in DOMAIN s.table : g # h => t2[g] = s.table[g]
  OBVIOUS
<1>3. \A g \in DOMAIN s.table : t2[g].owner = s.table[g].owner /\ t2[g].vital = s.table[g].vital
                                 /\ t2[g].waiting = s.table[g].waiting
  BY <1>2
<1>4. Accounted(t2, s.next, offers, gone, TRUE)
  BY <1>1, <1>2, <1>3, OwnersKept
<1>5. Shown(t2, offers)
  BY <1>1, <1>2, <1>3 DEF Shown
<1>6. Tells(table, ended, t2, d2)
  BY <1>1, <1>2, <1>3 DEF Tells
<1> QED
  BY <1>4, <1>5, <1>6

\* A message: pushed, buffered, or the one too many.
LEMMA DataRead ==
    ASSUME TransportFine(conns, events), NEW i \in Nat, i + 1 \in 1..Len(events), NEW s, Sweeping(s, i),
           NEW h \in DOMAIN s.table, ~s.table[h].gone, events[i + 1].kind = "data", events[i + 1].key = s.table[h].key
    PROVE  Sweeping(N!OnData(s, h, events[i + 1].data), i + 1)
<1> DEFINE d == events[i + 1].data
<1> DEFINE en == s.table[h]
<1> DEFINE s2 == N!OnData(s, h, d)
<1>1. /\ s = [table |-> s.table, next |-> s.next, pushes |-> s.pushes, ended |-> s.ended, close |-> s.close]
      /\ Accounted(s.table, s.next, offers, gone, TRUE) /\ Shown(s.table, offers)
      /\ NetFine(s.table, s.next, s.pushes, s.close, conns, events, i)
      /\ Tells(table, ended, s.table, s.ended)
  BY DEF Sweeping
<1>2. s.next \in Nat /\ h \in Nat /\ h < s.next
  BY <1>1, BelowNext
<1>3. /\ EntryFine(en, conns) /\ en \in NetEntry /\ en.inbound \in Seq(Nat \ {0}) /\ s.pushes \in Seq(NetPush)
      /\ Line(en, h, s.pushes, conns[en.key].sent, events, i) /\ en.key \in 1..Len(conns)
  BY <1>1, AtEntry
<1>4. /\ conns \in Seq(NetConn) /\ events \in Seq(NetEvent) /\ d \in Nat \ {0} /\ d <= conns[events[i + 1].key].sent
      /\ conns[events[i + 1].key] \in NetConn
  BY EventRead
<1>5. CASE en.queue
  <2> DEFINE p2 == s.pushes \o << <<en.owner, <<h, d>>>> >>
  <2>1. s2 = [table |-> s.table, next |-> s.next, pushes |-> Append(s.pushes, <<en.owner, <<h, d>>>>),
              ended |-> s.ended, close |-> s.close]
    BY <1>1, <1>5 DEF N!OnData, N!Notice
  <2>2. Append(s.pushes, <<en.owner, <<h, d>>>>) = p2
    <3>1. <<en.owner, <<h, d>>>> \in NetPush
      BY <1>2, <1>3, <1>4 DEF NetEntry, NetPush
    <3> QED
      BY <1>3, <3>1, AppendedIs
  <2>3. NetFine(s.table, s.next, p2, s.close, conns, events, i + 1)
    BY <1>1, <1>2, <1>5, DataPushed
  <2> HIDE DEF p2, s2
  <2>4. s2.table = s.table /\ s2.next = s.next /\ s2.pushes = p2 /\ s2.ended = s.ended /\ s2.close = s.close
    BY <2>1, <2>2
  <2> QED
    BY <1>1, <2>1, <2>2, <2>3, <2>4 DEF Sweeping, s2
<1>6. CASE ~en.queue /\ Len(en.inbound) < RECV_BACKLOG
  <2> DEFINE m2 == Append(en.inbound, d)
  <2> DEFINE en2 == [en EXCEPT !.inbound = m2]
  <2> DEFINE t2 == [s.table EXCEPT ![h] = en2]
  <2>1. s2 = [table |-> t2, next |-> s.next, pushes |-> s.pushes, ended |-> s.ended, close |-> s.close]
    BY <1>1, <1>6 DEF N!OnData
  <2>2. NetFine(t2, s.next, s.pushes, s.close, conns, events, i + 1)
    BY <1>1, <1>2, <1>6, DataBuffered
  <2>3. en2.owner = en.owner /\ en2.vital = en.vital /\ en2.waiting = en.waiting /\ en2.gone = en.gone
    BY <1>3 DEF NetEntry
  <2>4. Accounted(t2, s.next, offers, gone, TRUE) /\ Shown(t2, offers) /\ Tells(table, ended, t2, s.ended)
    <3>1. s.ended \subseteq s.ended
      OBVIOUS
    <3> HIDE DEF en2
    <3> QED
      BY <2>3, <3>1, SweptEntry
  <2> HIDE DEF s2, t2
  <2>5. s2.table = t2 /\ s2.next = s.next /\ s2.pushes = s.pushes /\ s2.ended = s.ended /\ s2.close = s.close
    BY <2>1
  <2> QED
    BY <2>1, <2>2, <2>4, <2>5 DEF Sweeping, s2
<1>7. CASE ~en.queue /\ ~(Len(en.inbound) < RECV_BACKLOG)
  <2> DEFINE en2 == [en EXCEPT !.gone = TRUE]
  <2> DEFINE t2 == [s.table EXCEPT ![h] = en2]
  <2> DEFINE cl2 == s.close \cup {k \in {en.key} : en.conn}
  <2> DEFINE d2 == s.ended \cup {n \in {en.owner} : en.vital}
  <2>1. s2 = [table |-> t2, next |-> s.next, pushes |-> s.pushes, ended |-> d2, close |-> cl2]
    BY <1>1, <1>7 DEF N!OnData
  <2>2. Settled /\ ~en.conn => conns[en.key].st \in {"refused", "down"}
    <3> SUFFICES ASSUME Settled, ~en.conn, conns[en.key].st \notin {"refused", "down"}
                 PROVE  FALSE
      OBVIOUS
    <3> DEFINE m == en.inbound
    <3> DEFINE sent == conns[en.key].sent
    <3>1. conns[en.key].st \in {"opening", "up"}
      BY <1>4 DEF NetConn
    <3>2. conns[en.key].asker # {}
      BY <3>1, <1>3 DEF EntryFine, TransportFine
    <3>3. sent <= Early
      BY <3>2, <1>3 DEF TransportFine
    <3>4. d <= sent /\ sent \in Nat
      BY <1>4 DEF NetConn
    <3>5. i + 1 \in (i + 1)..Len(events)
      BY <1>4
    <3>6. /\ \A a \in 1..Len(m) : m[a] < d
          /\ \A a, b \in 1..Len(m) : a < b => m[a] < m[b]
      BY <1>3, <3>5 DEF Line
    <3>7. \A a \in 1..Len(m) : a <= m[a] /\ m[a] \in Nat
      <4>1. m \in Seq(Nat \ {0}) /\ \A a \in 1..Len(m) : m[a] \in Nat
        BY <1>3
      <4> HIDE DEF m
      <4> QED
        BY <3>6, <4>1, Rising
    <3>8. Len(m) < d
      <4>1. Len(m) \in Nat
        BY <1>3
      <4>2. CASE Len(m) = 0
        BY <4>2, <1>4
      <4>3. CASE Len(m) # 0
        <5>1. Len(m) \in 1..Len(m)
          BY <4>1, <4>3
        <5>2. Len(m) <= m[Len(m)] /\ m[Len(m)] < d /\ m[Len(m)] \in Nat
          BY <5>1, <3>6, <3>7
        <5> QED
          BY <5>2, <4>1, <1>4
      <4> QED
        BY <4>2, <4>3
    <3>9. Len(m) \in Nat /\ Early \in Nat /\ RECV_BACKLOG \in Nat /\ d \in Nat
      <4>1. Early \in Nat /\ RECV_BACKLOG \in Nat
        BY ConnectorsAssumption
      <4> QED
        BY <1>3, <1>4, <4>1
    <3> HIDE DEF m, sent, d
    <3>10. ~(Len(m) < RECV_BACKLOG)
      BY <1>7 DEF m
    <3> QED
      BY <3>3, <3>4, <3>8, <3>9, <3>10 DEF Settled
  <2>3. <<>> \in Seq(NetPush) /\ s.pushes \o <<>> = s.pushes /\ Len(<<>>) = 0
    BY <1>3
  <2>4. NetFine(t2, s.next, s.pushes, cl2, conns, events, i + 1)
    <3> DEFINE q == <<>>
    <3>1. q \in Seq(NetPush) /\ \A b \in 1..Len(q) : q[b][2][1] < s.next /\ q[b][2][2] = 0
      BY <2>3
    <3>2. conns[en.key].st = "up" /\ en.conn => en.key \in cl2
      OBVIOUS
    <3>3. s.close \subseteq cl2 /\ events[i + 1].kind # "accepted"
      OBVIOUS
    <3>4. s.pushes \o q = s.pushes
      BY <2>3
    <3> HIDE DEF q, cl2
    <3>5. NetFine(t2, s.next, s.pushes \o q, cl2, conns, events, i + 1)
      BY <1>1, <1>2, <1>4, <2>2, <3>1, <3>2, <3>3, EntryOver
    <3> QED
      BY <3>4, <3>5
  <2>5. en2.owner = en.owner /\ en2.vital = en.vital /\ en2.waiting = en.waiting
    BY <1>3 DEF NetEntry
  <2>6. s.ended \subseteq d2 /\ (en.vital => en.owner \in d2)
    OBVIOUS
  <2>7. Accounted(t2, s.next, offers, gone, TRUE) /\ Shown(t2, offers) /\ Tells(table, ended, t2, d2)
    <3> HIDE DEF en2, d2
    <3> QED
      BY <2>5, <2>6, SweptEntry
  <2> HIDE DEF s2, t2, cl2, d2
  <2>8. s2.table = t2 /\ s2.next = s.next /\ s2.pushes = s.pushes /\ s2.ended = d2 /\ s2.close = cl2
    BY <2>1
  <2> QED
    BY <2>1, <2>4, <2>7, <2>8 DEF Sweeping, s2
<1> QED
  BY <1>5, <1>6, <1>7

\* What the close of a connection makes of a sweep.
LEMMA ClosedIs ==
    ASSUME NEW t, NEW nx, NEW p, NEW d, NEW cl, NEW s, NEW h,
           s = [table |-> t, next |-> nx, pushes |-> p, ended |-> d, close |-> cl]
    PROVE  N!OnClosed(s, h) = [table  |-> [t EXCEPT ![h] = [t[h] EXCEPT !.gone = TRUE]], next |-> nx,
                               pushes |-> p \o (IF t[h].queue THEN << <<t[h].owner, <<h, 0>>>> >> ELSE <<>>),
                               ended  |-> d \cup {n \in {t[h].owner} : t[h].vital}, close |-> cl]
<1> DEFINE t2 == [t EXCEPT ![h] = [t[h] EXCEPT !.gone = TRUE]]
<1> DEFINE d2 == d \cup {n \in {t[h].owner} : t[h].vital}
<1> DEFINE p2 == p \o (IF t[h].queue THEN << <<t[h].owner, <<h, 0>>>> >> ELSE <<>>)
<1>1. s.table = t /\ s.pushes = p /\ s.ended = d
  OBVIOUS
<1>2. N!OnClosed(s, h) = [s EXCEPT !.table[h].gone = TRUE, !.ended = s.ended \cup {n \in {s.table[h].owner} : s.table[h].vital},
                            !.pushes = s.pushes \o (IF s.table[h].queue THEN <<N!Notice(s.table[h], h, 0)>> ELSE <<>>)]
  BY Zenon DEF N!OnClosed
<1>3. s.ended \cup {n \in {s.table[h].owner} : s.table[h].vital} = d2
  BY <1>1
<1>4. s.pushes \o (IF s.table[h].queue THEN <<N!Notice(s.table[h], h, 0)>> ELSE <<>>) = p2
  BY <1>1 DEF N!Notice
<1>5. [s EXCEPT !.table[h].gone = TRUE, !.ended = d2, !.pushes = p2] = [s EXCEPT !.table = t2, !.ended = d2, !.pushes = p2]
  <2> DEFINE u == [s.table EXCEPT ![h] = [s.table[h] EXCEPT !.gone = TRUE]]
  <2>1. u = t2
    BY <1>1
  <2> HIDE DEF d2, p2
  <2>2. [s EXCEPT !.table[h].gone = TRUE, !.ended = d2, !.pushes = p2] = [s EXCEPT !.table = u, !.ended = d2, !.pushes = p2]
    OBVIOUS
  <2> QED
    BY <2>1, <2>2, Zenon
<1>6. N!OnClosed(s, h) = [s EXCEPT !.table = t2, !.ended = d2, !.pushes = p2]
  BY <1>2, <1>3, <1>4, <1>5, Zenon
<1> HIDE DEF t2, d2, p2
<1>7. [s EXCEPT !.table = t2, !.ended = d2, !.pushes = p2] = [table |-> t2, next |-> nx, pushes |-> p2, ended |-> d2, close |-> cl]
  <2> DEFINE a == [s EXCEPT !.table = t2]
  <2>1. a = [table |-> t2, next |-> nx, pushes |-> p, ended |-> d, close |-> cl]
    OBVIOUS
  <2>2. [s EXCEPT !.table = t2, !.ended = d2, !.pushes = p2] = [[a EXCEPT !.ended = d2] EXCEPT !.pushes = p2]
    OBVIOUS
  <2> HIDE DEF a
  <2> DEFINE b == [a EXCEPT !.ended = d2]
  <2>3. b = [table |-> t2, next |-> nx, pushes |-> p, ended |-> d2, close |-> cl]
    BY <2>1
  <2> HIDE DEF b
  <2>4. [b EXCEPT !.pushes = p2] = [table |-> t2, next |-> nx, pushes |-> p2, ended |-> d2, close |-> cl]
    BY <2>3
  <2> QED
    BY <2>2, <2>4 DEF b
<1> QED
  BY <1>6, <1>7 DEF t2, d2, p2

\* The entry an arrival gets, and whether there is room for it.
Arrived(t, l, key) ==
    [N!NewEntry(t[l].owner, key, FALSE, FALSE, t[l].queue) EXCEPT !.conn = TRUE, !.waiting = IF t[l].queue THEN 0 ELSE l]
NoRoom(t, l) == ~t[l].queue /\ N!Cardinality(N!WaitingUnder(t, t[l].owner, l)) >= ACCEPT_BACKLOG

\* What a sweep carries.
Carries(s, t, nx, p, d, cl) == s = [table |-> t, next |-> nx, pushes |-> p, ended |-> d, close |-> cl]

\* What an arrival makes of it.
LEMMA AcceptedIs ==
    ASSUME NEW t, NEW nx, NEW p, NEW d, NEW cl, NEW s, Carries(s, t, nx, p, d, cl), NEW l, NEW key
    PROVE  /\ NoRoom(t, l) => Carries(N!OnAccepted(s, l, key), t, nx, p, d, cl \cup {key})
           /\ ~NoRoom(t, l) => Carries(N!OnAccepted(s, l, key), With(t, nx, Arrived(t, l, key)), nx + 1,
                   p \o (IF t[l].queue THEN << <<t[l].owner, <<l, 0>>>> >> ELSE <<>>), d, cl)
<1>0. s = [table |-> t, next |-> nx, pushes |-> p, ended |-> d, close |-> cl]
  BY DEF Carries
<1> DEFINE full == NoRoom(t, l)
<1> DEFINE new == Arrived(t, l, key)
<1> DEFINE t2 == With(t, nx, new)
<1> DEFINE nx2 == nx + 1
<1> DEFINE cl2 == cl \cup {key}
<1> DEFINE p2 == p \o (IF t[l].queue THEN << <<t[l].owner, <<l, 0>>>> >> ELSE <<>>)
<1>1. s.table = t /\ s.next = nx /\ s.pushes = p /\ s.close = cl
  BY <1>0
<1>2. N!OnAccepted(s, l, key)
        = IF full THEN [s EXCEPT !.close = s.close \cup {key}]
          ELSE [s EXCEPT !.table = N!With(s.table, s.next, new), !.next = s.next + 1,
                         !.pushes = s.pushes \o (IF t[l].queue THEN <<N!Notice(t[l], l, 0)>> ELSE <<>>)]
  <2>1. N!OnAccepted(s, l, key)
          = IF ~s.table[l].queue /\ N!Cardinality(N!WaitingUnder(s.table, s.table[l].owner, l)) >= ACCEPT_BACKLOG
            THEN [s EXCEPT !.close = s.close \cup {key}]
            ELSE [s EXCEPT !.table = N!With(s.table, s.next, [N!NewEntry(s.table[l].owner, key, FALSE, FALSE, s.table[l].queue)
                             EXCEPT !.conn = TRUE, !.waiting = IF s.table[l].queue THEN 0 ELSE l]), !.next = s.next + 1,
                           !.pushes = s.pushes \o (IF s.table[l].queue THEN <<N!Notice(s.table[l], l, 0)>> ELSE <<>>)]
    BY Zenon DEF N!OnAccepted
  <2>2. s.table[l] = t[l]
    BY <1>1
  <2>3. full = (~s.table[l].queue /\ N!Cardinality(N!WaitingUnder(s.table, s.table[l].owner, l)) >= ACCEPT_BACKLOG)
    BY <1>1, Zenon DEF NoRoom
  <2>4. new = [N!NewEntry(s.table[l].owner, key, FALSE, FALSE, s.table[l].queue)
                             EXCEPT !.conn = TRUE, !.waiting = IF s.table[l].queue THEN 0 ELSE l]
    BY <2>2, Zenon DEF Arrived
  <2> QED
    BY <2>1, <2>2, <2>3, <2>4, Zenon
<1>3. N!With(s.table, s.next, new) = t2 /\ s.next + 1 = nx2 /\ s.close \cup {key} = cl2
  BY <1>1, SameOperators
<1>4. s.pushes \o (IF t[l].queue THEN <<N!Notice(t[l], l, 0)>> ELSE <<>>) = p2
  BY <1>1 DEF N!Notice
<1> HIDE DEF full, new, t2, nx2, cl2, p2
<1>5. N!OnAccepted(s, l, key) = IF full THEN [s EXCEPT !.close = cl2] ELSE [s EXCEPT !.table = t2, !.next = nx2, !.pushes = p2]
  BY <1>2, <1>3, <1>4, Zenon
<1>6. [s EXCEPT !.close = cl2] = [table |-> t, next |-> nx, pushes |-> p, ended |-> d, close |-> cl2]
  BY <1>0
<1>7. [s EXCEPT !.table = t2, !.next = nx2, !.pushes = p2] = [table |-> t2, next |-> nx2, pushes |-> p2, ended |-> d, close |-> cl]
  <2> DEFINE a == [s EXCEPT !.table = t2]
  <2>1. a = [table |-> t2, next |-> nx, pushes |-> p, ended |-> d, close |-> cl]
    BY <1>0
  <2>2. [s EXCEPT !.table = t2, !.next = nx2, !.pushes = p2] = [[a EXCEPT !.next = nx2] EXCEPT !.pushes = p2]
    OBVIOUS
  <2> HIDE DEF a
  <2> DEFINE b == [a EXCEPT !.next = nx2]
  <2>3. b = [table |-> t2, next |-> nx2, pushes |-> p, ended |-> d, close |-> cl]
    BY <2>1
  <2> HIDE DEF b
  <2>4. [b EXCEPT !.pushes = p2] = [table |-> t2, next |-> nx2, pushes |-> p2, ended |-> d, close |-> cl]
    BY <2>3
  <2> QED
    BY <2>2, <2>4 DEF b
<1> QED
  BY <1>5, <1>6, <1>7, Zenon DEF Carries, full, new, t2, nx2, cl2, p2

\* A notice without a message, or none.
LEMMA NoticeAlone ==
    ASSUME NEW owner \in Inst, NEW h \in Nat, NEW nx \in Nat, h < nx,
           NEW q, q = << <<owner, <<h, 0>>>> >> \/ q = <<>>
    PROVE  q \in Seq(NetPush) /\ \A b \in 1..Len(q) : q[b][2][1] < nx /\ q[b][2][2] = 0
<1>1. <<owner, <<h, 0>>>> \in NetPush
  BY DEF NetPush
<1> DEFINE x == <<owner, <<h, 0>>>>
<1>2. x[2][1] < nx /\ x[2][2] = 0
  OBVIOUS
<1> HIDE DEF x
<1>3. <<x>> \in Seq(NetPush) /\ Len(<<x>>) = 1 /\ <<x>>[1] = x
  BY <1>1 DEF x
<1>4. <<>> \in Seq(NetPush) /\ Len(<<>>) = 0
  OBVIOUS
<1>5. CASE q = <<x>>
  BY <1>2, <1>3, <1>5
<1>6. CASE q = <<>>
  BY <1>4, <1>6
<1> QED
  BY <1>5, <1>6 DEF x

\* The close of a connection: its entry is over.
LEMMA ClosedRead ==
    ASSUME TransportFine(conns, events), NEW i \in Nat, i + 1 \in 1..Len(events), NEW s, Sweeping(s, i),
           NEW h \in DOMAIN s.table, ~s.table[h].gone, events[i + 1].kind = "closed", events[i + 1].key = s.table[h].key
    PROVE  Sweeping(N!OnClosed(s, h), i + 1)
<1> DEFINE en == s.table[h]
<1> DEFINE s2 == N!OnClosed(s, h)
<1> DEFINE en2 == [en EXCEPT !.gone = TRUE]
<1> DEFINE t2 == [s.table EXCEPT ![h] = en2]
<1> DEFINE d2 == s.ended \cup {n \in {en.owner} : en.vital}
<1> DEFINE q == IF en.queue THEN << <<en.owner, <<h, 0>>>> >> ELSE <<>>
<1>1. /\ s = [table |-> s.table, next |-> s.next, pushes |-> s.pushes, ended |-> s.ended, close |-> s.close]
      /\ Accounted(s.table, s.next, offers, gone, TRUE) /\ Shown(s.table, offers)
      /\ NetFine(s.table, s.next, s.pushes, s.close, conns, events, i)
      /\ Tells(table, ended, s.table, s.ended)
  BY DEF Sweeping
<1>2. s.next \in Nat /\ h \in Nat /\ h < s.next
  BY <1>1, BelowNext
<1>3. EntryFine(en, conns) /\ en \in NetEntry /\ s.pushes \in Seq(NetPush)
  BY <1>1, AtEntry
<1>4. conns \in Seq(NetConn) /\ events \in Seq(NetEvent) /\ conns[events[i + 1].key].st = "down"
  BY EventRead
<1>5. s2 = [table |-> t2, next |-> s.next, pushes |-> s.pushes \o q, ended |-> d2, close |-> s.close]
  BY <1>1, ClosedIs
<1>6. q \in Seq(NetPush) /\ \A b \in 1..Len(q) : q[b][2][1] < s.next /\ q[b][2][2] = 0
  <2>1. en.owner \in Inst
    BY <1>3 DEF NetEntry
  <2>2. q = << <<en.owner, <<h, 0>>>> >> \/ q = <<>>
    OBVIOUS
  <2> HIDE DEF q
  <2> QED
    BY <1>2, <2>1, <2>2, NoticeAlone
<1>7. NetFine(t2, s.next, s.pushes \o q, s.close, conns, events, i + 1)
  <2>1. s.close \subseteq s.close /\ events[i + 1].kind # "accepted" /\ conns[en.key].st = "down"
    BY <1>4
  <2> HIDE DEF q
  <2> QED
    BY <1>1, <1>2, <1>4, <1>6, <2>1, EntryOver
<1>8. en2.owner = en.owner /\ en2.vital = en.vital /\ en2.waiting = en.waiting
  BY <1>3 DEF NetEntry
<1>9. s.ended \subseteq d2 /\ (en.vital => en.owner \in d2)
  OBVIOUS
<1>10. Accounted(t2, s.next, offers, gone, TRUE) /\ Shown(t2, offers) /\ Tells(table, ended, t2, d2)
  <2> HIDE DEF en2, d2
  <2> QED
    BY <1>8, <1>9, SweptEntry
<1> HIDE DEF s2, t2, d2, q
<1>11. s2.table = t2 /\ s2.next = s.next /\ s2.pushes = s.pushes \o q /\ s2.ended = d2 /\ s2.close = s.close
  BY <1>5
<1> QED
  BY <1>5, <1>7, <1>10, <1>11 DEF Sweeping, s2

\* An arrival: refused, or a new entry.
LEMMA ArrivalRead ==
    ASSUME TransportFine(conns, events), NEW i \in Nat, i + 1 \in 1..Len(events), NEW s, Sweeping(s, i),
           NEW l \in DOMAIN s.table, events[i + 1].kind = "accepted"
    PROVE  Sweeping(N!OnAccepted(s, l, events[i + 1].key), i + 1)
<1> DEFINE en == s.table[l]
<1> DEFINE key == events[i + 1].key
<1> DEFINE s2 == N!OnAccepted(s, l, key)
<1>1. /\ s = [table |-> s.table, next |-> s.next, pushes |-> s.pushes, ended |-> s.ended, close |-> s.close]
      /\ Accounted(s.table, s.next, offers, gone, TRUE) /\ Shown(s.table, offers)
      /\ NetFine(s.table, s.next, s.pushes, s.close, conns, events, i)
      /\ Tells(table, ended, s.table, s.ended)
  BY DEF Sweeping
<1>2. s.next \in Nat /\ l \in Nat /\ l < s.next /\ DOMAIN s.table \subseteq 1..(s.next - 1)
  BY <1>1, BelowNext
<1>3. EntryFine(en, conns) /\ en \in NetEntry /\ s.pushes \in Seq(NetPush)
  BY <1>1, AtEntry
<1>4. conns \in Seq(NetConn) /\ key \in 1..Len(conns)
  BY EventRead
<1> DEFINE full == NoRoom(s.table, l)
<1> DEFINE first == N!NewEntry(en.owner, key, FALSE, FALSE, en.queue)
<1> DEFINE w == IF en.queue THEN 0 ELSE l
<1> DEFINE new == Arrived(s.table, l, key)
<1> DEFINE q == IF en.queue THEN << <<en.owner, <<l, 0>>>> >> ELSE <<>>
<1>5. /\ full => s2 = [table |-> s.table, next |-> s.next, pushes |-> s.pushes, ended |-> s.ended,
                        close |-> s.close \cup {key}]
      /\ ~full => s2 = [table |-> With(s.table, s.next, new), next |-> s.next + 1, pushes |-> s.pushes \o q,
                         ended |-> s.ended, close |-> s.close]
  <2>1. Carries(s, s.table, s.next, s.pushes, s.ended, s.close)
    BY <1>1 DEF Carries
  <2>2. /\ full => Carries(s2, s.table, s.next, s.pushes, s.ended, s.close \cup {key})
        /\ ~full => Carries(s2, With(s.table, s.next, new), s.next + 1, s.pushes \o q, s.ended, s.close)
    BY <2>1, AcceptedIs
  <2> HIDE DEF s2, full, new, q, key
  <2> QED
    BY <2>2 DEF Carries
<1>6. CASE full
  <2>1. s2 = [table |-> s.table, next |-> s.next, pushes |-> s.pushes, ended |-> s.ended, close |-> s.close \cup {key}]
    BY <1>5, <1>6
  <2>2. NetFine(s.table, s.next, s.pushes, s.close \cup {key}, conns, events, i + 1)
    <3>1. s.close \subseteq s.close \cup {key} /\ key \in s.close \cup {key}
      OBVIOUS
    <3> QED
      BY <1>1, <3>1, ReadNothing
  <2> HIDE DEF s2
  <2>3. s2.table = s.table /\ s2.next = s.next /\ s2.pushes = s.pushes /\ s2.ended = s.ended /\ s2.close = s.close \cup {key}
    BY <2>1
  <2> QED
    BY <1>1, <2>1, <2>2, <2>3 DEF Sweeping, s2
<1>7. CASE ~full
  <2> DEFINE t2 == With(s.table, s.next, new)
  <2>1. s2 = [table |-> t2, next |-> s.next + 1, pushes |-> s.pushes \o q, ended |-> s.ended, close |-> s.close]
    BY <1>5, <1>7
  <2>2. q \in Seq(NetPush) /\ \A b \in 1..Len(q) : q[b][2][1] < s.next /\ q[b][2][2] = 0
    <3>1. en.owner \in Inst
      BY <1>3 DEF NetEntry
    <3>2. q = << <<en.owner, <<l, 0>>>> >> \/ q = <<>>
      OBVIOUS
    <3> HIDE DEF q
    <3> QED
      BY <1>2, <3>1, <3>2, NoticeAlone
  <2>3. new \in NetEntry /\ new.owner = en.owner /\ new.key = key /\ new.inbound = <<>> /\ new.conn /\ ~new.gone /\ ~new.vital
    <3>1. en.owner \in Inst /\ en.queue \in BOOLEAN /\ key \in Nat /\ <<>> \in Seq(Nat \ {0}) /\ 0 \in Nat /\ FALSE \in BOOLEAN
      BY <1>3, <1>4 DEF NetEntry
    <3>2. w \in Nat
      BY <1>2
    <3>3. first = [owner |-> en.owner, key |-> key, conn |-> FALSE, listener |-> FALSE, queue |-> en.queue,
                   vital |-> FALSE, inbound |-> <<>>, waiting |-> 0, gone |-> FALSE]
      BY DEF N!NewEntry
    <3> HIDE DEF first, key, w
    <3>4. /\ first \in NetEntry /\ first.owner = en.owner /\ first.key = key /\ first.inbound = <<>>
          /\ first.gone = FALSE /\ first.vital = FALSE
      BY <3>1, <3>3 DEF NetEntry
    <3> DEFINE up == [first EXCEPT !.conn = TRUE]
    <3>6. new = [up EXCEPT !.waiting = w]
      BY DEF Arrived, first, w
    <3>7. /\ up \in NetEntry /\ up.owner = en.owner /\ up.key = key /\ up.inbound = <<>> /\ up.gone = FALSE
          /\ up.vital = FALSE /\ up.conn
      BY <3>4 DEF NetEntry
    <3> HIDE DEF up, new
    <3> QED
      BY <3>2, <3>6, <3>7 DEF NetEntry
  <2>5. NetFine(t2, s.next + 1, s.pushes \o q, s.close, conns, events, i + 1)
    BY <1>1, <1>2, <2>2, <2>3, AcceptedTaken
  <2>6. Accounted(t2, s.next + 1, offers, gone, TRUE)
    <3>1. en.owner \in Inst \ gone
      BY <1>1 DEF Accounted
    <3> QED
      BY <1>1, <2>3, <3>1, InsertAccounted
  <2>7. s.next \notin DOMAIN s.table
    BY <1>2
  <2>8. DOMAIN t2 = DOMAIN s.table \cup {s.next} /\ \A h \in DOMAIN s.table : t2[h] = s.table[h]
    BY <2>7 DEF With
  <2> HIDE DEF t2
  <2>9. Shown(t2, offers)
    <3>1. \A j \in 1..Len(offers) : offers[j][3] # s.next
      <4> SUFFICES ASSUME NEW j \in 1..Len(offers)
                   PROVE  offers[j][3] # s.next
        OBVIOUS
      <4>1. offers[j] \in Inst \X Inst \X (1..(s.next - 1))
        BY <1>1 DEF Accounted
      <4> QED
        BY <4>1, <1>2
    <3> QED
      BY <1>1, <2>8, <3>1 DEF Shown
  <2>10. Tells(table, ended, t2, s.ended)
    BY <1>1, <2>8 DEF Tells
  <2> HIDE DEF s2
  <2>11. s2.table = t2 /\ s2.next = s.next + 1 /\ s2.pushes = s.pushes \o q /\ s2.ended = s.ended /\ s2.close = s.close
    BY <2>1
  <2> QED
    BY <2>1, <2>5, <2>6, <2>9, <2>10, <2>11 DEF Sweeping, s2
<1> QED
  BY <1>6, <1>7

\* Any event, whoever it is for.
LEMMA EventStep ==
    ASSUME TransportFine(conns, events), NEW i \in Nat, i + 1 \in 1..Len(events), NEW s, Sweeping(s, i)
    PROVE  Sweeping(N!OnEvent(s, events[i + 1]), i + 1)
<1> DEFINE ev == events[i + 1]
<1> DEFINE to == N!For(s, IF ev.kind = "accepted" THEN ev.on ELSE ev.key)
<1> DEFINE s2 == N!OnEvent(s, ev)
<1>1. /\ s = [table |-> s.table, next |-> s.next, pushes |-> s.pushes, ended |-> s.ended, close |-> s.close]
      /\ Accounted(s.table, s.next, offers, gone, TRUE) /\ Shown(s.table, offers)
      /\ NetFine(s.table, s.next, s.pushes, s.close, conns, events, i)
      /\ Tells(table, ended, s.table, s.ended)
  BY DEF Sweeping
<1>2. ev.kind \in {"data", "closed", "accepted"}
  BY EventRead
<1>3. CASE to = {}
  <2> DEFINE cl2 == s.close \cup {k \in {ev.key} : ev.kind = "accepted"}
  <2>1. s2 = [table |-> s.table, next |-> s.next, pushes |-> s.pushes, ended |-> s.ended, close |-> cl2]
    BY <1>1, <1>3 DEF N!OnEvent
  <2>2. NetFine(s.table, s.next, s.pushes, cl2, conns, events, i + 1)
    <3>1. s.close \subseteq cl2 /\ (ev.kind = "accepted" => ev.key \in cl2)
      OBVIOUS
    <3> HIDE DEF cl2
    <3> QED
      BY <1>1, <3>1, ReadNothing
  <2> HIDE DEF s2, cl2
  <2>3. s2.table = s.table /\ s2.next = s.next /\ s2.pushes = s.pushes /\ s2.ended = s.ended /\ s2.close = cl2
    BY <2>1
  <2>4. Sweeping(s2, i + 1)
    BY <1>1, <2>1, <2>2, <2>3 DEF Sweeping
  <2> QED
    BY <2>4 DEF s2
<1>4. CASE to # {}
  <2> DEFINE h == CHOOSE k \in to : TRUE
  <2>1. h \in to
    BY <1>4
  <2>2. h \in DOMAIN s.table /\ ~s.table[h].gone /\ (ev.kind # "accepted" => ev.key = s.table[h].key)
    BY <2>1 DEF N!For
  <2>3. s2 = CASE ev.kind = "data"     -> N!OnData(s, h, ev.data)
               [] ev.kind = "closed"   -> N!OnClosed(s, h)
               [] ev.kind = "accepted" -> N!OnAccepted(s, h, ev.key)
    BY <1>4 DEF N!OnEvent
  <2> HIDE DEF h, to, s2
  <2>4. CASE ev.kind = "data"
    <3>1. s2 = N!OnData(s, h, ev.data)
      BY <2>3, <2>4
    <3> QED
      BY <2>2, <2>4, <3>1, DataRead DEF s2
  <2>5. CASE ev.kind = "closed"
    <3>1. s2 = N!OnClosed(s, h)
      BY <2>3, <2>5
    <3> QED
      BY <2>2, <2>5, <3>1, ClosedRead DEF s2
  <2>6. CASE ev.kind = "accepted"
    <3>1. s2 = N!OnAccepted(s, h, ev.key)
      BY <2>3, <2>6
    <3> QED
      BY <2>2, <2>6, <3>1, ArrivalRead DEF s2
  <2> QED
    BY <1>2, <2>4, <2>5, <2>6
<1> QED
  BY <1>3, <1>4

\* A whole sweep, by induction over the events it reads.
LEMMA SweepFine ==
    ASSUME NetInv
    PROVE  Sweeping(N!Sweep, Len(events))
<1>1. TransportFine(conns, events) /\ events \in Seq(NetEvent) /\ Len(events) \in Nat
  BY DEF NetInv, TransportFine
<1>2. PICK f : /\ N!Sweep = f[Len(events)]
               /\ f = [i \in 0..Len(events) |-> IF i = 0 THEN N!Swept0 ELSE N!OnEvent(f[i - 1], events[i])]
  BY <1>1, SweepUnfolds
<1>3. f[0] = N!Swept0
  <2>1. 0 \in 0..Len(events)
    BY <1>1
  <2>2. f[0] = IF 0 = 0 THEN N!Swept0 ELSE N!OnEvent(f[0 - 1], events[0])
    BY <1>2, <2>1, Zenon
  <2> QED
    BY <2>2
<1>4. ASSUME NEW n \in Nat, n + 1 <= Len(events)
      PROVE  f[n + 1] = N!OnEvent(f[n], events[n + 1])
  <2>1. n + 1 \in 0..Len(events) /\ n + 1 # 0 /\ (n + 1) - 1 = n
    BY <1>1, <1>4
  <2>2. f[n + 1] = IF n + 1 = 0 THEN N!Swept0 ELSE N!OnEvent(f[(n + 1) - 1], events[n + 1])
    BY <1>2, <2>1, Zenon
  <2> QED
    BY <2>1, <2>2
<1> DEFINE T == {n \in Nat : n <= Len(events) => Sweeping(f[n], n)}
<1>5. 0 \in T
  <2> DEFINE s == N!Swept0
  <2>1. s = [table |-> table, next |-> next, pushes |-> pushes, ended |-> ended, close |-> {}]
    BY DEF N!Swept0
  <2> HIDE DEF s
  <2>2. s.table = table /\ s.next = next /\ s.pushes = pushes /\ s.ended = ended /\ s.close = {}
    BY <2>1
  <2>3. Tells(table, ended, table, ended)
    BY DEF Tells
  <2>4. Sweeping(s, 0)
    BY <2>1, <2>2, <2>3 DEF Sweeping, NetInv
  <2> QED
    BY <2>4, <1>3 DEF s
<1>6. ASSUME NEW n \in T
      PROVE  n + 1 \in T
  <2>1. n \in Nat /\ n + 1 \in Nat
    OBVIOUS
  <2> SUFFICES ASSUME n + 1 <= Len(events)
               PROVE  Sweeping(f[n + 1], n + 1)
    BY <2>1
  <2>2. Sweeping(f[n], n) /\ n + 1 \in 1..Len(events)
    BY <1>1, <2>1
  <2>3. Sweeping(N!OnEvent(f[n], events[n + 1]), n + 1)
    <3> HIDE DEF T
    <3> QED
      BY <1>1, <2>1, <2>2, EventStep
  <2> QED
    BY <1>4, <2>1, <2>3
<1>7. \A n \in Nat : n \in T
  <2>1. T \in SUBSET Nat
    OBVIOUS
  <2> HIDE DEF T
  <2> QED
    BY <1>5, <1>6, <2>1, Induction
<1> QED
  BY <1>1, <1>2, <1>7

\* The transport with the connections of K down.
Fallen(c, c2, K) ==
    /\ c2 \in Seq(NetConn) /\ Len(c2) = Len(c)
    /\ \A k \in 1..Len(c) :
          /\ c2[k].sent = c[k].sent /\ c2[k].asker \subseteq c[k].asker
          /\ IF k \in K THEN c2[k].st = "down" ELSE c2[k].st = c[k].st /\ c2[k].asker = c[k].asker

\* Its side stays as it has to be, with its reports read or not.
LEMMA FallenTransport ==
    ASSUME NEW c, NEW e, TransportFine(c, e), NEW K, NEW c2, Fallen(c, c2, K)
    PROVE  TransportFine(c2, e) /\ TransportFine(c2, <<>>)
<1>1. /\ c \in Seq(NetConn) /\ e \in Seq(NetEvent) /\ c2 \in Seq(NetConn) /\ Len(c2) = Len(c)
      /\ \A k \in 1..Len(c) : c[k] \in NetConn /\ c2[k] \in NetConn
  BY DEF TransportFine, Fallen
<1>2. ASSUME NEW k \in 1..Len(c2)
      PROVE  /\ c2[k].st = "opening" => c2[k].asker # {}
             /\ c2[k].asker # {} => c2[k].sent <= Early
  <2>1. /\ c[k].st = "opening" => c[k].asker # {}
        /\ c[k].asker # {} => c[k].sent <= Early
    BY <1>1 DEF TransportFine
  <2>2. /\ c2[k].sent = c[k].sent /\ c2[k].asker \subseteq c[k].asker
        /\ IF k \in K THEN c2[k].st = "down" ELSE c2[k].st = c[k].st /\ c2[k].asker = c[k].asker
    BY <1>1 DEF Fallen
  <2> QED
    BY <2>1, <2>2
<1>3. ASSUME NEW j \in 1..Len(e)
      PROVE  EventFine(e[j], c2)
  <2>1. EventFine(e[j], c)
    BY DEF TransportFine
  <2>2. e[j].key \in 1..Len(c)
    BY <2>1 DEF EventFine
  <2>3. /\ c2[e[j].key].sent = c[e[j].key].sent /\ c2[e[j].key].asker \subseteq c[e[j].key].asker
        /\ c[e[j].key].st = "down" => c2[e[j].key].st = "down"
    BY <2>2 DEF Fallen
  <2> QED
    BY <1>1, <2>1, <2>3 DEF EventFine
<1>4. \A i, j \in 1..Len(e) : i < j => Ordered(e[i], e[j])
  BY DEF TransportFine
<1>5. TransportFine(c2, e)
  BY <1>1, <1>2, <1>3, <1>4 DEF TransportFine
<1>6. <<>> \in Seq(NetEvent) /\ Len(<<>>) = 0
  OBVIOUS
<1>7. \A i \in 1..Len(<<>>) : FALSE
  OBVIOUS
<1>8. TransportFine(c2, <<>>)
  BY <1>1, <1>2, <1>6, <1>7 DEF TransportFine
<1> QED
  BY <1>5, <1>8

\* The entries of hs are taken out of the table, and the connections of
\* those that are not over, and all that are to be closed, go down.
LEMMA FallenFine ==
    ASSUME NEW t, NEW nx, NEW p, NEW cl, NEW c, NEW e, NEW i, NetFine(t, nx, p, cl, c, e, i),
           NEW K, NEW c2, Fallen(c, c2, K), cl \subseteq K, NEW hs,
           \A h \in DOMAIN t : h \in hs /\ ~t[h].gone /\ t[h].conn => t[h].key \in K
    PROVE  NetFine(Kept(t, hs), nx, p, {}, c2, e, i)
<1> DEFINE t2 == Kept(t, hs)
<1>1. DOMAIN t2 = DOMAIN t \ hs /\ \A h \in DOMAIN t2 : t2[h] = t[h]
  BY DEF Kept
<1> HIDE DEF t2
<1>2. TableFine(t, c) /\ Fresh(t, e, i) /\ Lines(t, nx, p, c, e, i) /\ Reached(t, cl, c, e, i)
  BY DEF NetFine
<1>3. Len(c2) = Len(c)
  BY DEF Fallen
<1>4. ASSUME NEW h \in DOMAIN t
      PROVE  EntryFine(t[h], c2) /\ c2[t[h].key].sent = c[t[h].key].sent
  <2>1. EntryFine(t[h], c)
    BY <1>2 DEF TableFine
  <2>2. t[h].key \in 1..Len(c)
    BY <2>1 DEF EntryFine
  <2>3. /\ c2[t[h].key].sent = c[t[h].key].sent /\ c2[t[h].key].asker \subseteq c[t[h].key].asker
        /\ IF t[h].key \in K THEN c2[t[h].key].st = "down"
           ELSE c2[t[h].key].st = c[t[h].key].st /\ c2[t[h].key].asker = c[t[h].key].asker
    BY <2>2 DEF Fallen
  <2> QED
    BY <1>3, <2>1, <2>3 DEF EntryFine
<1>5. TableFine(t2, c2)
  BY <1>1, <1>2, <1>4 DEF TableFine
<1>6. Fresh(t2, e, i)
  BY <1>1, <1>2 DEF Fresh
<1>7. Lines(t2, nx, p, c2, e, i)
  <2>1. p \in Seq(NetPush) /\ \A a \in 1..Len(p) : p[a][2][1] < nx
    BY <1>2 DEF Lines
  <2>2. ASSUME NEW h \in DOMAIN t2
        PROVE  Line(t2[h], h, p, c2[t2[h].key].sent, e, i)
    <3>1. h \in DOMAIN t /\ t2[h] = t[h] /\ c2[t[h].key].sent = c[t[h].key].sent
      BY <1>1, <1>4
    <3>2. Line(t[h], h, p, c[t[h].key].sent, e, i)
      BY <1>2, <3>1 DEF Lines
    <3> QED
      BY <3>1, <3>2
  <2> QED
    BY <2>1, <2>2 DEF Lines
<1>8. Reached(t2, {}, c2, e, i)
  <2> SUFFICES ASSUME NEW k \in 1..Len(c2), Settled, c2[k].st = "up"
               PROVE  \/ k \in {}
                      \/ c2[k].asker # {}
                      \/ \E h \in DOMAIN t2 : t2[h].key = k /\ ~t2[h].gone
                      \/ \E j \in (i + 1)..Len(e) : e[j].kind = "accepted" /\ e[j].key = k
    BY DEF Reached
  <2>1. k \in 1..Len(c) /\ k \notin K /\ c[k].st = "up" /\ c2[k].asker = c[k].asker
    BY <1>3 DEF Fallen
  <2>2. \/ c[k].asker # {}
        \/ \E h \in DOMAIN t : t[h].key = k /\ ~t[h].gone
        \/ \E j \in (i + 1)..Len(e) : e[j].kind = "accepted" /\ e[j].key = k
    BY <1>2, <2>1 DEF Reached
  <2>3. CASE \E h \in DOMAIN t : t[h].key = k /\ ~t[h].gone
    <3>1. PICK h \in DOMAIN t : t[h].key = k /\ ~t[h].gone
      BY <2>3
    <3>2. CASE h \in hs
      <4>1. ~t[h].conn
        BY <2>1, <3>1, <3>2
      <4>2. EntryFine(t[h], c)
        BY <1>2 DEF TableFine
      <4> QED
        BY <2>1, <3>1, <4>1, <4>2 DEF EntryFine
    <3>3. CASE h \notin hs
      <4>1. h \in DOMAIN t2 /\ t2[h].key = k /\ ~t2[h].gone
        BY <1>1, <3>1, <3>3
      <4> QED
        BY <4>1
    <3> QED
      BY <3>2, <3>3
  <2> QED
    BY <2>1, <2>2, <2>3
<1> QED
  BY <1>5, <1>6, <1>7, <1>8 DEF NetFine, t2

\* The events are all read and gone.
LEMMA AllRead ==
    ASSUME NEW t, NEW nx, NEW p, NEW cl, NEW c, NEW e \in Seq(NetEvent), NetFine(t, nx, p, cl, c, e, Len(e))
    PROVE  NetFine(t, nx, p, cl, c, <<>>, 0)
<1> DEFINE none == <<>>
<1>1. \A j \in (Len(e) + 1)..Len(e) : FALSE
  OBVIOUS
<1>2. \A j \in (0 + 1)..Len(none) : FALSE
  OBVIOUS
<1> HIDE DEF none
<1>3. TableFine(t, c) /\ Fresh(t, e, Len(e)) /\ Lines(t, nx, p, c, e, Len(e)) /\ Reached(t, cl, c, e, Len(e))
  BY DEF NetFine
<1>4. Fresh(t, none, 0)
  BY <1>2 DEF Fresh
<1>5. Lines(t, nx, p, c, none, 0)
  <2>1. \A h \in DOMAIN t : Line(t[h], h, p, c[t[h].key].sent, none, 0)
    <3> SUFFICES ASSUME NEW h \in DOMAIN t
                 PROVE  Line(t[h], h, p, c[t[h].key].sent, none, 0)
      OBVIOUS
    <3>1. Line(t[h], h, p, c[t[h].key].sent, e, Len(e))
      BY <1>3 DEF Lines
    <3> QED
      BY <3>1, <1>2 DEF Line
  <2> QED
    BY <1>3, <2>1 DEF Lines
<1>6. Reached(t, cl, c, none, 0)
  BY <1>1, <1>3 DEF Reached
<1> QED
  BY <1>3, <1>4, <1>5, <1>6 DEF NetFine, none

\* The pushes are said and gone.
LEMMA AllSaid ==
    ASSUME NEW t, NEW nx, NEW p, NEW cl, NEW c, NEW e, NEW i, NetFine(t, nx, p, cl, c, e, i)
    PROVE  NetFine(t, nx, <<>>, cl, c, e, i)
<1> DEFINE none == <<>>
<1>1. none \in Seq(NetPush) /\ \A a \in 1..Len(none) : FALSE
  OBVIOUS
<1> HIDE DEF none
<1>2. TableFine(t, c) /\ Fresh(t, e, i) /\ Lines(t, nx, p, c, e, i) /\ Reached(t, cl, c, e, i)
  BY DEF NetFine
<1>3. \A h \in DOMAIN t : Line(t[h], h, none, c[t[h].key].sent, e, i)
  <2> SUFFICES ASSUME NEW h \in DOMAIN t
               PROVE  Line(t[h], h, none, c[t[h].key].sent, e, i)
    OBVIOUS
  <2>1. Line(t[h], h, p, c[t[h].key].sent, e, i)
    BY <1>2 DEF Lines
  <2> QED
    BY <2>1, <1>1 DEF Line
<1>4. Lines(t, nx, none, c, e, i)
  BY <1>1, <1>3 DEF Lines
<1> QED
  BY <1>2, <1>4 DEF NetFine, none

\* What Down does to the transport.
LEMMA DownFalls ==
    ASSUME conns \in Seq(NetConn), NEW K
    PROVE  Fallen(conns, N!Down(K), K)
<1>1. \A k \in 1..Len(conns) : conns[k] \in NetConn
  OBVIOUS
<1> DEFINE c2 == N!Down(K)
<1>2. DOMAIN conns = 1..Len(conns) /\ Len(conns) \in Nat
  OBVIOUS
<1>3. c2 = [k \in 1..Len(conns) |-> IF k \in K THEN [conns[k] EXCEPT !.st = "down"] ELSE conns[k]]
  BY <1>2 DEF N!Down
<1>4. \A k \in 1..Len(conns) :
          /\ c2[k] \in NetConn /\ c2[k].sent = conns[k].sent /\ c2[k].asker = conns[k].asker
          /\ IF k \in K THEN c2[k].st = "down" ELSE c2[k].st = conns[k].st
  <2> SUFFICES ASSUME NEW k \in 1..Len(conns)
               PROVE  /\ c2[k] \in NetConn /\ c2[k].sent = conns[k].sent /\ c2[k].asker = conns[k].asker
                      /\ IF k \in K THEN c2[k].st = "down" ELSE c2[k].st = conns[k].st
    OBVIOUS
  <2>1. c2[k] = IF k \in K THEN [conns[k] EXCEPT !.st = "down"] ELSE conns[k]
    BY <1>3
  <2> HIDE DEF c2
  <2> QED
    BY <1>1, <2>1 DEF NetConn
<1>5. c2 \in Seq(NetConn) /\ Len(c2) = Len(conns)
  BY <1>2, <1>3, <1>4
<1> HIDE DEF c2
<1> QED
  BY <1>4, <1>5 DEF Fallen, c2

\* What a sweep and the step after it leave of the vital handles.
LEMMA VitalTold ==
    ASSUME NEW s, Tells(table, ended, s.table, s.ended), s.ended \subseteq gone' \cup ended',
           \A h \in DOMAIN s.table : IF h \in DOMAIN table' THEN table'[h].gone = s.table[h].gone
                                     ELSE s.table[h].owner \in gone' \cup ended'
    PROVE  NetVital
<1> SUFFICES ASSUME NEW h \in DOMAIN table, table[h].vital,
                    h \notin DOMAIN table' \/ (~table[h].gone /\ table'[h].gone /\ table'[h].owner = table[h].owner)
             PROVE  table[h].owner \in gone' \cup ended'
  BY DEF NetVital
<1>1. /\ h \in DOMAIN s.table /\ s.table[h].owner = table[h].owner
      /\ table[h].vital /\ ~table[h].gone /\ s.table[h].gone => table[h].owner \in s.ended
  BY DEF Tells
<1> QED
  BY <1>1

\* The offers that are left name handles that are shown.
LEMMA ShownOnly ==
    ASSUME NEW t, NEW X, NEW o \in Seq(X), Shown(t, o), NEW at \in SUBSET (1..Len(o)),
           NEW t2, DOMAIN t2 \subseteq DOMAIN t, \A h \in DOMAIN t2 : t2[h].waiting = t[h].waiting \/ t2[h].waiting = 0
    PROVE  Shown(t2, Only(o, at))
<1> DEFINE r == Only(o, at)
<1>1. r \in Seq(X) /\ \E g : Picked(o, at, r, g)
  BY OnlyPicks
<1> HIDE DEF r
<1>2. PICK g : Picked(o, at, r, g)
  BY <1>1
<1>3. \A i \in 1..Len(r) : g[i] \in 1..Len(o) /\ r[i] = o[g[i]]
  BY <1>2 DEF Picked
<1>4. Shown(t2, r)
  BY <1>3 DEF Shown
<1> QED
  BY <1>4 DEF r

\* A sweep followed by a step that reads all the events and closes what is
\* to be closed, and the handles of hs with it.
LEMMA Rested ==
    ASSUME NetInv, NEW s, s = N!Sweep, NEW K, s.close \subseteq K, NEW c2, Fallen(conns, c2, K), NEW hs,
           \A h \in DOMAIN s.table : h \in hs /\ ~s.table[h].gone /\ s.table[h].conn => s.table[h].key \in K
    PROVE  /\ TransportFine(c2, <<>>) /\ NetFine(Kept(s.table, hs), s.next, s.pushes, {}, c2, <<>>, 0)
           /\ Accounted(s.table, s.next, offers, gone, TRUE) /\ Shown(s.table, offers)
           /\ Tells(table, ended, s.table, s.ended)
<1>1. Sweeping(s, Len(events))
  BY SweepFine
<1>2. /\ Accounted(s.table, s.next, offers, gone, TRUE) /\ Shown(s.table, offers)
      /\ NetFine(s.table, s.next, s.pushes, s.close, conns, events, Len(events))
      /\ Tells(table, ended, s.table, s.ended)
  BY <1>1 DEF Sweeping
<1>3. TransportFine(conns, events) /\ events \in Seq(NetEvent)
  BY DEF NetInv, TransportFine
<1>4. TransportFine(c2, <<>>)
  BY <1>3, FallenTransport
<1>5. NetFine(Kept(s.table, hs), s.next, s.pushes, {}, c2, events, Len(events))
  BY <1>2, FallenFine
<1>6. NetFine(Kept(s.table, hs), s.next, s.pushes, {}, c2, <<>>, 0)
  BY <1>3, <1>5, AllRead
<1> QED
  BY <1>2, <1>4, <1>6

\* Instances are released, after a sweep or without one: s is what the
\* release starts from, with the first i of the events read.
LEMMA NetReleased ==
    ASSUME TransportFine(conns, events), NEW s, NEW p, NEW i, NetFine(s.table, s.next, p, s.close, conns, events, i),
           Accounted(s.table, s.next, offers, gone, TRUE), Shown(s.table, offers),
           NEW dead, N!ReleaseNet(s, dead), gone' = gone \cup dead
    PROVE  /\ NetFine(table', next', p, {}, conns', events, i)
           /\ TransportFine(conns', events) /\ TransportFine(conns', <<>>)
           /\ Accounted(table', next', offers', gone', TRUE) /\ Shown(table', offers')
           /\ \A h \in DOMAIN s.table : IF h \in DOMAIN table' THEN table'[h] = s.table[h] ELSE s.table[h].owner \in dead
<1> DEFINE hs == {h \in DOMAIN s.table : s.table[h].owner \in dead}
<1> DEFINE at == {k \in DOMAIN offers : offers[k][1] \notin dead /\ offers[k][2] \notin dead}
<1> DEFINE K == s.close \cup N!Cut(s.table, hs)
<1>1. /\ table' = Kept(s.table, hs) /\ next' = s.next /\ offers' = Only(offers, at)
      /\ conns' = N!Down(K)
  BY SameOperators DEF N!ReleaseNet, N!Living, Kept
<1>2. s.close \subseteq K
  OBVIOUS
<1>3. \A h \in DOMAIN s.table : h \in hs /\ ~s.table[h].gone /\ s.table[h].conn => s.table[h].key \in K
  BY DEF N!Cut
<1>4. conns \in Seq(NetConn) /\ offers \in Seq(Inst \X Inst \X (1..(s.next - 1)))
  BY DEF TransportFine, Accounted
<1> HIDE DEF K
<1>5. Fallen(conns, conns', K)
  BY <1>1, <1>4, DownFalls
<1>6. TransportFine(conns', events) /\ TransportFine(conns', <<>>)
  BY <1>5, FallenTransport
<1>7. NetFine(table', next', p, {}, conns', events, i)
  <2>1. NetFine(Kept(s.table, hs), s.next, p, {}, conns', events, i)
    BY <1>2, <1>3, <1>5, FallenFine
  <2> QED
    BY <1>1, <2>1
<1>8. Accounted(table', next', offers', gone', TRUE)
  <2>1. hs = {h \in DOMAIN s.table : s.table[h].owner \in dead}
    OBVIOUS
  <2>2. at = {k \in DOMAIN offers : offers[k][1] \notin dead /\ offers[k][2] \notin dead}
    OBVIOUS
  <2> HIDE DEF hs, at
  <2>3. Accounted(Kept(s.table, hs), s.next, Only(offers, at), gone \cup dead, TRUE)
    BY <2>1, <2>2, ReleaseAccounted
  <2> QED
    BY <1>1, <2>3
<1>9. \A h \in DOMAIN s.table : IF h \in DOMAIN table' THEN table'[h] = s.table[h] ELSE s.table[h].owner \in dead
  BY <1>1 DEF Kept
<1>10. DOMAIN table' \subseteq DOMAIN s.table
  BY <1>1 DEF Kept
<1>11. Shown(table', offers')
  <2>1. at \in SUBSET (1..Len(offers))
    BY <1>4
  <2> HIDE DEF at
  <2>2. \A h \in DOMAIN table' : table'[h].waiting = s.table[h].waiting \/ table'[h].waiting = 0
    BY <1>9, <1>10
  <2>3. Shown(table', Only(offers, at))
    BY <1>4, <1>10, <2>1, <2>2, ShownOnly
  <2> QED
    BY <1>1, <2>3
<1> QED
  BY <1>6, <1>7, <1>8, <1>9, <1>11

\* The ask for who has to end.
LEMMA NetEnded ==
    ASSUME NetInv, N!Ended
    PROVE  NetInv' /\ NetVital
<1> DEFINE s == N!Sweep
<1>1. /\ gone' = gone \cup s.ended /\ N!ReleaseNet(s, s.ended)
      /\ pushes' = s.pushes /\ ended' = {} /\ events' = <<>>
  BY DEF N!Ended, N!Doomed
<1>2. TransportFine(conns, events) /\ events \in Seq(NetEvent)
  BY DEF NetInv, TransportFine
<1>3. Sweeping(s, Len(events))
  BY SweepFine
<1> HIDE DEF s
<1>4. /\ Accounted(s.table, s.next, offers, gone, TRUE) /\ Shown(s.table, offers)
      /\ NetFine(s.table, s.next, s.pushes, s.close, conns, events, Len(events))
      /\ Tells(table, ended, s.table, s.ended)
  BY <1>3 DEF Sweeping
<1>5. /\ NetFine(table', next', s.pushes, {}, conns', events, Len(events))
      /\ TransportFine(conns', <<>>)
      /\ Accounted(table', next', offers', gone', TRUE) /\ Shown(table', offers')
      /\ \A h \in DOMAIN s.table : IF h \in DOMAIN table' THEN table'[h] = s.table[h] ELSE s.table[h].owner \in s.ended
  BY <1>1, <1>2, <1>4, NetReleased
<1>6. NetFine(table', next', s.pushes, {}, conns', <<>>, 0)
  BY <1>2, <1>5, AllRead
<1>7. NetInv'
  BY <1>1, <1>5, <1>6 DEF NetInv
<1>8. NetVital
  <2>1. s.ended \subseteq gone' \cup ended'
    BY <1>1
  <2>2. \A h \in DOMAIN s.table : IF h \in DOMAIN table' THEN table'[h].gone = s.table[h].gone
                                  ELSE s.table[h].owner \in gone' \cup ended'
    BY <1>5, <2>1
  <2> QED
    BY <1>4, <2>1, <2>2, VitalTold
<1> QED
  BY <1>7, <1>8

\* An instance dies while the step drives.
LEMMA NetDies ==
    ASSUME NetInv, NEW n \in Inst, N!Released(n)
    PROVE  NetInv' /\ NetVital
<1> DEFINE s == N!Swept0
<1>1. /\ gone' = gone \cup {n} /\ N!ReleaseNet(s, {n}) /\ pushes' = pushes /\ events' = events
      /\ ended' = ended \ {n}
  BY DEF N!Released, N!Dies
<1>2. s.table = table /\ s.next = next /\ s.close = {}
  BY DEF N!Swept0
<1> HIDE DEF s
<1>3. /\ NetFine(s.table, s.next, pushes, s.close, conns, events, 0) /\ TransportFine(conns, events)
      /\ Accounted(s.table, s.next, offers, gone, TRUE) /\ Shown(s.table, offers)
  BY <1>2 DEF NetInv
<1>4. /\ NetFine(table', next', pushes, {}, conns', events, 0) /\ TransportFine(conns', events)
      /\ Accounted(table', next', offers', gone', TRUE) /\ Shown(table', offers')
      /\ \A h \in DOMAIN s.table : IF h \in DOMAIN table' THEN table'[h] = s.table[h] ELSE s.table[h].owner \in {n}
  BY <1>1, <1>3, NetReleased
<1>5. NetInv'
  BY <1>1, <1>4 DEF NetInv
<1>6. NetVital
  BY <1>1, <1>2, <1>4 DEF NetVital
<1> QED
  BY <1>5, <1>6

\* A table none of whose handles go.
LEMMA KeptAll ==
    ASSUME NEW t, NEW nx, NEW p, NEW cl, NEW c, NEW e, NEW i, NetFine(Kept(t, {}), nx, p, cl, c, e, i)
    PROVE  NetFine(t, nx, p, cl, c, e, i)
<1> DEFINE k == Kept(t, {})
<1>1. DOMAIN k = DOMAIN t /\ \A h \in DOMAIN t : k[h] = t[h]
  BY DEF Kept
<1> HIDE DEF k
<1>2. TableFine(k, c) /\ Fresh(k, e, i) /\ Lines(k, nx, p, c, e, i) /\ Reached(k, cl, c, e, i)
  BY DEF NetFine, k
<1>3. TableFine(t, c)
  BY <1>1, <1>2 DEF TableFine
<1>4. Fresh(t, e, i)
  BY <1>1, <1>2 DEF Fresh
<1>5. Lines(t, nx, p, c, e, i)
  BY <1>1, <1>2 DEF Lines
<1>6. Reached(t, cl, c, e, i)
  BY <1>1, <1>2 DEF Reached
<1> QED
  BY <1>3, <1>4, <1>5, <1>6 DEF NetFine

\* A sweep that only closes what it found to close.
LEMMA NetSwept ==
    ASSUME NetInv, NEW s, s = N!Sweep
    PROVE  /\ TransportFine(N!Down(s.close), <<>>)
           /\ NetFine(s.table, s.next, s.pushes, {}, N!Down(s.close), <<>>, 0)
           /\ Accounted(s.table, s.next, offers, gone, TRUE) /\ Shown(s.table, offers)
           /\ Tells(table, ended, s.table, s.ended)
<1> DEFINE c2 == N!Down(s.close)
<1>1. Fallen(conns, c2, s.close)
  BY DownFalls DEF NetInv, TransportFine
<1> HIDE DEF c2
<1> DEFINE hs == {}
<1>2. s.close \subseteq s.close
  OBVIOUS
<1>3. \A h \in DOMAIN s.table : h \in hs /\ ~s.table[h].gone /\ s.table[h].conn => s.table[h].key \in s.close
  OBVIOUS
<1> HIDE DEF hs
<1>4. /\ TransportFine(c2, <<>>) /\ NetFine(Kept(s.table, hs), s.next, s.pushes, {}, c2, <<>>, 0)
      /\ Accounted(s.table, s.next, offers, gone, TRUE) /\ Shown(s.table, offers)
      /\ Tells(table, ended, s.table, s.ended)
  BY <1>1, <1>2, <1>3, Rested
<1>5. NetFine(s.table, s.next, s.pushes, {}, c2, <<>>, 0)
  BY <1>4, KeptAll DEF hs
<1> QED
  BY <1>4, <1>5 DEF c2

\* The ask for notices, and a poll that finds nothing.
LEMMA NetNotices ==
    ASSUME NetInv, N!Notices
    PROVE  NetInv' /\ NetVital
<1> DEFINE s == N!Sweep
<1>1. /\ gone' = gone /\ table' = s.table /\ next' = s.next /\ ended' = s.ended /\ conns' = N!Down(s.close)
      /\ pushes' = <<>> /\ events' = <<>> /\ offers' = offers
  BY DEF N!Notices, N!Told
<1>2. s = N!Sweep
  OBVIOUS
<1> HIDE DEF s
<1>3. /\ TransportFine(conns', <<>>) /\ NetFine(s.table, s.next, s.pushes, {}, conns', <<>>, 0)
      /\ Accounted(s.table, s.next, offers, gone, TRUE) /\ Shown(s.table, offers)
      /\ Tells(table, ended, s.table, s.ended)
  BY <1>1, <1>2, NetSwept
<1>4. NetFine(s.table, s.next, <<>>, {}, conns', <<>>, 0)
  BY <1>3, AllSaid
<1>5. NetInv'
  BY <1>1, <1>3, <1>4 DEF NetInv
<1>6. NetVital
  BY <1>1, <1>3, VitalTold
<1> QED
  BY <1>5, <1>6

\* A poll that finds nothing has swept all the same.
LEMMA NetPolls ==
    ASSUME NetInv, NEW n \in Inst, N!Polls(n)
    PROVE  NetInv' /\ NetVital
<1> DEFINE s == N!Sweep
<1>1. /\ gone' = gone /\ table' = s.table /\ next' = s.next /\ ended' = s.ended /\ conns' = N!Down(s.close)
      /\ pushes' = s.pushes /\ events' = <<>> /\ offers' = offers
  BY DEF N!Polls, N!Calls, N!swarmVars, N!Rest
<1>2. s = N!Sweep
  OBVIOUS
<1> HIDE DEF s
<1>3. /\ TransportFine(conns', <<>>) /\ NetFine(s.table, s.next, s.pushes, {}, conns', <<>>, 0)
      /\ Accounted(s.table, s.next, offers, gone, TRUE) /\ Shown(s.table, offers)
      /\ Tells(table, ended, s.table, s.ended)
  BY <1>1, <1>2, NetSwept
<1>4. NetInv'
  BY <1>1, <1>3 DEF NetInv
<1>5. NetVital
  BY <1>1, <1>3, VitalTold
<1> QED
  BY <1>4, <1>5

\* The transport's side moves on: what it did is done, what it carries was
\* asked for or arrived.
Moved(c, c2) ==
    /\ c2 \in Seq(NetConn) /\ Len(c) <= Len(c2)
    /\ \A k \in 1..Len(c) :
          /\ c[k].sent <= c2[k].sent /\ c2[k].asker = c[k].asker
          /\ c[k].st \in {"refused", "down"} => c2[k].st = c[k].st
    /\ \A k \in 1..Len(c2) : /\ c2[k].st = "opening" => c2[k].asker # {}
                             /\ c2[k].asker # {} => c2[k].sent <= Early

\* It reports one more event, or none.
Reports(c, c2, e, e2) ==
    /\ e2 \in Seq(NetEvent) /\ Len(e2) \in {Len(e), Len(e) + 1} /\ \A j \in 1..Len(e) : e2[j] = e[j]
    /\ \A j \in 1..Len(e2) : j \notin 1..Len(e) =>
          /\ EventFine(e2[j], c2)
          /\ e2[j].kind = "data" => /\ e2[j].key \in 1..Len(c) => c[e2[j].key].sent < e2[j].data
          /\ e2[j].kind = "accepted" => e2[j].key \notin 1..Len(c)
    /\ \A k \in 1..Len(c2) : k \notin 1..Len(c) /\ c2[k].st = "up" =>
          \E j \in 1..Len(e2) : e2[j].kind = "accepted" /\ e2[j].key = k

\* The transport moved and reported: its events stay in order.
LEMMA MovedTransport ==
    ASSUME NEW c, NEW e, TransportFine(c, e), NEW c2, Moved(c, c2), NEW e2, Reports(c, c2, e, e2)
    PROVE  TransportFine(c2, e2)
<1>1. /\ c \in Seq(NetConn) /\ e \in Seq(NetEvent) /\ c2 \in Seq(NetConn) /\ e2 \in Seq(NetEvent)
      /\ Len(c) \in Nat /\ Len(c2) \in Nat /\ Len(c) <= Len(c2) /\ Len(e) \in Nat /\ Len(e2) \in {Len(e), Len(e) + 1}
      /\ \A j \in 1..Len(e) : e2[j] = e[j] /\ e[j] \in NetEvent
  BY DEF TransportFine, Moved, Reports
<1>2. ASSUME NEW k \in 1..Len(c)
      PROVE  /\ k \in 1..Len(c2) /\ c[k] \in NetConn /\ c2[k] \in NetConn
             /\ c[k].sent <= c2[k].sent /\ c2[k].asker = c[k].asker
             /\ c[k].st \in {"refused", "down"} => c2[k].st = c[k].st
  BY <1>1 DEF Moved
<1>3. ASSUME NEW j \in 1..Len(e)
      PROVE  EventFine(e[j], c2)
  <2>1. EventFine(e[j], c)
    BY DEF TransportFine
  <2>2. e[j].key \in 1..Len(c)
    BY <2>1 DEF EventFine
  <2>3. /\ e[j].key \in 1..Len(c2) /\ c[e[j].key].sent \in Nat /\ c2[e[j].key].sent \in Nat
        /\ c[e[j].key].sent <= c2[e[j].key].sent /\ c2[e[j].key].asker = c[e[j].key].asker
        /\ c[e[j].key].st = "down" => c2[e[j].key].st = "down"
    BY <1>2, <2>2 DEF NetConn
  <2>4. e[j].kind = "data" => e[j].data \in Nat
    BY <1>1 DEF NetEvent
  <2> QED
    BY <2>1, <2>3, <2>4 DEF EventFine
<1>4. \A j \in 1..Len(e2) : EventFine(e2[j], c2)
  <2> SUFFICES ASSUME NEW j \in 1..Len(e2)
               PROVE  EventFine(e2[j], c2)
    OBVIOUS
  <2>1. CASE j \in 1..Len(e)
    BY <1>1, <1>3, <2>1
  <2>2. CASE j \notin 1..Len(e)
    BY <2>2 DEF Reports
  <2> QED
    BY <2>1, <2>2
<1>5. \A i, j \in 1..Len(e2) : i < j => Ordered(e2[i], e2[j])
  <2> SUFFICES ASSUME NEW i \in 1..Len(e2), NEW j \in 1..Len(e2), i < j
               PROVE  Ordered(e2[i], e2[j])
    OBVIOUS
  <2>1. i \in 1..Len(e)
    BY <1>1
  <2>2. CASE j \in 1..Len(e)
    <3>1. Ordered(e[i], e[j])
      BY <2>1, <2>2 DEF TransportFine
    <3> QED
      BY <1>1, <2>1, <2>2, <3>1
  <2>3. CASE j \notin 1..Len(e)
    <3>1. EventFine(e[i], c) /\ e2[i] = e[i] /\ e[i] \in NetEvent /\ e2[j] \in NetEvent
      BY <1>1, <2>1 DEF TransportFine
    <3>2. e[i].key \in 1..Len(c) /\ (e[i].kind = "data" => e[i].data \in Nat /\ e[i].data <= c[e[i].key].sent)
      BY <3>1 DEF EventFine, NetEvent
    <3>3. c[e[i].key].sent \in Nat
      <4>1. c[e[i].key] \in NetConn
        BY <1>2, <3>2
      <4> QED
        BY <4>1 DEF NetConn
    <3>4. e2[j].kind = "data" => e2[j].data \in Nat
      BY <3>1 DEF NetEvent
    <3>5. /\ e2[j].kind = "data" => /\ e2[j].key \in 1..Len(c) => c[e2[j].key].sent < e2[j].data
          /\ e2[j].kind = "accepted" => e2[j].key \notin 1..Len(c)
      BY <2>3 DEF Reports
    <3>6. ASSUME e[i].key = e2[j].key
          PROVE  /\ e[i].kind = "data" /\ e2[j].kind = "data" => e[i].data < e2[j].data
                 /\ ~(e[i].kind = "accepted" /\ e2[j].kind = "accepted")
      BY <3>2, <3>3, <3>4, <3>5, <3>6
    <3> QED
      BY <3>1, <3>6 DEF Ordered
  <2> QED
    BY <2>2, <2>3
<1>6. \A k \in 1..Len(c2) : /\ c2[k].st = "opening" => c2[k].asker # {}
                            /\ c2[k].asker # {} => c2[k].sent <= Early
  BY DEF Moved
<1> QED
  BY <1>1, <1>4, <1>5, <1>6 DEF TransportFine

\* The transport moved and reported: nothing the connector holds is wronged.
LEMMA MovedFine ==
    ASSUME NEW c, NEW e, TransportFine(c, e), NEW c2, Moved(c, c2), NEW e2, Reports(c, c2, e, e2),
           NEW t, NEW nx, NEW p, NetFine(t, nx, p, {}, c, e, 0)
    PROVE  NetFine(t, nx, p, {}, c2, e2, 0)
<1>1. /\ c \in Seq(NetConn) /\ e \in Seq(NetEvent) /\ c2 \in Seq(NetConn) /\ e2 \in Seq(NetEvent)
      /\ Len(c) \in Nat /\ Len(c2) \in Nat /\ Len(c) <= Len(c2) /\ Len(e) \in Nat /\ Len(e2) \in {Len(e), Len(e) + 1}
      /\ \A j \in 1..Len(e) : e2[j] = e[j] /\ e[j] \in NetEvent
  BY DEF TransportFine, Moved, Reports
<1>2. ASSUME NEW k \in 1..Len(c)
      PROVE  /\ k \in 1..Len(c2) /\ c[k] \in NetConn /\ c2[k] \in NetConn /\ c[k].sent \in Nat /\ c2[k].sent \in Nat
             /\ c[k].sent <= c2[k].sent /\ c2[k].asker = c[k].asker
             /\ c[k].st \in {"refused", "down"} => c2[k].st = c[k].st
             /\ c[k].st \in {"opening", "up", "refused", "down"}
             /\ c[k].st = "opening" => c[k].asker # {}
  <2>1. k \in 1..Len(c2) /\ c[k] \in NetConn /\ c2[k] \in NetConn
    BY <1>1
  <2>2. /\ c[k].sent <= c2[k].sent /\ c2[k].asker = c[k].asker
        /\ c[k].st \in {"refused", "down"} => c2[k].st = c[k].st
    BY DEF Moved
  <2>3. c[k].st = "opening" => c[k].asker # {}
    BY DEF TransportFine
  <2> QED
    BY <2>1, <2>2, <2>3 DEF NetConn
<1>3. TableFine(t, c) /\ Fresh(t, e, 0) /\ Lines(t, nx, p, c, e, 0) /\ Reached(t, {}, c, e, 0)
  BY DEF NetFine
<1>4. \A j \in (0 + 1)..Len(e2) : j \in 1..Len(e2) /\ (j \in 1..Len(e) \/ j \notin 1..Len(e))
  OBVIOUS
<1>5. ASSUME NEW h \in DOMAIN t
      PROVE  EntryFine(t[h], c) /\ t[h].key \in 1..Len(c) /\ EntryFine(t[h], c2)
  <2>1. EntryFine(t[h], c)
    BY <1>3 DEF TableFine
  <2>2. t[h].key \in 1..Len(c)
    BY <2>1 DEF EntryFine
  <2> DEFINE k == t[h].key
  <2>3. /\ k \in 1..Len(c2) /\ c2[k].asker = c[k].asker
        /\ c[k].st \in {"refused", "down"} => c2[k].st = c[k].st
        /\ c2[k].st = "up" => c[k].st = "opening" \/ c[k].st = "up"
        /\ c[k].st = "opening" => c[k].asker # {}
    BY <1>2, <2>2
  <2> QED
    BY <2>1, <2>2, <2>3 DEF EntryFine
<1>6. TableFine(t, c2)
  BY <1>3, <1>5 DEF TableFine
<1>7. Fresh(t, e2, 0)
  <2> SUFFICES ASSUME NEW j \in (0 + 1)..Len(e2), e2[j].kind = "accepted", NEW h \in DOMAIN t
               PROVE  t[h].key # e2[j].key
    BY DEF Fresh
  <2>1. CASE j \in 1..Len(e)
    BY <1>1, <1>3, <2>1 DEF Fresh
  <2>2. CASE j \notin 1..Len(e)
    <3>1. e2[j].key \notin 1..Len(c)
      BY <1>4, <2>2 DEF Reports
    <3> QED
      BY <1>5, <3>1
  <2> QED
    BY <2>1, <2>2
<1>8. Lines(t, nx, p, c2, e2, 0)
  <2>1. p \in Seq(NetPush) /\ \A a \in 1..Len(p) : p[a][2][1] < nx /\ p[a][2][2] \in Nat
    BY <1>3 DEF Lines, NetPush
  <2>2. ASSUME NEW h \in DOMAIN t
        PROVE  Line(t[h], h, p, c2[t[h].key].sent, e2, 0)
    <3> DEFINE en == t[h]
    <3> DEFINE m == en.inbound
    <3> DEFINE old == c[en.key].sent
    <3> DEFINE new == c2[en.key].sent
    <3>1. Line(en, h, p, old, e, 0) /\ m \in Seq(Nat \ {0}) /\ old \in Nat /\ new \in Nat /\ old <= new
      <4>1. EntryFine(en, c) /\ en.key \in 1..Len(c)
        BY <1>5
      <4> QED
        BY <4>1, <1>2, <1>3 DEF Lines, EntryFine, NetEntry
    <3>2. \A a \in 1..Len(m) : m[a] \in Nat
      BY <3>1
    <3> HIDE DEF m, old, new, en
    <3>3. \A a \in 1..Len(p) : Says(p[a], h) =>
             /\ p[a][2][2] <= old
             /\ \A b \in 1..Len(p) : a < b /\ Says(p[b], h) => p[a][2][2] < p[b][2][2]
             /\ \A b \in 1..Len(m) : p[a][2][2] < m[b]
      BY <3>1 DEF Line, m
    <3>4. \A a \in 1..Len(m) :
             /\ m[a] <= old
             /\ \A b \in 1..Len(m) : a < b => m[a] < m[b]
      BY <3>1 DEF Line, m
    <3>5. \A a \in 1..Len(p) : Says(p[a], h) => p[a][2][2] <= new
      BY <2>1, <3>1, <3>3
    <3>6. \A a \in 1..Len(m) : m[a] <= new
      BY <3>1, <3>2, <3>4
    <3>7. \A j \in (0 + 1)..Len(e2) : e2[j].kind = "data" /\ e2[j].key = en.key =>
             /\ \A a \in 1..Len(p) : Says(p[a], h) => p[a][2][2] < e2[j].data
             /\ \A a \in 1..Len(m) : m[a] < e2[j].data
      <4> SUFFICES ASSUME NEW j \in (0 + 1)..Len(e2), e2[j].kind = "data", e2[j].key = en.key
                   PROVE  /\ \A a \in 1..Len(p) : Says(p[a], h) => p[a][2][2] < e2[j].data
                          /\ \A a \in 1..Len(m) : m[a] < e2[j].data
        OBVIOUS
      <4>1. CASE j \in 1..Len(e)
        <5>1. e[j].kind = "data" /\ e[j].key = en.key /\ e2[j] = e[j] /\ j \in (0 + 1)..Len(e)
          BY <1>1, <4>1
        <5> QED
          BY <3>1, <5>1 DEF Line, m
      <4>2. CASE j \notin 1..Len(e)
        <5>1. en.key \in 1..Len(c)
          BY <1>5 DEF en
        <5>2. old < e2[j].data
          BY <1>4, <4>2, <5>1 DEF Reports, old
        <5>3. e2[j].data \in Nat
          <6>1. e2[j] \in NetEvent
            BY <1>1
          <6> QED
            BY <6>1 DEF NetEvent
        <5> QED
          BY <2>1, <3>1, <3>2, <3>3, <3>4, <5>2, <5>3, SMTT(30)
      <4> QED
        BY <4>1, <4>2
    <3>8. Line(en, h, p, new, e2, 0)
      BY <3>3, <3>4, <3>5, <3>6, <3>7 DEF Line, m
    <3> QED
      BY <3>8 DEF en, new
  <2> QED
    BY <2>1, <2>2 DEF Lines
<1>9. Reached(t, {}, c2, e2, 0)
  <2> SUFFICES ASSUME NEW k \in 1..Len(c2), Settled, c2[k].st = "up"
               PROVE  \/ k \in {}
                      \/ c2[k].asker # {}
                      \/ \E h \in DOMAIN t : t[h].key = k /\ ~t[h].gone
                      \/ \E j \in (0 + 1)..Len(e2) : e2[j].kind = "accepted" /\ e2[j].key = k
    BY DEF Reached
  <2>1. CASE k \notin 1..Len(c)
    BY <2>1 DEF Reports
  <2>2. CASE k \in 1..Len(c)
    <3>1. CASE c[k].st = "up"
      <4>1. \/ c[k].asker # {}
            \/ \E h \in DOMAIN t : t[h].key = k /\ ~t[h].gone
            \/ \E j \in (0 + 1)..Len(e) : e[j].kind = "accepted" /\ e[j].key = k
        BY <1>3, <2>2, <3>1 DEF Reached
      <4>2. \A j \in (0 + 1)..Len(e) : j \in (0 + 1)..Len(e2) /\ e2[j] = e[j]
        BY <1>1
      <4> QED
        BY <1>2, <2>2, <4>1, <4>2
    <3>2. CASE c[k].st # "up"
      <4>1. c[k].st = "opening"
        BY <1>2, <2>2, <3>2
      <4> QED
        BY <1>2, <2>2, <4>1
    <3> QED
      BY <3>1, <3>2
  <2> QED
    BY <2>1, <2>2
<1> QED
  BY <1>6, <1>7, <1>8, <1>9 DEF NetFine

\* Nothing is reported, or one event.
LEMMA ReportsNone ==
    ASSUME NEW c, NEW e \in Seq(NetEvent), NEW c2, \A k \in 1..Len(c2) : k \notin 1..Len(c) => c2[k].st # "up"
    PROVE  Reports(c, c2, e, e)
  BY DEF Reports

\* One event is reported, of what the transport now is.
LEMMA ReportsOne ==
    ASSUME NEW c, NEW e \in Seq(NetEvent), NEW c2, NEW ev \in NetEvent, EventFine(ev, c2),
           ev.kind = "data" => /\ ev.key \in 1..Len(c) => c[ev.key].sent < ev.data,
           ev.kind = "accepted" => ev.key \notin 1..Len(c),
           \A k \in 1..Len(c2) : k \notin 1..Len(c) /\ c2[k].st = "up" => ev.kind = "accepted" /\ ev.key = k
    PROVE  Reports(c, c2, e, Append(e, ev))
<1> DEFINE e2 == Append(e, ev)
<1>1. /\ e2 \in Seq(NetEvent) /\ Len(e2) = Len(e) + 1 /\ Len(e) \in Nat /\ e2[Len(e) + 1] = ev
      /\ \A j \in 1..Len(e) : e2[j] = e[j]
  OBVIOUS
<1> HIDE DEF e2
<1>2. \A j \in 1..Len(e2) : j \notin 1..Len(e) => e2[j] = ev
  BY <1>1
<1>3. Len(e) + 1 \in 1..Len(e2)
  BY <1>1
<1>4. Reports(c, c2, e, e2)
  BY <1>1, <1>2, <1>3 DEF Reports
<1> QED
  BY <1>4 DEF e2

\* The transport's side of one connection changes.
LEMMA OneMoved ==
    ASSUME NEW c, NEW e, TransportFine(c, e), NEW k \in 1..Len(c), NEW r \in NetConn, c[k].sent <= r.sent,
           r.asker = c[k].asker, c[k].st \in {"refused", "down"} => r.st = c[k].st, r.st = "opening" => r.asker # {},
           r.asker # {} => r.sent <= Early
    PROVE  Moved(c, [c EXCEPT ![k] = r]) /\ Len([c EXCEPT ![k] = r]) = Len(c)
<1> DEFINE c2 == [c EXCEPT ![k] = r]
<1>1. c \in Seq(NetConn) /\ Len(c) \in Nat
  BY DEF TransportFine
<1>2. c2 \in Seq(NetConn) /\ Len(c2) = Len(c) /\ \A g \in 1..Len(c) : c2[g] = IF g = k THEN r ELSE c[g]
  BY <1>1
<1> HIDE DEF c2
<1>3. \A g \in 1..Len(c) : c[g].sent \in Nat
  <2>1. \A g \in 1..Len(c) : c[g] \in NetConn
    BY <1>1
  <2> QED
    BY <2>1 DEF NetConn
<1>4. \A g \in 1..Len(c) : /\ c[g].sent <= c2[g].sent /\ c2[g].asker = c[g].asker
                           /\ c[g].st \in {"refused", "down"} => c2[g].st = c[g].st
  BY <1>2, <1>3
<1>5. \A g \in 1..Len(c2) : /\ c2[g].st = "opening" => c2[g].asker # {}
                            /\ c2[g].asker # {} => c2[g].sent <= Early
  BY <1>2 DEF TransportFine
<1> QED
  BY <1>1, <1>2, <1>4, <1>5 DEF Moved, c2

\* One more connection, that somebody opens or that came by itself.
LEMMA NewMoved ==
    ASSUME NEW c, NEW e, TransportFine(c, e), NEW r \in NetConn, r.sent = 0, r.st = "opening" => r.asker # {}
    PROVE  Moved(c, Append(c, r))
<1> DEFINE c2 == Append(c, r)
<1>1. c \in Seq(NetConn) /\ Len(c) \in Nat
  BY DEF TransportFine
<1>2. c2 \in Seq(NetConn) /\ Len(c2) = Len(c) + 1 /\ c2[Len(c) + 1] = r /\ \A g \in 1..Len(c) : c2[g] = c[g]
  BY <1>1
<1> HIDE DEF c2
<1>3. \A g \in 1..Len(c) : c[g].sent \in Nat
  <2>1. \A g \in 1..Len(c) : c[g] \in NetConn
    BY <1>1
  <2> QED
    BY <2>1 DEF NetConn
<1>4. \A g \in 1..Len(c) : /\ c[g].sent <= c2[g].sent /\ c2[g].asker = c[g].asker
                           /\ c[g].st \in {"refused", "down"} => c2[g].st = c[g].st
  BY <1>2, <1>3
<1>5. ASSUME NEW g \in 1..Len(c2)
      PROVE  /\ c2[g].st = "opening" => c2[g].asker # {}
             /\ c2[g].asker # {} => c2[g].sent <= Early
  <2>1. CASE g \in 1..Len(c)
    BY <1>2, <2>1 DEF TransportFine
  <2>2. CASE g \notin 1..Len(c)
    <3>1. c2[g] = r
      BY <1>1, <1>2, <2>2
    <3>2. 0 <= Early
      <4>1. {MaxUnread, MaxListeners, ACCEPT_SWEEP, RECV_BACKLOG, ACCEPT_BACKLOG, MaxData, Early, MaxEvents, MaxPushes,
             INBOX_MAX, OUTBOX_MAX, MaxFrames} \subseteq Nat \ {0}
        BY ConnectorsAssumption
      <4>2. Early \in Nat \ {0}
        BY <4>1
      <4> QED
        BY <4>2
    <3> QED
      BY <3>1, <3>2
  <2> QED
    BY <2>1, <2>2
<1> QED
  BY <1>1, <1>2, <1>4, <1>5 DEF Moved, c2

\* What the transport does changes nothing else.
LEMMA NetFar ==
    ASSUME NetInv, Moved(conns, conns'), Reports(conns, conns', events, events'),
           UNCHANGED <<gone, table, next, offers, ended, pushes>>
    PROVE  NetInv' /\ NetVital
<1>1. TransportFine(conns, events) /\ NetFine(table, next, pushes, {}, conns, events, 0)
  BY DEF NetInv
<1>2. TransportFine(conns', events') /\ NetFine(table, next, pushes, {}, conns', events', 0)
  BY <1>1, MovedTransport, MovedFine
<1>3. NetInv'
  BY <1>2 DEF NetInv
<1> QED
  BY <1>3 DEF NetVital

\* The transport answers an open.
LEMMA NetAnswers ==
    ASSUME NetInv, NEW k \in DOMAIN conns, NEW how \in {"up", "refused"}, N!Answers(k, how)
    PROVE  NetInv' /\ NetVital
<1>1. /\ TransportFine(conns, events) /\ conns \in Seq(NetConn) /\ events \in Seq(NetEvent)
      /\ k \in 1..Len(conns) /\ conns[k] \in NetConn
  BY DEF NetInv, TransportFine
<1> DEFINE r == [conns[k] EXCEPT !.st = how]
<1>2. /\ UNCHANGED <<gone, table, next, offers, ended, pushes>> /\ events' = events
      /\ conns[k].st = "opening" /\ conns' = [conns EXCEPT ![k] = r]
  BY DEF N!Answers, N!swarmVars, N!heldVars
<1>3. r \in NetConn /\ r.sent = conns[k].sent /\ r.asker = conns[k].asker /\ r.st = how
  BY <1>1 DEF NetConn
<1>4. conns[k].sent <= r.sent /\ (r.asker # {} => r.sent <= Early)
  <2>1. conns[k].sent \in Nat
    BY <1>1 DEF NetConn
  <2>2. conns[k].asker # {} => conns[k].sent <= Early
    BY <1>1 DEF TransportFine
  <2> HIDE DEF r
  <2> QED
    BY <1>3, <2>1, <2>2
<1> HIDE DEF r
<1>5. Moved(conns, conns') /\ Len(conns') = Len(conns)
  <2>1. conns[k].st \in {"refused", "down"} => r.st = conns[k].st
    BY <1>2
  <2>2. r.st = "opening" => r.asker # {}
    BY <1>3
  <2>3. Moved(conns, [conns EXCEPT ![k] = r]) /\ Len([conns EXCEPT ![k] = r]) = Len(conns)
    BY <1>1, <1>3, <1>4, <2>1, <2>2, OneMoved
  <2> QED
    BY <1>2, <2>3
<1>6. Reports(conns, conns', events, events')
  BY <1>1, <1>2, <1>5, ReportsNone
<1> QED
  BY <1>2, <1>5, <1>6, NetFar

\* A message arrives.
LEMMA NetDelivers ==
    ASSUME NetInv, NEW k \in DOMAIN conns, N!Delivers(k)
    PROVE  NetInv' /\ NetVital
<1>1. /\ TransportFine(conns, events) /\ conns \in Seq(NetConn) /\ events \in Seq(NetEvent)
      /\ k \in 1..Len(conns) /\ conns[k] \in NetConn /\ conns[k].sent \in Nat
  <2>1. TransportFine(conns, events) /\ conns \in Seq(NetConn) /\ events \in Seq(NetEvent)
    BY DEF NetInv, TransportFine
  <2>2. k \in 1..Len(conns) /\ conns[k] \in NetConn
    BY <2>1
  <2> QED
    BY <2>1, <2>2 DEF NetConn
<1> DEFINE more == conns[k].sent + 1
<1> DEFINE r == [conns[k] EXCEPT !.sent = more]
<1> DEFINE ev == [kind |-> "data", key |-> k, data |-> more]
<1>2. /\ UNCHANGED <<gone, table, next, offers, ended, pushes>> /\ events' = Append(events, ev)
      /\ conns[k].st \in {"opening", "up"} /\ conns' = [conns EXCEPT ![k] = r]
      /\ conns[k].sent < IF conns[k].asker = {} THEN MaxData ELSE Early
  BY DEF N!Delivers, N!Report, N!swarmVars, N!heldVars
<1>3. more \in Nat \ {0} /\ conns[k].sent < more /\ conns[k].sent <= more
  BY <1>1
<1>4. conns[k].asker # {} => more <= Early
  <2>1. {MaxUnread, MaxListeners, ACCEPT_SWEEP, RECV_BACKLOG, ACCEPT_BACKLOG, MaxData, Early, MaxEvents, MaxPushes,
         INBOX_MAX, OUTBOX_MAX, MaxFrames} \subseteq Nat \ {0}
    BY ConnectorsAssumption
  <2>2. Early \in Nat
    BY <2>1
  <2> QED
    BY <1>1, <1>2, <2>2
<1> HIDE DEF more
<1>5. r \in NetConn /\ r.sent = more /\ r.asker = conns[k].asker /\ r.st = conns[k].st
  BY <1>1, <1>3 DEF NetConn
<1>6. ev \in NetEvent /\ ev.kind = "data" /\ ev.key = k /\ ev.data = more
  BY <1>1, <1>3 DEF NetEvent
<1> HIDE DEF r, ev
<1>7. Moved(conns, conns') /\ Len(conns') = Len(conns) /\ conns'[k] = r
  <2>1. r.st = "opening" => r.asker # {}
    BY <1>1, <1>5 DEF TransportFine
  <2>2. Moved(conns, [conns EXCEPT ![k] = r]) /\ Len([conns EXCEPT ![k] = r]) = Len(conns)
    BY <1>1, <1>3, <1>4, <1>5, <2>1, OneMoved
  <2> QED
    BY <1>1, <1>2, <2>2
<1>8. EventFine(ev, conns')
  BY <1>1, <1>3, <1>5, <1>6, <1>7 DEF EventFine
<1>9. Reports(conns, conns', events, events')
  <2>1. Reports(conns, conns', events, Append(events, ev))
    BY <1>1, <1>3, <1>6, <1>7, <1>8, ReportsOne
  <2> QED
    BY <1>2, <2>1
<1> QED
  BY <1>2, <1>7, <1>9, NetFar

\* The far end closes.
LEMMA NetCloses ==
    ASSUME NetInv, NEW k \in DOMAIN conns, N!Closes(k)
    PROVE  NetInv' /\ NetVital
<1>1. /\ TransportFine(conns, events) /\ conns \in Seq(NetConn) /\ events \in Seq(NetEvent)
      /\ k \in 1..Len(conns) /\ conns[k] \in NetConn /\ conns[k].sent \in Nat
  <2>1. TransportFine(conns, events) /\ conns \in Seq(NetConn) /\ events \in Seq(NetEvent)
    BY DEF NetInv, TransportFine
  <2>2. k \in 1..Len(conns) /\ conns[k] \in NetConn
    BY <2>1
  <2> QED
    BY <2>1, <2>2 DEF NetConn
<1> DEFINE r == [conns[k] EXCEPT !.st = "down"]
<1> DEFINE ev == [kind |-> "closed", key |-> k]
<1>2. /\ UNCHANGED <<gone, table, next, offers, ended, pushes>> /\ events' = Append(events, ev)
      /\ conns[k].st = "up" /\ conns' = [conns EXCEPT ![k] = r]
  BY DEF N!Closes, N!Report, N!swarmVars, N!heldVars
<1>3. r \in NetConn /\ r.sent = conns[k].sent /\ r.asker = conns[k].asker /\ r.st = "down"
  BY <1>1 DEF NetConn
<1>4. ev \in NetEvent /\ ev.kind = "closed" /\ ev.key = k
  BY <1>1 DEF NetEvent
<1> HIDE DEF r, ev
<1>5. conns[k].sent <= r.sent /\ (r.asker # {} => r.sent <= Early)
  <2>1. conns[k].asker # {} => conns[k].sent <= Early
    BY <1>1 DEF TransportFine
  <2> QED
    BY <1>1, <1>3, <2>1
<1>6. Moved(conns, conns') /\ Len(conns') = Len(conns) /\ conns'[k] = r
  <2>1. conns[k].st \in {"refused", "down"} => r.st = conns[k].st
    BY <1>2
  <2>2. r.st = "opening" => r.asker # {}
    BY <1>3
  <2>3. Moved(conns, [conns EXCEPT ![k] = r]) /\ Len([conns EXCEPT ![k] = r]) = Len(conns)
    BY <1>1, <1>3, <1>5, <2>1, <2>2, OneMoved
  <2> QED
    BY <1>1, <1>2, <2>3
<1>7. EventFine(ev, conns')
  BY <1>1, <1>3, <1>4, <1>6 DEF EventFine
<1>8. Reports(conns, conns', events, events')
  <2>1. Reports(conns, conns', events, Append(events, ev))
    BY <1>1, <1>4, <1>6, <1>7, ReportsOne
  <2> QED
    BY <1>2, <2>1
<1> QED
  BY <1>2, <1>6, <1>8, NetFar

\* The transport lets go of what it was opening for a caller that is gone.
LEMMA NetLetsGo ==
    ASSUME NetInv, NEW k \in DOMAIN conns, N!LetsGo(k)
    PROVE  NetInv' /\ NetVital
<1>1. /\ TransportFine(conns, events) /\ conns \in Seq(NetConn) /\ events \in Seq(NetEvent)
      /\ k \in 1..Len(conns) /\ conns[k] \in NetConn
  BY DEF NetInv, TransportFine
<1> DEFINE r == [conns[k] EXCEPT !.st = "down"]
<1>2. /\ UNCHANGED <<gone, table, next, offers, ended, pushes>> /\ events' = events
      /\ conns[k].st \in {"opening", "up"} /\ conns' = [conns EXCEPT ![k] = r]
  BY DEF N!LetsGo, N!swarmVars, N!heldVars
<1>3. r \in NetConn /\ r.sent = conns[k].sent /\ r.asker = conns[k].asker /\ r.st = "down"
  BY <1>1 DEF NetConn
<1> HIDE DEF r
<1>4. conns[k].sent <= r.sent /\ (r.asker # {} => r.sent <= Early)
  <2>1. conns[k].sent \in Nat
    BY <1>1 DEF NetConn
  <2>2. conns[k].asker # {} => conns[k].sent <= Early
    BY <1>1 DEF TransportFine
  <2> QED
    BY <1>3, <2>1, <2>2
<1>5. Moved(conns, conns') /\ Len(conns') = Len(conns)
  <2>1. conns[k].st \in {"refused", "down"} => r.st = conns[k].st
    BY <1>2
  <2>2. r.st = "opening" => r.asker # {}
    BY <1>3
  <2>3. Moved(conns, [conns EXCEPT ![k] = r]) /\ Len([conns EXCEPT ![k] = r]) = Len(conns)
    BY <1>1, <1>3, <1>4, <2>1, <2>2, OneMoved
  <2> QED
    BY <1>2, <2>3
<1>6. Reports(conns, conns', events, events')
  BY <1>1, <1>2, <1>5, ReportsNone
<1> QED
  BY <1>2, <1>5, <1>6, NetFar

\* A connection arrives at a listener.
LEMMA NetConnects ==
    ASSUME NetInv, NEW k \in DOMAIN conns, N!Connects(k)
    PROVE  NetInv' /\ NetVital
<1>1. /\ TransportFine(conns, events) /\ conns \in Seq(NetConn) /\ events \in Seq(NetEvent) /\ Len(conns) \in Nat
      /\ k \in Nat
  BY DEF NetInv, TransportFine
<1> DEFINE r == [st |-> "up", listener |-> FALSE, sent |-> 0, asker |-> {}]
<1> DEFINE key == Len(conns) + 1
<1> DEFINE ev == [kind |-> "accepted", key |-> key, on |-> k]
<1>2. /\ UNCHANGED <<gone, table, next, offers, ended, pushes>> /\ events' = Append(events, ev)
      /\ conns' = Append(conns, r)
  BY DEF N!Connects, N!Report, N!swarmVars, N!heldVars, N!NextKey
<1>3. r \in NetConn /\ r.sent = 0 /\ r.asker = {} /\ r.st = "up"
  BY DEF NetConn
<1>4. key \in Nat /\ key \notin 1..Len(conns)
  BY <1>1
<1> HIDE DEF r
<1>5. Moved(conns, conns') /\ Len(conns') = key /\ conns'[key] = r
  <2>1. Moved(conns, Append(conns, r))
    BY <1>1, <1>3, NewMoved
  <2>2. Len(Append(conns, r)) = key /\ Append(conns, r)[key] = r
    BY <1>1, <1>3
  <2> QED
    BY <1>2, <2>1, <2>2
<1>6. \A g \in 1..Len(conns') : g \notin 1..Len(conns) => g = key
  BY <1>1, <1>5
<1>7. key \in 1..Len(conns')
  BY <1>4, <1>1, <1>5
<1> HIDE DEF key
<1>8. ev \in NetEvent /\ ev.kind = "accepted" /\ ev.key = key
  BY <1>1, <1>4 DEF NetEvent
<1> HIDE DEF ev
<1>9. EventFine(ev, conns')
  BY <1>3, <1>5, <1>7, <1>8 DEF EventFine
<1>10. Reports(conns, conns', events, events')
  <2>1. Reports(conns, conns', events, Append(events, ev))
    BY <1>1, <1>4, <1>6, <1>8, <1>9, ReportsOne
  <2> QED
    BY <1>2, <2>1
<1> QED
  BY <1>2, <1>5, <1>10, NetFar

\* An open or a listen: the entry comes before the answer.
LEMMA NetOpen ==
    ASSUME NetInv, NEW n \in Inst, NEW l, NEW v, NEW q, l \in BOOLEAN, v \in BOOLEAN, q \in BOOLEAN, N!Open(n, l, v, q)
    PROVE  NetInv' /\ NetVital
<1>1. /\ TransportFine(conns, events) /\ conns \in Seq(NetConn) /\ events \in Seq(NetEvent) /\ Len(conns) \in Nat
      /\ Accounted(table, next, offers, gone, TRUE) /\ Shown(table, offers)
      /\ NetFine(table, next, pushes, {}, conns, events, 0)
  <2>1. /\ TransportFine(conns, events) /\ Accounted(table, next, offers, gone, TRUE) /\ Shown(table, offers)
        /\ NetFine(table, next, pushes, {}, conns, events, 0)
    BY DEF NetInv
  <2>2. conns \in Seq(NetConn) /\ events \in Seq(NetEvent) /\ Len(conns) \in Nat
    BY <2>1 DEF TransportFine
  <2> QED
    BY <2>1, <2>2
<1> DEFINE key == Len(conns) + 1
<1> DEFINE r == [st |-> "opening", listener |-> l, sent |-> 0, asker |-> {n}]
<1> DEFINE new == N!NewEntry(n, key, l, v, q)
<1>2. /\ n \notin gone /\ gone' = gone /\ table' = With(table, next, new) /\ next' = next + 1
      /\ conns' = Append(conns, r) /\ UNCHANGED <<offers, ended, events, pushes>>
  BY SameOperators DEF N!Open, N!Calls, N!Driven, N!swarmVars, N!Insert, N!NextKey
<1>3. r \in NetConn /\ r.sent = 0 /\ r.asker = {n} /\ r.st = "opening"
  BY DEF NetConn
<1>4. key \in Nat /\ key \notin 1..Len(conns)
  BY <1>1
<1> HIDE DEF r
<1>5. Moved(conns, conns') /\ Len(conns') = key /\ conns'[key] = r /\ conns' \in Seq(NetConn)
  <2>1. Moved(conns, Append(conns, r))
    <3>1. r.st = "opening" => r.asker # {}
      BY <1>3
    <3> QED
      BY <1>1, <1>3, <3>1, NewMoved
  <2>2. Len(Append(conns, r)) = key /\ Append(conns, r)[key] = r /\ Append(conns, r) \in Seq(NetConn)
    BY <1>1, <1>3
  <2> QED
    BY <1>2, <2>1, <2>2
<1>6. \A g \in 1..Len(conns') : g \notin 1..Len(conns) => g = key
  BY <1>1, <1>5
<1>7. key \in 1..Len(conns')
  BY <1>4, <1>1, <1>5
<1> HIDE DEF key
<1>8. Reports(conns, conns', events, events')
  <2>1. \A g \in 1..Len(conns') : g \notin 1..Len(conns) => conns'[g].st # "up"
    BY <1>3, <1>5, <1>6
  <2> QED
    BY <1>1, <1>2, <2>1, ReportsNone
<1>9. TransportFine(conns', events) /\ NetFine(table, next, pushes, {}, conns', events, 0)
  BY <1>1, <1>2, <1>5, <1>8, MovedTransport, MovedFine
<1>10. /\ new \in NetEntry /\ new.owner = n /\ new.key = key /\ new.conn = FALSE
       /\ new.inbound = <<>> /\ new.waiting = 0 /\ new.gone = FALSE
  <2>1. new = [owner |-> n, key |-> key, conn |-> FALSE, listener |-> l, queue |-> q, vital |-> v, inbound |-> <<>>,
               waiting |-> 0, gone |-> FALSE]
    BY DEF N!NewEntry
  <2>2. <<>> \in Seq(Nat \ {0}) /\ 0 \in Nat /\ FALSE \in BOOLEAN
    OBVIOUS
  <2> HIDE DEF new
  <2> QED
    BY <1>4, <2>1, <2>2 DEF NetEntry
<1> HIDE DEF new
<1>11. EntryFine(new, conns')
  BY <1>3, <1>5, <1>7, <1>10 DEF EntryFine
<1>12. \A h \in DOMAIN table : table[h].key # new.key
  <2> SUFFICES ASSUME NEW h \in DOMAIN table
               PROVE  table[h].key # new.key
    OBVIOUS
  <2>1. table[h].key \in 1..Len(conns)
    BY <1>1, AtEntry
  <2> QED
    BY <1>4, <1>10, <2>1
<1>13. \A j \in (0 + 1)..Len(events) : events[j].kind = "accepted" => events[j].key # new.key
  <2> SUFFICES ASSUME NEW j \in (0 + 1)..Len(events)
               PROVE  events[j].key # new.key
    OBVIOUS
  <2>1. EventFine(events[j], conns)
    BY <1>1 DEF TransportFine
  <2> QED
    BY <1>4, <1>10, <2>1 DEF EventFine
<1>14. TableFine(table, conns') /\ Fresh(table, events, 0) /\ Lines(table, next, pushes, conns', events, 0)
       /\ Reached(table, {}, conns', events, 0)
  BY <1>9 DEF NetFine
<1>15. next \in Nat /\ DOMAIN table \subseteq 1..(next - 1) /\ next \notin DOMAIN table
  BY <1>1 DEF Accounted
<1>16. pushes \in Seq(NetPush)
  BY <1>14 DEF Lines
<1> DEFINE t2 == With(table, next, new)
<1>17. DOMAIN t2 = DOMAIN table \cup {next} /\ \A h \in DOMAIN table : t2[h] = table[h]
  BY <1>15 DEF With
<1> DEFINE none == <<>>
<1>18. none \in Seq(NetPush) /\ \A b \in 1..Len(none) : none[b][2][1] < next /\ none[b][2][2] = 0
  OBVIOUS
<1>19. pushes \o none = pushes
  BY <1>16
<1> HIDE DEF none
<1>20. TableFine(t2, conns') /\ Fresh(t2, events, 0) /\ Lines(t2, next + 1, pushes, conns', events, 0)
  <2>1. 0 \in Nat /\ 0 <= 0
    OBVIOUS
  <2>2. TableFine(t2, conns') /\ Fresh(t2, events, 0) /\ Lines(t2, next + 1, pushes \o none, conns', events, 0)
    <3> DEFINE c2 == conns'
    <3>1. c2 \in Seq(NetConn) /\ EntryFine(new, c2) /\ TableFine(table, c2) /\ Lines(table, next, pushes, c2, events, 0)
      BY <1>5, <1>11, <1>14
    <3>2. events \in Seq(NetEvent) /\ Fresh(table, events, 0) /\ new.inbound = <<>>
      BY <1>1, <1>10, <1>14
    <3> HIDE DEF c2
    <3>3. /\ TableFine(With(table, next, new), c2) /\ Fresh(With(table, next, new), events, 0)
          /\ Lines(With(table, next, new), next + 1, pushes \o none, c2, events, 0)
      BY <1>12, <1>13, <1>15, <1>18, <2>1, <3>1, <3>2, EntryAdded
    <3> QED
      BY <3>3 DEF c2
  <2> QED
    BY <1>19, <2>2
<1> HIDE DEF t2
<1>21. Reached(t2, {}, conns', events, 0)
  BY <1>14, <1>17 DEF Reached
<1>22. Accounted(t2, next + 1, offers, gone, TRUE)
  BY <1>1, <1>2, <1>10, InsertAccounted DEF t2
<1>23. Shown(t2, offers)
  <2> SUFFICES ASSUME NEW i \in 1..Len(offers), offers[i][3] \in DOMAIN t2
               PROVE  t2[offers[i][3]].waiting = 0
    BY DEF Shown
  <2>1. offers[i] \in Inst \X Inst \X (1..(next - 1))
    BY <1>1 DEF Accounted
  <2>2. offers[i][3] # next
    BY <1>15, <2>1
  <2>3. offers[i][3] \in DOMAIN table
    BY <1>17, <2>2
  <2> QED
    BY <1>1, <1>17, <2>3 DEF Shown
<1>24. table' = t2
  BY <1>2 DEF t2
<1>25. NetInv'
  BY <1>2, <1>9, <1>20, <1>21, <1>22, <1>23, <1>24 DEF NetInv, NetFine
<1>26. NetVital
  BY <1>2, <1>17, <1>24 DEF NetVital
<1> QED
  BY <1>25, <1>26

\* An offer, of a handle the caller sees.
LEMMA NetOffer ==
    ASSUME NetInv, NEW n \in Inst, NEW m \in Inst, NEW h, N!Offer(n, m, h)
    PROVE  NetInv' /\ NetVital
<1>1. /\ h \in DOMAIN table /\ table[h].owner = n /\ table[h].waiting = 0
      /\ UNCHANGED <<gone, table, next, ended, conns, events, pushes>>
      /\ offers' = Append(Only(offers, Others(offers, n, h)), <<n, m, h>>)
  BY SameOperators DEF N!Offer, N!Calls, N!swarmVars, N!netVars, N!Mine, N!Holds, N!Transfer, N!Withdrawn, Others
<1>2. Accounted(table, next, offers', gone, TRUE)
  BY <1>1, TransferAccounted DEF NetInv
<1>3. offers \in Seq(Inst \X Inst \X (1..(next - 1))) /\ Others(offers, n, h) \in SUBSET (1..Len(offers))
  BY DEF NetInv, Accounted, Others
<1>4. Shown(table, offers')
  <2> DEFINE r == Only(offers, Others(offers, n, h))
  <2>1. r \in Seq(Inst \X Inst \X (1..(next - 1)))
    BY <1>3, OnlyPicks
  <2>2. Shown(table, r)
    BY <1>3, ShownOnly DEF NetInv
  <2> DEFINE x == <<n, m, h>>
  <2>3. x[3] = h
    OBVIOUS
  <2> HIDE DEF r, x
  <2>4. \A i \in 1..Len(Append(r, x)) : \/ i \in 1..Len(r) /\ Append(r, x)[i] = r[i]
                                        \/ Append(r, x)[i] = x
    BY <2>1
  <2>5. offers' = Append(r, x)
    BY <1>1 DEF r, x
  <2> QED
    BY <1>1, <2>2, <2>3, <2>4, <2>5 DEF Shown
<1>5. NetInv'
  BY <1>1, <1>2, <1>4 DEF NetInv
<1>6. NetVital
  BY <1>1 DEF NetVital
<1> QED
  BY <1>5, <1>6

\* close: the handle and the connections that wait under it.
LEMMA NetClose ==
    ASSUME NetInv, NEW n \in Inst, NEW h, N!Close(n, h)
    PROVE  NetInv' /\ NetVital
<1> DEFINE taken == {h} \cup N!WaitingUnder(table, n, h)
<1> DEFINE K == N!Cut(table, taken)
<1>1. /\ h \in DOMAIN table /\ table[h].owner = n
      /\ table' = Kept(table, taken) /\ conns' = N!Down(K)
      /\ offers' = Only(offers, Others(offers, n, h)) /\ ended' = (IF table[h].vital THEN ended \cup {n} ELSE ended)
      /\ UNCHANGED <<gone, next, events, pushes>>
  BY SameOperators DEF N!Close, N!Calls, N!swarmVars, N!Mine, N!Holds, N!Without, N!Withdrawn, Kept, Others
<1>2. /\ TransportFine(conns, events) /\ conns \in Seq(NetConn)
      /\ Accounted(table, next, offers, gone, TRUE) /\ Shown(table, offers)
      /\ NetFine(table, next, pushes, {}, conns, events, 0)
  BY DEF NetInv, TransportFine
<1>3. \A g \in DOMAIN table : g \in taken /\ ~table[g].gone /\ table[g].conn => table[g].key \in K
  BY DEF N!Cut
<1>4. \A g \in taken : g = h \/ (g \in DOMAIN table /\ table[g].waiting = h)
  BY DEF N!WaitingUnder
<1> HIDE DEF taken, K
<1>5. Fallen(conns, conns', K)
  BY <1>1, <1>2, DownFalls
<1>6. TransportFine(conns', events)
  BY <1>2, <1>5, FallenTransport
<1>7. NetFine(table', next, pushes, {}, conns', events, 0)
  <2> DEFINE nothing == {}
  <2>1. nothing \subseteq K
    OBVIOUS
  <2>2. NetFine(table, next, pushes, nothing, conns, events, 0)
    BY <1>2
  <2> HIDE DEF nothing
  <2>3. NetFine(Kept(table, taken), next, pushes, {}, conns', events, 0)
    BY <1>3, <1>5, <2>1, <2>2, FallenFine
  <2> QED
    BY <1>1, <2>3
<1>8. Accounted(table', next, offers', gone, TRUE)
  BY <1>1, <1>2, CloseAccounted
<1>9. DOMAIN table' = DOMAIN table \ taken /\ \A g \in DOMAIN table' : table'[g] = table[g]
  BY <1>1 DEF Kept
<1>10. Shown(table', offers')
  <2>1. offers \in Seq(Inst \X Inst \X (1..(next - 1))) /\ Others(offers, n, h) \in SUBSET (1..Len(offers))
    BY <1>2 DEF Accounted, Others
  <2>2. /\ DOMAIN table' \subseteq DOMAIN table
        /\ \A g \in DOMAIN table' : table'[g].waiting = table[g].waiting \/ table'[g].waiting = 0
    BY <1>9
  <2>3. Shown(table', Only(offers, Others(offers, n, h)))
    BY <1>2, <2>1, <2>2, ShownOnly
  <2> QED
    BY <1>1, <2>3
<1>11. NetInv'
  BY <1>1, <1>6, <1>7, <1>8, <1>10 DEF NetInv
<1>12. NetVital
  <2> SUFFICES ASSUME NEW g \in DOMAIN table, table[g].vital,
                      g \notin DOMAIN table' \/ (~table[g].gone /\ table'[g].gone /\ table'[g].owner = table[g].owner)
               PROVE  table[g].owner \in gone' \cup ended'
    BY DEF NetVital
  <2>1. g \in taken
    BY <1>9
  <2>2. CASE g = h
    BY <1>1, <2>2
  <2>3. CASE g # h
    <3>1. table[g].waiting = h /\ h # 0
      <4>1. h \in Nat /\ h # 0
        BY <1>1, <1>2 DEF Accounted
      <4> QED
        BY <1>4, <2>1, <2>3, <4>1
    <3>2. EntryFine(table[g], conns)
      BY <1>2, AtEntry
    <3> QED
      BY <3>1, <3>2 DEF EntryFine
  <2> QED
    BY <2>2, <2>3
<1> QED
  BY <1>11, <1>12

\* What the answer of an open changes: the connections of the table, and the
\* transport's side of the one it answers for.
LEMMA NetSettle ==
    ASSUME NetInv, NEW n \in Inst, NEW k \in DOMAIN conns, N!Settle(n, k)
    PROVE  NetInv' /\ NetVital
<1> DEFINE mine == {h \in DOMAIN table : table[h].owner \in {n} /\ table[h].key = k}
<1> DEFINE refused == conns[k].st = "refused"
<1> DEFINE answered == [conns[k] EXCEPT !.asker = {}]
<1> DEFINE dropped == [answered EXCEPT !.st = "down"]
<1> DEFINE r == IF ~refused /\ mine = {} THEN dropped ELSE answered
<1>1. /\ TransportFine(conns, events) /\ Accounted(table, next, offers, gone, TRUE) /\ Shown(table, offers)
      /\ NetFine(table, next, pushes, {}, conns, events, 0)
  BY DEF NetInv
<1>2. /\ conns \in Seq(NetConn) /\ events \in Seq(NetEvent) /\ Len(conns) \in Nat
      /\ k \in 1..Len(conns) /\ conns[k] \in NetConn
  BY <1>1 DEF TransportFine
<1>3. /\ n \in conns[k].asker /\ conns[k].st # "opening"
      /\ UNCHANGED <<gone, next, offers, ended, events, pushes>>
  BY DEF N!Settle, N!Calls, N!swarmVars
<1>4. mine = {h \in N!OwnedBy({n}) : table[h].key = k}
  BY DEF N!OwnedBy
<1>5. table' = IF refused THEN Kept(table, mine)
               ELSE [h \in DOMAIN table |-> [table[h] EXCEPT !.conn = @ \/ h \in mine]]
  <2> HIDE DEF mine
  <2> QED
    BY <1>4 DEF N!Settle, N!Without, Kept
<1>6. conns' = [conns EXCEPT ![k] = r]
  <2>1. conns' = IF ~refused /\ mine = {} THEN [[conns EXCEPT ![k].asker = {}] EXCEPT ![k].st = "down"]
                 ELSE [conns EXCEPT ![k].asker = {}]
    <3> HIDE DEF mine
    <3> QED
      BY <1>4 DEF N!Settle
  <2>2. [conns EXCEPT ![k].asker = {}] = [conns EXCEPT ![k] = answered]
    OBVIOUS
  <2> DEFINE c1 == [conns EXCEPT ![k] = answered]
  <2>3. c1[k] = answered
    BY <1>2
  <2>4. [c1 EXCEPT ![k].st = "down"] = [conns EXCEPT ![k] = dropped]
    <3>1. [c1 EXCEPT ![k].st = "down"] = [c1 EXCEPT ![k] = [c1[k] EXCEPT !.st = "down"]]
      OBVIOUS
    <3>2. [c1[k] EXCEPT !.st = "down"] = dropped
      BY <2>3
    <3> HIDE DEF answered, dropped
    <3>3. [c1 EXCEPT ![k] = dropped] = [conns EXCEPT ![k] = dropped]
      OBVIOUS
    <3> HIDE DEF c1
    <3> QED
      BY <3>1, <3>2, <3>3, Zenon
  <2> HIDE DEF mine, refused, answered, dropped, c1
  <2> QED
    BY <2>1, <2>2, <2>4 DEF c1
<1>7. r \in NetConn /\ r.sent = conns[k].sent /\ r.asker = {} /\ r.st = IF ~refused /\ mine = {} THEN "down" ELSE conns[k].st
  <2>1. /\ answered \in NetConn /\ answered.sent = conns[k].sent /\ answered.asker = {}
        /\ answered.st = conns[k].st
    BY <1>2 DEF NetConn
  <2> HIDE DEF answered, mine, refused
  <2>2. /\ dropped \in NetConn /\ dropped.sent = conns[k].sent /\ dropped.asker = {} /\ dropped.st = "down"
    BY <2>1 DEF NetConn
  <2> HIDE DEF dropped
  <2> QED
    BY <2>1, <2>2
<1> HIDE DEF r
<1>8. /\ conns' \in Seq(NetConn) /\ Len(conns') = Len(conns)
      /\ \A g \in 1..Len(conns) : conns'[g] = IF g = k THEN r ELSE conns[g]
  BY <1>2, <1>6, <1>7
<1>9. \A h \in DOMAIN table : EntryFine(table[h], conns) /\ table[h] \in NetEntry /\ table[h].key \in 1..Len(conns)
  BY <1>1, AtEntry
<1>10. DOMAIN table' = IF refused THEN DOMAIN table \ mine ELSE DOMAIN table
  BY <1>5 DEF Kept
<1>11. ASSUME NEW h \in DOMAIN table'
       PROVE  /\ h \in DOMAIN table /\ table'[h] \in NetEntry
              /\ table'[h].owner = table[h].owner /\ table'[h].key = table[h].key
              /\ table'[h].inbound = table[h].inbound /\ table'[h].queue = table[h].queue
              /\ table'[h].vital = table[h].vital /\ table'[h].waiting = table[h].waiting
              /\ table'[h].gone = table[h].gone
              /\ table'[h].conn = (table[h].conn \/ h \in mine)
              /\ h \in mine => ~refused
  <2>1. h \in DOMAIN table /\ (h \in mine => ~refused) /\ table[h] \in NetEntry
    BY <1>9, <1>10
  <2> DEFINE b == (table[h].conn \/ h \in mine)
  <2>2. CASE refused
    <3>1. table'[h] = table[h] /\ h \notin mine
      BY <1>5, <1>10, <2>2 DEF Kept
    <3>2. table[h].conn \in BOOLEAN
      BY <2>1 DEF NetEntry
    <3> HIDE DEF mine
    <3> QED
      BY <2>1, <3>1, <3>2
  <2>3. CASE ~refused
    <3>1. table'[h] = [table[h] EXCEPT !.conn = b]
      BY <1>5, <2>1, <2>3
    <3>2. b \in BOOLEAN
      OBVIOUS
    <3> HIDE DEF b, mine, refused
    <3>3. /\ table'[h] \in NetEntry
          /\ table'[h].owner = table[h].owner /\ table'[h].key = table[h].key
          /\ table'[h].inbound = table[h].inbound /\ table'[h].queue = table[h].queue
          /\ table'[h].vital = table[h].vital /\ table'[h].waiting = table[h].waiting
          /\ table'[h].gone = table[h].gone /\ table'[h].conn = b
      BY <2>1, <3>1, <3>2 DEF NetEntry
    <3> QED
      BY <2>1, <3>3 DEF b
  <2> QED
    BY <2>2, <2>3
<1>12. \A h \in DOMAIN table : table[h].key = k /\ mine # {} => h \in mine
  <2> SUFFICES ASSUME NEW h \in DOMAIN table, table[h].key = k, mine # {}
               PROVE  h \in mine
    OBVIOUS
  <2>1. PICK g \in DOMAIN table : g \in mine /\ table[g].key = k
    OBVIOUS
  <2>2. h = g
    BY <1>1, <2>1 DEF NetFine, TableFine
  <2> QED
    BY <2>1, <2>2
<1> HIDE DEF refused
<1>13. TransportFine(conns', events)
  <2>1. \A g \in 1..Len(conns') : /\ conns'[g].st = "opening" => conns'[g].asker # {}
                                  /\ conns'[g].asker # {} => conns'[g].sent <= Early
    <3> SUFFICES ASSUME NEW g \in 1..Len(conns')
                 PROVE  /\ conns'[g].st = "opening" => conns'[g].asker # {}
                        /\ conns'[g].asker # {} => conns'[g].sent <= Early
      OBVIOUS
    <3>1. CASE g = k
      BY <1>3, <1>7, <1>8, <3>1
    <3>2. CASE g # k
      BY <1>1, <1>8, <3>2 DEF TransportFine
    <3> QED
      BY <3>1, <3>2
  <2>2. ASSUME NEW j \in 1..Len(events)
        PROVE  EventFine(events[j], conns')
    <3>1. EventFine(events[j], conns) /\ events[j].key \in 1..Len(conns)
      BY <1>1 DEF TransportFine, EventFine
    <3>2. /\ conns'[events[j].key].sent = conns[events[j].key].sent
          /\ conns[events[j].key].st = "down" => conns'[events[j].key].st = "down"
          /\ conns[events[j].key].asker = {} => conns'[events[j].key].asker = {}
      BY <1>7, <1>8, <3>1
    <3> QED
      BY <1>8, <3>1, <3>2 DEF EventFine
  <2>3. \A i, j \in 1..Len(events) : i < j => Ordered(events[i], events[j])
    BY <1>1 DEF TransportFine
  <2> QED
    BY <1>2, <1>8, <2>1, <2>2, <2>3 DEF TransportFine
<1>14. ASSUME NEW h \in DOMAIN table'
       PROVE  EntryFine(table'[h], conns')
  <2> DEFINE en == table[h]
  <2> DEFINE en2 == table'[h]
  <2>1. /\ h \in DOMAIN table /\ en2 \in NetEntry /\ en2.key = en.key
        /\ en2.inbound = en.inbound /\ en2.queue = en.queue
        /\ en2.vital = en.vital /\ en2.waiting = en.waiting /\ en2.gone = en.gone
        /\ en2.conn = (en.conn \/ h \in mine)
    BY <1>11
  <2>2. EntryFine(en, conns) /\ en.key \in 1..Len(conns)
    BY <1>9, <2>1
  <2>3. h \in mine => en.key = k
    OBVIOUS
  <2>4. en.key = k /\ mine # {} => h \in mine
    BY <1>12, <2>1
  <2> HIDE DEF en, en2, mine
  <2>5. CASE en.key = k
    <3>1. conns'[en.key].asker = {} /\ conns'[en.key].st = IF ~refused /\ mine = {} THEN "down" ELSE conns[en.key].st
      BY <1>7, <1>8, <2>2, <2>5
    <3>2. conns'[en.key].st = "up" /\ ~refused => h \in mine
      BY <2>4, <2>5, <3>1
    <3>3. refused => conns'[en.key].st = "refused"
      BY <2>5, <3>1 DEF refused
    <3> QED
      BY <1>8, <2>1, <2>2, <3>1, <3>2, <3>3 DEF EntryFine, en2
  <2>6. CASE en.key # k
    <3>1. conns'[en.key] = conns[en.key]
      BY <1>8, <2>2, <2>6
    <3>2. h \notin mine
      BY <2>3, <2>6
    <3> QED
      BY <1>8, <2>1, <2>2, <3>1, <3>2 DEF EntryFine, en2
  <2> QED
    BY <2>5, <2>6
<1>15. /\ TableFine(table, conns) /\ Fresh(table, events, 0)
       /\ Lines(table, next, pushes, conns, events, 0) /\ Reached(table, {}, conns, events, 0)
  BY <1>1 DEF NetFine
<1>16. TableFine(table', conns')
  BY <1>11, <1>14, <1>15 DEF TableFine
<1>17. Fresh(table', events, 0)
  BY <1>11, <1>15 DEF Fresh
<1>18. Lines(table', next, pushes, conns', events, 0)
  <2>1. \A h \in DOMAIN table' : Line(table'[h], h, pushes, conns'[table'[h].key].sent, events, 0)
    <3> SUFFICES ASSUME NEW h \in DOMAIN table'
                 PROVE  Line(table'[h], h, pushes, conns'[table'[h].key].sent, events, 0)
      OBVIOUS
    <3>1. /\ h \in DOMAIN table /\ table'[h].key = table[h].key /\ table'[h].inbound = table[h].inbound
      BY <1>11
    <3>2. conns'[table[h].key].sent = conns[table[h].key].sent
      BY <1>7, <1>8, <1>9, <3>1
    <3>3. Line(table[h], h, pushes, conns[table[h].key].sent, events, 0)
      BY <1>15, <3>1 DEF Lines
    <3> QED
      BY <3>1, <3>2, <3>3 DEF Line
  <2> QED
    BY <1>15, <2>1 DEF Lines
<1>19. Reached(table', {}, conns', events, 0)
  <2> SUFFICES ASSUME NEW g \in 1..Len(conns'), Settled, conns'[g].st = "up"
               PROVE  \/ g \in {}
                      \/ conns'[g].asker # {}
                      \/ \E h \in DOMAIN table' : table'[h].key = g /\ ~table'[h].gone
                      \/ \E j \in (0 + 1)..Len(events) : events[j].kind = "accepted" /\ events[j].key = g
    BY DEF Reached
  <2>1. CASE g = k
    <3>1. ~refused /\ mine # {} /\ conns[k].st = "up"
      BY <1>7, <1>8, <2>1 DEF refused
    <3>2. PICK h \in DOMAIN table : h \in mine /\ table[h].key = k
      BY <3>1
    <3>3. h \in DOMAIN table'
      BY <1>10, <3>1
    <3>4. ~table[h].gone
      <4>1. EntryFine(table[h], conns)
        BY <1>9
      <4> HIDE DEF mine
      <4> QED
        BY <1>3, <3>1, <3>2, <4>1 DEF EntryFine
    <3>5. table'[h].key = g /\ ~table'[h].gone
      BY <1>11, <2>1, <3>2, <3>3, <3>4
    <3> QED
      BY <3>3, <3>5
  <2>2. CASE g # k
    <3>1. g \in 1..Len(conns) /\ conns'[g] = conns[g]
      BY <1>8, <2>2
    <3>2. \/ conns[g].asker # {}
          \/ \E h \in DOMAIN table : table[h].key = g /\ ~table[h].gone
          \/ \E j \in (0 + 1)..Len(events) : events[j].kind = "accepted" /\ events[j].key = g
      BY <1>15, <3>1 DEF Reached
    <3>3. CASE \E h \in DOMAIN table : table[h].key = g /\ ~table[h].gone
      <4>1. PICK h \in DOMAIN table : table[h].key = g /\ ~table[h].gone
        BY <3>3
      <4>2. h \notin mine
        BY <2>2, <4>1
      <4>3. h \in DOMAIN table'
        BY <1>10, <4>2
      <4>4. table'[h].key = g /\ ~table'[h].gone
        BY <1>11, <4>1, <4>3
      <4> QED
        BY <4>3, <4>4
    <3> QED
      BY <3>1, <3>2, <3>3
  <2> QED
    BY <2>1, <2>2
<1>20. Accounted(table', next, offers, gone, TRUE)
  <2>1. next \in Nat /\ next <= next /\ DOMAIN table' \subseteq 1..(next - 1)
    BY <1>1, <1>11 DEF Accounted
  <2>2. \A h \in DOMAIN table' : table'[h].owner \in Inst \ gone
    BY <1>1, <1>11 DEF Accounted
  <2>3. \A i \in 1..Len(offers) : Backed(table', offers[i], TRUE)
    <3> SUFFICES ASSUME NEW i \in 1..Len(offers)
                 PROVE  Backed(table', offers[i], TRUE)
      OBVIOUS
    <3>1. Backed(table, offers[i], TRUE)
      BY <1>1 DEF Accounted
    <3> QED
      BY <1>11, <3>1 DEF Backed
  <2> QED
    BY <1>1, <2>1, <2>2, <2>3, SameAccounted
<1>21. Shown(table', offers)
  BY <1>1, <1>11 DEF Shown
<1>22. NetInv'
  BY <1>3, <1>13, <1>16, <1>17, <1>18, <1>19, <1>20, <1>21 DEF NetInv, NetFine
<1>23. NetVital
  <2> SUFFICES ASSUME NEW h \in DOMAIN table, conns[table[h].key].st # "refused",
                      h \notin DOMAIN table' \/ (~table[h].gone /\ table'[h].gone /\ table'[h].owner = table[h].owner)
               PROVE  FALSE
    BY DEF NetVital
  <2>1. h \notin DOMAIN table'
    BY <1>11
  <2>2. refused /\ h \in mine
    BY <1>10, <2>1
  <2> QED
    BY <2>2 DEF refused
<1> QED
  BY <1>22, <1>23

\* What flush pushes for an owner that named a queue.
LEMMA FlushIs ==
    ASSUME NEW en \in NetEntry, en.queue, NEW h \in Nat, NEW q, q = N!Flush(en, h)
    PROVE  /\ q \in Seq(NetPush) /\ Len(en.inbound) <= Len(q)
           /\ \A b \in 1..Len(q) : /\ q[b][2][1] = h
                                   /\ b \in 1..Len(en.inbound) => q[b][2][2] = en.inbound[b]
                                   /\ b \notin 1..Len(en.inbound) => q[b][2][2] = 0
<1> DEFINE m == en.inbound
<1> DEFINE first == [i \in DOMAIN m |-> <<en.owner, <<h, m[i]>>>>]
<1> DEFINE x == <<en.owner, <<h, 0>>>>
<1> DEFINE last == IF en.gone THEN <<x>> ELSE <<>>
<1>1. m \in Seq(Nat \ {0}) /\ en.owner \in Inst /\ DOMAIN m = 1..Len(m) /\ Len(m) \in Nat /\ \A b \in 1..Len(m) : m[b] \in Nat
  BY DEF NetEntry
<1>2. q = first \o last
  BY DEF N!Flush, N!Notice
<1>3. /\ first \in Seq(NetPush) /\ Len(first) = Len(m)
      /\ \A b \in 1..Len(m) : first[b][2][1] = h /\ first[b][2][2] = m[b]
  <2>1. \A b \in 1..Len(m) : <<en.owner, <<h, m[b]>>>> \in NetPush
    BY <1>1 DEF NetPush
  <2>2. first = [i \in 1..Len(m) |-> <<en.owner, <<h, m[i]>>>>]
    BY <1>1
  <2>3. \A b \in 1..Len(m) : first[b] = <<en.owner, <<h, m[b]>>>>
    BY <2>2
  <2> HIDE DEF m
  <2> QED
    BY <1>1, <2>1, <2>2, <2>3
<1>4. /\ last \in Seq(NetPush) /\ \A b \in 1..Len(last) : last[b][2][1] = h /\ last[b][2][2] = 0
  <2>1. x \in NetPush /\ x[2][1] = h /\ x[2][2] = 0
    BY <1>1 DEF NetPush
  <2> HIDE DEF x
  <2>2. CASE en.gone
    <3>1. last = <<x>>
      BY <2>2
    <3>2. <<x>> \in Seq(NetPush) /\ Len(<<x>>) = 1 /\ <<x>>[1] = x
      BY <2>1
    <3> HIDE DEF last
    <3> QED
      BY <2>1, <3>1, <3>2
  <2>3. CASE ~en.gone
    <3>1. last = <<>>
      BY <2>3
    <3> HIDE DEF last
    <3> QED
      BY <3>1
  <2> QED
    BY <2>2, <2>3
<1> HIDE DEF m, first, last
<1>5. q \in Seq(NetPush) /\ Len(q) = Len(m) + Len(last) /\ Len(last) \in Nat
  <2>1. first \in Seq(NetPush) /\ last \in Seq(NetPush) /\ Len(first) = Len(m)
    BY <1>3, <1>4
  <2>2. Len(first \o last) = Len(first) + Len(last) /\ first \o last \in Seq(NetPush) /\ Len(last) \in Nat
    BY <2>1
  <2> QED
    BY <1>2, <2>1, <2>2
<1>6. ASSUME NEW b \in 1..Len(q)
      PROVE  /\ q[b][2][1] = h
             /\ b \in 1..Len(m) => q[b][2][2] = m[b]
             /\ b \notin 1..Len(m) => q[b][2][2] = 0
  <2>1. CASE b \in 1..Len(m)
    <3>1. q[b] = first[b]
      BY <1>1, <1>2, <1>3, <1>4, <2>1
    <3> QED
      BY <1>3, <2>1, <3>1
  <2>2. CASE b \notin 1..Len(m)
    <3>1. q[b] = last[b - Len(m)] /\ b - Len(m) \in 1..Len(last)
      BY <1>1, <1>2, <1>3, <1>4, <1>5, <2>2
    <3> QED
      BY <1>4, <2>2, <3>1
  <2> QED
    BY <2>1, <2>2
<1>7. Len(m) <= Len(q)
  BY <1>1, <1>5
<1> QED
  BY <1>5, <1>6, <1>7 DEF m

\* The line of an entry that is flushed: what was buffered is pushed.
LEMMA FlushedLine ==
    ASSUME NEW p \in Seq(NetPush), NEW q \in Seq(NetPush), NEW en, NEW en2, NEW h, NEW sent \in Nat, NEW e, NEW i \in Nat,
           Line(en, h, p, sent, e, i), en.inbound \in Seq(Nat \ {0}), en2.inbound = <<>>, en2.key = en.key,
           \A b \in 1..Len(q) : /\ b \in 1..Len(en.inbound) => q[b][2][2] = en.inbound[b]
                                /\ b \notin 1..Len(en.inbound) => q[b][2][2] = 0
    PROVE  Line(en2, h, p \o q, sent, e, i)
<1> DEFINE r == p \o q
<1> DEFINE m == en.inbound
<1>1. Len(r) = Len(p) + Len(q) /\ \A a \in 1..Len(r) : IF a <= Len(p) THEN r[a] = p[a] ELSE r[a] = q[a - Len(p)]
  OBVIOUS
<1>2. \A a \in 1..Len(r) : a \notin 1..Len(p) => a - Len(p) \in 1..Len(q)
  BY <1>1
<1> HIDE DEF r
<1>3. ASSUME NEW a \in 1..Len(r), Says(r[a], h)
      PROVE  \/ a \in 1..Len(p) /\ r[a] = p[a] /\ Says(p[a], h)
             \/ /\ a \notin 1..Len(p) /\ Len(p) < a /\ a - Len(p) \in 1..Len(m)
                /\ r[a][2][2] = m[a - Len(p)]
  <2>1. CASE a \in 1..Len(p)
    BY <1>1, <1>3, <2>1
  <2>2. CASE a \notin 1..Len(p)
    <3>1. a - Len(p) \in 1..Len(q) /\ r[a] = q[a - Len(p)] /\ Len(p) < a
      BY <1>1, <1>2, <2>2
    <3>2. r[a][2][2] # 0
      BY <1>3 DEF Says
    <3>3. a - Len(p) \in 1..Len(m)
      BY <3>1, <3>2
    <3> QED
      BY <2>2, <3>1, <3>3
  <2> QED
    BY <2>1, <2>2
<1>4. \A a \in 1..Len(p) : p[a][2][2] \in Nat
  BY DEF NetPush
<1>5. \A a \in 1..Len(m) : m[a] \in Nat
  OBVIOUS
<1>6. /\ \A a \in 1..Len(p) : Says(p[a], h) =>
            /\ p[a][2][2] <= sent
            /\ \A b \in 1..Len(p) : a < b /\ Says(p[b], h) => p[a][2][2] < p[b][2][2]
            /\ \A b \in 1..Len(m) : p[a][2][2] < m[b]
      /\ \A a \in 1..Len(m) :
            /\ m[a] <= sent
            /\ \A b \in 1..Len(m) : a < b => m[a] < m[b]
      /\ \A j \in (i + 1)..Len(e) : e[j].kind = "data" /\ e[j].key = en.key =>
            /\ \A a \in 1..Len(p) : Says(p[a], h) => p[a][2][2] < e[j].data
            /\ \A a \in 1..Len(m) : m[a] < e[j].data
  BY DEF Line
<1> HIDE DEF m
<1>7. ASSUME NEW a \in 1..Len(r), Says(r[a], h)
      PROVE  /\ r[a][2][2] <= sent
             /\ \A b \in 1..Len(r) : a < b /\ Says(r[b], h) => r[a][2][2] < r[b][2][2]
             /\ \A j \in (i + 1)..Len(e) : e[j].kind = "data" /\ e[j].key = en.key => r[a][2][2] < e[j].data
  <2>1. CASE a \in 1..Len(p) /\ r[a] = p[a] /\ Says(p[a], h)
    <3>1. \A b \in 1..Len(r) : a < b /\ Says(r[b], h) => r[a][2][2] < r[b][2][2]
      <4> SUFFICES ASSUME NEW b \in 1..Len(r), a < b, Says(r[b], h)
                   PROVE  r[a][2][2] < r[b][2][2]
        OBVIOUS
      <4>1. \/ b \in 1..Len(p) /\ r[b] = p[b] /\ Says(p[b], h)
            \/ /\ b \notin 1..Len(p) /\ Len(p) < b /\ b - Len(p) \in 1..Len(m)
               /\ r[b][2][2] = m[b - Len(p)]
        BY <1>3
      <4> QED
        BY <1>6, <2>1, <4>1
    <3> QED
      BY <1>6, <2>1, <3>1
  <2>2. CASE a \notin 1..Len(p) /\ Len(p) < a /\ a - Len(p) \in 1..Len(m) /\ r[a][2][2] = m[a - Len(p)]
    <3>1. \A b \in 1..Len(r) : a < b /\ Says(r[b], h) => r[a][2][2] < r[b][2][2]
      <4> SUFFICES ASSUME NEW b \in 1..Len(r), a < b, Says(r[b], h)
                   PROVE  r[a][2][2] < r[b][2][2]
        OBVIOUS
      <4>1. \/ b \in 1..Len(p) /\ r[b] = p[b] /\ Says(p[b], h)
            \/ /\ b \notin 1..Len(p) /\ Len(p) < b /\ b - Len(p) \in 1..Len(m)
               /\ r[b][2][2] = m[b - Len(p)]
        BY <1>3
      <4>2. b - Len(p) \in 1..Len(m) /\ r[b][2][2] = m[b - Len(p)] /\ a - Len(p) < b - Len(p)
        BY <2>2, <4>1
      <4> QED
        BY <1>6, <2>2, <4>2
    <3> QED
      BY <1>6, <2>2, <3>1
  <2> QED
    BY <1>3, <1>7, <2>1, <2>2
<1>8. \A a \in 1..Len(en2.inbound) : FALSE
  OBVIOUS
<1> QED
  BY <1>7, <1>8 DEF Line, r

\* What is left when entry h is handed on, as en.
HandedOn(t, h, en, nx, p, c, e) ==
    /\ NetFine([t EXCEPT ![h] = N!Flushed(en)], nx, p \o N!Flush(en, h), {}, c, e, 0)
    /\ N!Flushed(en).owner = en.owner /\ N!Flushed(en).waiting = en.waiting /\ N!Flushed(en).gone = en.gone

\* An entry is handed on: as it is or flushed.
LEMMA Handed ==
    ASSUME NEW t, NEW nx \in Nat, NEW p, NEW c \in Seq(NetConn), NEW e \in Seq(NetEvent), NetFine(t, nx, p, {}, c, e, 0),
           NEW h \in DOMAIN t, h \in Nat, h < nx, \A g \in DOMAIN t : g \in Nat,
           NEW en \in NetEntry, en.key = t[h].key, en.conn = t[h].conn, en.inbound = t[h].inbound, en.gone = t[h].gone,
           en.waiting # 0 => ~en.vital
    PROVE  HandedOn(t, h, en, nx, p, c, e)
<1> DEFINE f == N!Flushed(en)
<1> DEFINE t2 == [t EXCEPT ![h] = f]
<1> DEFINE q == N!Flush(en, h)
<1>1. /\ EntryFine(t[h], c) /\ t[h] \in NetEntry /\ t[h].key \in 1..Len(c)
      /\ t[h].inbound \in Seq(Nat \ {0})
      /\ Line(t[h], h, p, c[t[h].key].sent, e, 0)
      /\ p \in Seq(NetPush)
  BY AtEntry
<1>2. TableFine(t, c) /\ Fresh(t, e, 0) /\ Lines(t, nx, p, c, e, 0) /\ Reached(t, {}, c, e, 0)
  BY DEF NetFine
<1>3. c[t[h].key] \in NetConn /\ c[t[h].key].sent \in Nat /\ c[t[h].key].sent <= c[t[h].key].sent
  <2>1. c[t[h].key] \in NetConn
    BY <1>1
  <2> QED
    BY <2>1 DEF NetConn
<1> DEFINE m2 == IF en.queue THEN <<>> ELSE en.inbound
<1>4. /\ f \in NetEntry /\ f.owner = en.owner /\ f.key = en.key /\ f.conn = en.conn /\ f.queue = en.queue
      /\ f.vital = en.vital /\ f.waiting = en.waiting /\ f.gone = en.gone /\ f.inbound = m2
  <2>1. f = [en EXCEPT !.inbound = m2]
    BY DEF N!Flushed
  <2>2. m2 \in Seq(Nat \ {0})
    <3>1. en.inbound \in Seq(Nat \ {0})
      BY <1>1
    <3>2. <<>> \in Seq(Nat \ {0})
      OBVIOUS
    <3> QED
      BY <3>1, <3>2
  <2> HIDE DEF m2
  <2> QED
    BY <2>1, <2>2 DEF NetEntry
<1>5. EntryFine(f, c)
  <2>1. f.queue => f.inbound = <<>>
    BY <1>4
  <2> HIDE DEF m2
  <2> QED
    BY <1>1, <1>4, <2>1 DEF EntryFine
<1>6. /\ q \in Seq(NetPush) /\ \A b \in 1..Len(q) : q[b][2][1] = h
      /\ Line(f, h, p \o q, c[t[h].key].sent, e, 0)
  <2>1. CASE en.queue
    <3>1. /\ q \in Seq(NetPush)
          /\ \A b \in 1..Len(q) : /\ q[b][2][1] = h
                                  /\ b \in 1..Len(en.inbound) => q[b][2][2] = en.inbound[b]
                                  /\ b \notin 1..Len(en.inbound) => q[b][2][2] = 0
      BY <2>1, FlushIs
    <3>2. \A b \in 1..Len(q) : /\ b \in 1..Len(t[h].inbound) => q[b][2][2] = t[h].inbound[b]
                               /\ b \notin 1..Len(t[h].inbound) => q[b][2][2] = 0
      BY <3>1
    <3>3. f.inbound = <<>> /\ f.key = t[h].key
      BY <1>4, <2>1
    <3>4. 0 \in Nat
      OBVIOUS
    <3>5. Line(f, h, p \o q, c[t[h].key].sent, e, 0)
      BY <1>1, <1>3, <3>1, <3>2, <3>3, <3>4, FlushedLine
    <3> QED
      BY <3>1, <3>5
  <2>2. CASE ~en.queue
    <3>1. q = <<>>
      BY <2>2 DEF N!Flush
    <3>2. q \in Seq(NetPush) /\ \A b \in 1..Len(q) : FALSE
      BY <3>1
    <3>3. f.inbound = t[h].inbound /\ f.key = t[h].key
      BY <1>4, <2>2
    <3>4. 0 \in Nat /\ 0 <= 0
      OBVIOUS
    <3>5. Line(f, h, p \o q, c[t[h].key].sent, e, 0)
      <4>1. \A b \in 1..Len(q) : ~Says(q[b], h)
        BY <3>2
      <4> QED
        BY <1>1, <1>3, <3>2, <3>3, <3>4, <4>1, LineKept
    <3> QED
      BY <3>2, <3>5
  <2> QED
    BY <2>1, <2>2
<1> HIDE DEF m2
<1>7. DOMAIN t2 = DOMAIN t /\ t2[h] = f /\ \A g \in DOMAIN t \ {h} : t2[g] = t[g]
  OBVIOUS
<1>8. \A b \in 1..Len(q) : q[b][2][1] < nx /\ \A g \in DOMAIN t \ {h} : ~Says(q[b], g)
  BY <1>6 DEF Says
<1>9. TableFine(t2, c) /\ Fresh(t2, e, 0) /\ Lines(t2, nx, p \o q, c, e, 0)
  <2>1. 0 \in Nat /\ 0 <= 0
    OBVIOUS
  <2>2. EntryFine(t2[h], c) /\ t2[h].key = t[h].key /\ Line(t2[h], h, p \o q, c[t2[h].key].sent, e, 0)
    BY <1>4, <1>5, <1>6, <1>7
  <2> QED
    BY <1>2, <1>6, <1>7, <1>8, <2>1, <2>2, Exchange
<1>10. Reached(t2, {}, c, e, 0)
  <2>1. \A g \in DOMAIN t : t2[g].key = t[g].key /\ t2[g].gone = t[g].gone
    BY <1>4, <1>7
  <2> QED
    BY <1>2, <1>7, <2>1 DEF Reached
<1> QED
  BY <1>4, <1>9, <1>10 DEF NetFine, HandedOn

\* The oldest message is read.
LEMMA OneRead ==
    ASSUME NEW t, NEW nx \in Nat, NEW p, NEW c \in Seq(NetConn), NEW e \in Seq(NetEvent), NetFine(t, nx, p, {}, c, e, 0),
           NEW h \in DOMAIN t, t[h].inbound # <<>>
    PROVE  NetFine([t EXCEPT ![h] = [t[h] EXCEPT !.inbound = Tail(t[h].inbound)]], nx, p, {}, c, e, 0)
<1> DEFINE t2 == [t EXCEPT ![h] = [t[h] EXCEPT !.inbound = Tail(t[h].inbound)]]
<1> DEFINE m == t[h].inbound
<1> DEFINE m2 == Tail(m)
<1> DEFINE f == [t[h] EXCEPT !.inbound = m2]
<1>1. /\ EntryFine(t[h], c) /\ t[h] \in NetEntry
      /\ m \in Seq(Nat \ {0})
      /\ Line(t[h], h, p, c[t[h].key].sent, e, 0)
      /\ p \in Seq(NetPush) /\ \A a \in 1..Len(p) : p[a][2][2] \in Nat
  BY AtEntry
<1>2. TableFine(t, c) /\ Fresh(t, e, 0) /\ Lines(t, nx, p, c, e, 0) /\ Reached(t, {}, c, e, 0)
  BY DEF NetFine
<1>10. DOMAIN t2 = DOMAIN t /\ t2[h] = f /\ \A g \in DOMAIN t \ {h} : t2[g] = t[g]
  OBVIOUS
<1>3. m2 \in Seq(Nat \ {0}) /\ Len(m2) + 1 = Len(m) /\ Len(m2) \in Nat /\ \A a \in 1..Len(m2) : m2[a] = m[a + 1]
  BY <1>1
<1>4. \A a \in 1..Len(m2) : a + 1 \in 1..Len(m)
  BY <1>3
<1>5. /\ f \in NetEntry /\ f.owner = t[h].owner /\ f.key = t[h].key /\ f.conn = t[h].conn /\ f.queue = t[h].queue
      /\ f.vital = t[h].vital /\ f.waiting = t[h].waiting /\ f.gone = t[h].gone /\ f.inbound = m2
  <2> HIDE DEF m
  <2> QED
    BY <1>1, <1>3 DEF NetEntry
<1>6. EntryFine(f, c)
  BY <1>1, <1>5 DEF EntryFine
<1>7. Line(f, h, p, c[t[h].key].sent, e, 0)
  <2>1. /\ \A a \in 1..Len(p) : Says(p[a], h) =>
              /\ p[a][2][2] <= c[t[h].key].sent
              /\ \A b \in 1..Len(p) : a < b /\ Says(p[b], h) => p[a][2][2] < p[b][2][2]
              /\ \A b \in 1..Len(m) : p[a][2][2] < m[b]
        /\ \A a \in 1..Len(m) :
              /\ m[a] <= c[t[h].key].sent
              /\ \A b \in 1..Len(m) : a < b => m[a] < m[b]
        /\ \A j \in (0 + 1)..Len(e) : e[j].kind = "data" /\ e[j].key = t[h].key =>
              /\ \A a \in 1..Len(p) : Says(p[a], h) => p[a][2][2] < e[j].data
              /\ \A a \in 1..Len(m) : m[a] < e[j].data
    BY <1>1 DEF Line
  <2> HIDE DEF m
  <2>2. \A a \in 1..Len(m2) :
              /\ m2[a] <= c[t[h].key].sent
              /\ \A b \in 1..Len(m2) : a < b => m2[a] < m2[b]
    <3> SUFFICES ASSUME NEW a \in 1..Len(m2)
                 PROVE  /\ m2[a] <= c[t[h].key].sent
                        /\ \A b \in 1..Len(m2) : a < b => m2[a] < m2[b]
      OBVIOUS
    <3>1. \A b \in 1..Len(m2) : a < b => a + 1 < b + 1
      OBVIOUS
    <3> QED
      BY <1>3, <1>4, <2>1, <3>1
  <2>3. \A a \in 1..Len(p) : Says(p[a], h) =>
              /\ p[a][2][2] <= c[t[h].key].sent
              /\ \A b \in 1..Len(p) : a < b /\ Says(p[b], h) => p[a][2][2] < p[b][2][2]
              /\ \A b \in 1..Len(m2) : p[a][2][2] < m2[b]
    BY <1>3, <1>4, <2>1
  <2>4. \A j \in (0 + 1)..Len(e) : e[j].kind = "data" /\ e[j].key = t[h].key =>
              /\ \A a \in 1..Len(p) : Says(p[a], h) => p[a][2][2] < e[j].data
              /\ \A a \in 1..Len(m2) : m2[a] < e[j].data
    BY <1>3, <1>4, <2>1
  <2> QED
    BY <1>5, <2>2, <2>3, <2>4 DEF Line
<1> DEFINE none == <<>>
<1>8. none \in Seq(NetPush) /\ \A b \in 1..Len(none) : none[b][2][1] < nx /\ \A g \in DOMAIN t \ {h} : ~Says(none[b], g)
  OBVIOUS
<1>9. p \o none = p
  BY <1>1
<1> HIDE DEF none
<1>11. TableFine(t2, c) /\ Fresh(t2, e, 0) /\ Lines(t2, nx, p \o none, c, e, 0)
  <2>1. 0 \in Nat /\ 0 <= 0
    OBVIOUS
  <2>2. EntryFine(t2[h], c) /\ t2[h].key = t[h].key /\ Line(t2[h], h, p \o none, c[t2[h].key].sent, e, 0)
    BY <1>5, <1>6, <1>7, <1>9, <1>10
  <2> QED
    BY <1>2, <1>8, <1>10, <2>1, <2>2, Exchange
<1>12. Reached(t2, {}, c, e, 0)
  <2>1. \A g \in DOMAIN t : t2[g].key = t[g].key /\ t2[g].gone = t[g].gone
    BY <1>5, <1>10
  <2> QED
    BY <1>2, <1>10, <2>1 DEF Reached
<1> QED
  BY <1>5, <1>9, <1>11, <1>12 DEF NetFine

\* An entry as accept takes it.
LEMMA AcceptedEntry ==
    ASSUME NEW r \in NetEntry, NEW v \in BOOLEAN, NEW q \in BOOLEAN, NEW en,
           en = [r EXCEPT !.waiting = 0, !.vital = v, !.queue = q]
    PROVE  /\ en \in NetEntry /\ en.owner = r.owner /\ en.key = r.key /\ en.conn = r.conn
           /\ en.inbound = r.inbound /\ en.waiting = 0 /\ en.gone = r.gone
<1> DEFINE a == [r EXCEPT !.waiting = 0]
<1>1. /\ a \in NetEntry /\ a.owner = r.owner /\ a.key = r.key /\ a.conn = r.conn
      /\ a.inbound = r.inbound /\ a.waiting = 0 /\ a.gone = r.gone
  BY DEF NetEntry
<1>2. en = [[a EXCEPT !.vital = v] EXCEPT !.queue = q]
  OBVIOUS
<1> HIDE DEF a
<1> DEFINE b == [a EXCEPT !.vital = v]
<1>3. /\ b \in NetEntry /\ b.owner = a.owner /\ b.key = a.key /\ b.conn = a.conn
      /\ b.inbound = a.inbound /\ b.waiting = a.waiting /\ b.gone = a.gone
  BY <1>1 DEF NetEntry
<1>4. en = [b EXCEPT !.queue = q]
  BY <1>2
<1> HIDE DEF b
<1>5. /\ en \in NetEntry /\ en.owner = b.owner /\ en.key = b.key /\ en.conn = b.conn
      /\ en.inbound = b.inbound /\ en.waiting = b.waiting /\ en.gone = b.gone
  BY <1>3, <1>4 DEF NetEntry
<1> QED
  BY <1>1, <1>3, <1>5

Claimed(r, n, v, q) == [r EXCEPT !.owner = n, !.vital = v, !.queue = q]

SameBut(en, r, n) ==
    /\ en \in NetEntry /\ en.owner = n /\ en.key = r.key /\ en.conn = r.conn
    /\ en.inbound = r.inbound /\ en.waiting = r.waiting /\ en.gone = r.gone

\* Only the owner, the flag and the queue of a claimed entry change.
LEMMA ClaimedEntry ==
    ASSUME NEW r \in NetEntry, NEW n \in Inst, NEW v \in BOOLEAN, NEW q \in BOOLEAN
    PROVE  SameBut(Claimed(r, n, v, q), r, n)
<1> DEFINE en == Claimed(r, n, v, q)
<1> DEFINE a == [r EXCEPT !.owner = n]
<1>1. /\ a \in NetEntry /\ a.owner = n /\ a.key = r.key /\ a.conn = r.conn
      /\ a.inbound = r.inbound /\ a.waiting = r.waiting /\ a.gone = r.gone
  BY DEF NetEntry
<1>2. en = [[a EXCEPT !.vital = v] EXCEPT !.queue = q]
  BY DEF Claimed
<1> HIDE DEF en
<1> HIDE DEF a
<1> DEFINE b == [a EXCEPT !.vital = v]
<1>3. /\ b \in NetEntry /\ b.owner = a.owner /\ b.key = a.key /\ b.conn = a.conn
      /\ b.inbound = a.inbound /\ b.waiting = a.waiting /\ b.gone = a.gone
  BY <1>1 DEF NetEntry
<1>4. en = [b EXCEPT !.queue = q]
  BY <1>2
<1> HIDE DEF b
<1>5. /\ en \in NetEntry /\ en.owner = b.owner /\ en.key = b.key /\ en.conn = b.conn
      /\ en.inbound = b.inbound /\ en.waiting = b.waiting /\ en.gone = b.gone
  BY <1>3, <1>4 DEF NetEntry
<1> QED
  BY <1>1, <1>3, <1>5 DEF SameBut, en

\* accept: the connection that waits longest is the caller's to see.
LEMMA NetAccept ==
    ASSUME NetInv, NEW n \in Inst, NEW l, NEW v \in BOOLEAN, NEW q \in BOOLEAN, N!Accept(n, l, v, q)
    PROVE  NetInv' /\ NetVital
<1> DEFINE s == N!Sweep
<1> DEFINE wait == N!WaitingUnder(s.table, n, l)
<1> DEFINE h == CHOOSE k \in wait : \A j \in wait : k <= j
<1> DEFINE en == [s.table[h] EXCEPT !.waiting = 0, !.vital = v, !.queue = q]
<1> DEFINE f == N!Flushed(en)
<1> DEFINE said == N!Flush(en, h)
<1>1. /\ gone' = gone /\ next' = s.next /\ ended' = s.ended /\ conns' = N!Down(s.close)
      /\ events' = <<>> /\ offers' = offers /\ wait # {}
      /\ table' = [s.table EXCEPT ![h] = f] /\ pushes' = s.pushes \o said
  BY DEF N!Accept, N!Calls, N!swarmVars, N!Rest
<1>2. s = N!Sweep
  OBVIOUS
<1> HIDE DEF s
<1>3. /\ TransportFine(conns', <<>>) /\ NetFine(s.table, s.next, s.pushes, {}, conns', <<>>, 0)
      /\ Accounted(s.table, s.next, offers, gone, TRUE) /\ Shown(s.table, offers)
      /\ Tells(table, ended, s.table, s.ended)
  BY <1>1, <1>2, NetSwept
<1>4. s.next \in Nat /\ DOMAIN s.table \subseteq Nat /\ \A g \in DOMAIN s.table : g \in Nat /\ g < s.next
  BY <1>3, BelowNext
<1>5. h \in DOMAIN s.table /\ h \in Nat /\ h < s.next
  <2>1. wait \in SUBSET Nat /\ \A g \in wait : g \in DOMAIN s.table
    BY <1>4 DEF N!WaitingUnder
  <2> HIDE DEF wait
  <2>2. h \in wait
    BY <1>1, <2>1, OldestAddressed
  <2> HIDE DEF h
  <2> QED
    BY <1>4, <2>1, <2>2
<1> HIDE DEF h
<1>6. s.table[h] \in NetEntry
  BY <1>3, <1>5, AtEntry
<1>7. /\ en \in NetEntry /\ en.owner = s.table[h].owner /\ en.key = s.table[h].key /\ en.conn = s.table[h].conn
      /\ en.inbound = s.table[h].inbound /\ en.waiting = 0 /\ en.gone = s.table[h].gone
  BY <1>6, AcceptedEntry, ZenonT(30)
<1> HIDE DEF en
<1>8. f = N!Flushed(en) /\ said = N!Flush(en, h)
  OBVIOUS
<1> HIDE DEF f, said
<1> DEFINE t2 == [s.table EXCEPT ![h] = f]
<1> HIDE DEF t2
<1>9. conns' \in Seq(NetConn) /\ events' \in Seq(NetEvent)
  BY <1>1, <1>3 DEF TransportFine
<1>10. /\ NetFine(t2, s.next, s.pushes \o said, {}, conns', events', 0)
       /\ f.owner = en.owner /\ f.waiting = en.waiting /\ f.gone = en.gone
  <2> DEFINE c2 == conns'
  <2> DEFINE e2 == events'
  <2>1. c2 \in Seq(NetConn) /\ e2 \in Seq(NetEvent) /\ NetFine(s.table, s.next, s.pushes, {}, c2, e2, 0)
    BY <1>1, <1>3, <1>9
  <2>2. en.waiting # 0 => ~en.vital
    BY <1>7
  <2>3. \A g \in DOMAIN s.table : g \in Nat
    BY <1>4
  <2> HIDE DEF c2, e2
  <2>4. HandedOn(s.table, h, en, s.next, s.pushes, c2, e2)
    BY <1>4, <1>5, <1>7, <2>1, <2>2, <2>3, Handed
  <2> QED
    BY <1>8, <2>4 DEF HandedOn, c2, e2, t2
<1>11. DOMAIN t2 = DOMAIN s.table /\ t2[h] = f /\ \A g \in DOMAIN s.table \ {h} : t2[g] = s.table[g]
  BY <1>5 DEF t2
<1>12. \A g \in DOMAIN s.table : /\ t2[g].owner = s.table[g].owner /\ t2[g].gone = s.table[g].gone
                                 /\ t2[g].waiting = s.table[g].waiting \/ t2[g].waiting = 0
  BY <1>7, <1>10, <1>11
<1>13. table' = t2
  BY <1>1 DEF t2
<1>14. Accounted(t2, s.next, offers, gone, TRUE)
  BY <1>3, <1>11, <1>12, OwnersKept
<1>15. Shown(t2, offers)
  BY <1>3, <1>11, <1>12 DEF Shown
<1>16. NetInv'
  BY <1>1, <1>3, <1>10, <1>13, <1>14, <1>15 DEF NetInv
<1>17. NetVital
  BY <1>1, <1>3, <1>11, <1>12, <1>13, VitalTold
<1> QED
  BY <1>16, <1>17

\* recv: the oldest message buffered is read.
LEMMA NetRecv ==
    ASSUME NetInv, NEW n \in Inst, NEW h, N!Recv(n, h)
    PROVE  NetInv' /\ NetVital
<1> DEFINE s == N!Sweep
<1> DEFINE m2 == Tail(s.table[h].inbound)
<1> DEFINE f == [s.table[h] EXCEPT !.inbound = m2]
<1> DEFINE t2 == [s.table EXCEPT ![h] = f]
<1>1. /\ gone' = gone /\ next' = s.next /\ ended' = s.ended /\ conns' = N!Down(s.close)
      /\ events' = <<>> /\ offers' = offers /\ h \in DOMAIN s.table /\ s.table[h].inbound # <<>>
      /\ table' = t2 /\ pushes' = s.pushes
  BY DEF N!Recv, N!Calls, N!swarmVars, N!Rest, N!Looks
<1>2. s = N!Sweep
  OBVIOUS
<1> HIDE DEF s
<1>3. /\ TransportFine(conns', <<>>) /\ NetFine(s.table, s.next, s.pushes, {}, conns', <<>>, 0)
      /\ Accounted(s.table, s.next, offers, gone, TRUE) /\ Shown(s.table, offers)
      /\ Tells(table, ended, s.table, s.ended)
  BY <1>1, <1>2, NetSwept
<1>4. s.next \in Nat
  BY <1>3, BelowNext
<1>5. NetFine(t2, s.next, s.pushes, {}, conns', events', 0) /\ f.owner = s.table[h].owner
      /\ f.waiting = s.table[h].waiting /\ f.gone = s.table[h].gone
  <2> DEFINE c2 == conns'
  <2> DEFINE e2 == events'
  <2>1. c2 \in Seq(NetConn) /\ e2 \in Seq(NetEvent) /\ NetFine(s.table, s.next, s.pushes, {}, c2, e2, 0)
    BY <1>1, <1>3 DEF TransportFine
  <2> HIDE DEF c2, e2
  <2>2. NetFine([s.table EXCEPT ![h] = [s.table[h] EXCEPT !.inbound = Tail(s.table[h].inbound)]],
                s.next, s.pushes, {}, c2, e2, 0)
    <3> HIDE DEF m2, f, t2
    <3> QED
      BY <1>1, <1>4, <2>1, OneRead
  <2>3. f.owner = s.table[h].owner /\ f.waiting = s.table[h].waiting /\ f.gone = s.table[h].gone
    <3>1. s.table[h] \in NetEntry
      BY <1>1, <1>3, AtEntry
    <3> HIDE DEF m2
    <3> QED
      BY <3>1 DEF NetEntry
  <2> QED
    BY <2>2, <2>3 DEF c2, e2
<1> HIDE DEF f
<1>6. DOMAIN t2 = DOMAIN s.table /\ t2[h] = f /\ \A g \in DOMAIN s.table \ {h} : t2[g] = s.table[g]
  BY <1>1
<1> HIDE DEF t2
<1>7. \A g \in DOMAIN s.table : t2[g].owner = s.table[g].owner /\ t2[g].gone = s.table[g].gone /\ t2[g].waiting = s.table[g].waiting
  BY <1>5, <1>6
<1>8. Accounted(t2, s.next, offers, gone, TRUE)
  BY <1>3, <1>6, <1>7, OwnersKept
<1>9. Shown(t2, offers)
  BY <1>3, <1>6, <1>7 DEF Shown
<1>10. NetInv'
  BY <1>1, <1>3, <1>5, <1>8, <1>9 DEF NetInv
<1>11. NetVital
  BY <1>1, <1>3, <1>6, <1>7, VitalTold
<1> QED
  BY <1>10, <1>11

\* claim: the oldest offer goes, and the handle is the claimant's.
LEMMA NetClaim ==
    ASSUME NetInv, NEW n \in Inst, NEW named, NEW v \in BOOLEAN, NEW q \in BOOLEAN, N!Claim(n, named, v, q)
    PROVE  NetInv' /\ NetVital
<1> DEFINE i == N!Oldest(n, named)
<1> DEFINE h == offers[i][3]
<1> DEFINE en == [table[h] EXCEPT !.owner = n, !.vital = v, !.queue = q]
<1> DEFINE held == h \in DOMAIN table /\ table[h].owner = offers[i][1]
<1> DEFINE f == N!Flushed(en)
<1> DEFINE said == N!Flush(en, h)
<1>1. /\ n \notin gone /\ UNCHANGED <<gone, next, ended, conns, events>> /\ offers' = Only(offers, DOMAIN offers \ {i})
      /\ table' = (IF held THEN [table EXCEPT ![h] = f] ELSE table)
      /\ pushes' = (IF held THEN pushes \o said ELSE pushes)
  BY SameOperators DEF N!Claim, N!Calls, N!Driven, N!swarmVars, N!Taken, N!Holds
<1>2. /\ TransportFine(conns, events) /\ conns \in Seq(NetConn) /\ events \in Seq(NetEvent)
      /\ Accounted(table, next, offers, gone, TRUE) /\ Shown(table, offers)
      /\ NetFine(table, next, pushes, {}, conns, events, 0)
  BY DEF NetInv, TransportFine
<1>3. i \in 1..Len(offers) /\ DOMAIN offers = 1..Len(offers) /\ offers \in Seq(Inst \X Inst \X (1..(next - 1)))
  <2>1. N!Addressed(n, named) # {} /\ N!Addressed(n, named) \subseteq DOMAIN offers
    BY DEF N!Claim, N!Addressed
  <2>2. DOMAIN offers \subseteq Nat /\ DOMAIN offers = 1..Len(offers) /\ offers \in Seq(Inst \X Inst \X (1..(next - 1)))
    BY <1>2 DEF Accounted
  <2>3. i \in N!Addressed(n, named)
    BY <2>1, <2>2, OldestAddressed DEF N!Oldest
  <2> QED
    BY <2>1, <2>2, <2>3
<1> HIDE DEF i
<1>4. h \in DOMAIN table => held
  <2>1. Backed(table, offers[i], TRUE)
    BY <1>2, <1>3 DEF Accounted
  <2> QED
    BY <2>1 DEF Backed
<1>5. DOMAIN offers \ {i} \in SUBSET (1..Len(offers))
  BY <1>3
<1>6. CASE ~held
  <2>1. table' = table /\ pushes' = pushes /\ h \notin DOMAIN table
    BY <1>1, <1>4, <1>6
  <2>2. Accounted(table, next, offers', gone, TRUE)
    <3>1. \A k \in DOMAIN table : IF k = offers[i][3] THEN table[k].owner \in Inst \ gone ELSE table[k].owner = table[k].owner
      BY <2>1
    <3>2. Accounted(table, next, Only(offers, DOMAIN offers \ {i}), gone, TRUE)
      BY <1>2, <1>3, <3>1, ClaimAccounted
    <3> QED
      BY <1>1, <3>2
  <2>3. Shown(table, offers')
    <3>1. \A g \in DOMAIN table : table[g].waiting = table[g].waiting \/ table[g].waiting = 0
      OBVIOUS
    <3>2. DOMAIN table \subseteq DOMAIN table
      OBVIOUS
    <3>3. Shown(table, Only(offers, DOMAIN offers \ {i}))
      BY <1>2, <1>3, <1>5, <3>1, <3>2, ShownOnly
    <3> QED
      BY <1>1, <3>3
  <2> HIDE DEF h
  <2>4. NetInv'
    BY <1>1, <1>2, <2>1, <2>2, <2>3 DEF NetInv
  <2>5. NetVital
    BY <2>1 DEF NetVital
  <2> QED
    BY <2>4, <2>5
<1>7. CASE held
  <2>1. h \in DOMAIN table /\ table[h] \in NetEntry
    BY <1>2, <1>7, AtEntry
  <2>2. next \in Nat /\ h \in Nat /\ h < next /\ \A g \in DOMAIN table : g \in Nat
    BY <1>2, <2>1, BelowNext
  <2>3. table[h].waiting = 0
    BY <1>2, <1>3, <2>1 DEF Shown
  <2> HIDE DEF h
  <2>4. /\ en \in NetEntry /\ en.owner = n /\ en.key = table[h].key /\ en.conn = table[h].conn
        /\ en.inbound = table[h].inbound /\ en.waiting = table[h].waiting /\ en.gone = table[h].gone
    <3>1. SameBut(Claimed(table[h], n, v, q), table[h], n)
      BY <2>1, ClaimedEntry
    <3> QED
      BY <3>1 DEF SameBut, Claimed
  <2> HIDE DEF en
  <2>5. f = N!Flushed(en) /\ said = N!Flush(en, h)
    OBVIOUS
  <2> HIDE DEF f, said
  <2> DEFINE t2 == [table EXCEPT ![h] = f]
  <2> HIDE DEF t2
  <2>6. /\ NetFine(t2, next, pushes \o said, {}, conns, events, 0)
        /\ f.owner = en.owner /\ f.waiting = en.waiting /\ f.gone = en.gone
    <3>1. en.waiting # 0 => ~en.vital
      BY <2>3, <2>4
    <3>2. HandedOn(table, h, en, next, pushes, conns, events)
      BY <1>2, <2>1, <2>2, <2>4, <3>1, Handed
    <3> QED
      BY <2>5, <3>2 DEF HandedOn, t2
  <2>7. DOMAIN t2 = DOMAIN table /\ t2[h] = f /\ \A g \in DOMAIN table \ {h} : t2[g] = table[g]
    BY <2>1 DEF t2
  <2>8. table' = t2 /\ pushes' = pushes \o said
    BY <1>1, <1>7 DEF t2
  <2>9. Accounted(t2, next, offers', gone, TRUE)
    <3>1. \A k \in DOMAIN table : IF k = offers[i][3] THEN t2[k].owner \in Inst \ gone ELSE t2[k].owner = table[k].owner
      BY <1>1, <2>4, <2>6, <2>7 DEF h
    <3>2. Accounted(t2, next, Only(offers, DOMAIN offers \ {i}), gone, TRUE)
      BY <1>2, <1>3, <2>7, <3>1, ClaimAccounted
    <3> QED
      BY <1>1, <3>2
  <2>10. \A g \in DOMAIN table : t2[g].gone = table[g].gone /\ t2[g].waiting = table[g].waiting
    BY <2>4, <2>6, <2>7
  <2>11. Shown(t2, offers')
    <3>1. DOMAIN t2 \subseteq DOMAIN table /\ \A g \in DOMAIN t2 : t2[g].waiting = table[g].waiting \/ t2[g].waiting = 0
      BY <2>7, <2>10
    <3>2. Shown(t2, Only(offers, DOMAIN offers \ {i}))
      BY <1>2, <1>3, <1>5, <3>1, ShownOnly
    <3> QED
      BY <1>1, <3>2
  <2>12. NetInv'
    BY <1>1, <1>2, <2>6, <2>8, <2>9, <2>11 DEF NetInv
  <2>13. NetVital
    BY <2>7, <2>8, <2>10 DEF NetVital
  <2> QED
    BY <2>12, <2>13
<1> QED
  BY <1>6, <1>7

\* Every step of the net connector keeps its invariant.
LEMMA NetStep ==
    ASSUME NetInv, N!Next
    PROVE  NetInv' /\ NetVital
<1>1. CASE N!Ended
  BY <1>1, NetEnded
<1>2. CASE N!Notices
  BY <1>2, NetNotices
<1>3. ASSUME NEW n \in Inst, N!Released(n)
      PROVE  NetInv' /\ NetVital
  BY <1>3, NetDies
<1>4. ASSUME NEW n \in Inst, N!Polls(n)
      PROVE  NetInv' /\ NetVital
  BY <1>4, NetPolls
<1>5. ASSUME NEW n \in Inst, NEW v \in BOOLEAN, NEW q \in BOOLEAN, N!Open(n, FALSE, v, q)
      PROVE  NetInv' /\ NetVital
  <2>1. FALSE \in BOOLEAN
    OBVIOUS
  <2> QED
    BY <1>5, <2>1, NetOpen
<1>6. ASSUME NEW n \in Inst, NEW q \in BOOLEAN, N!Open(n, TRUE, FALSE, q)
      PROVE  NetInv' /\ NetVital
  <2>1. FALSE \in BOOLEAN /\ TRUE \in BOOLEAN
    OBVIOUS
  <2> QED
    BY <1>6, <2>1, NetOpen
<1>7. ASSUME NEW n \in Inst, NEW h \in N!Handle, N!Close(n, h)
      PROVE  NetInv' /\ NetVital
  BY <1>7, NetClose
<1>8. ASSUME NEW n \in Inst, NEW h \in N!Handle, N!Recv(n, h)
      PROVE  NetInv' /\ NetVital
  BY <1>8, NetRecv
<1>9. ASSUME NEW n \in Inst, NEW h \in N!Handle, NEW m \in Inst, N!Offer(n, m, h)
      PROVE  NetInv' /\ NetVital
  BY <1>9, NetOffer
<1>10. ASSUME NEW n \in Inst, NEW h \in N!Handle, NEW v \in BOOLEAN, NEW q \in BOOLEAN, N!Accept(n, h, v, q)
       PROVE  NetInv' /\ NetVital
  BY <1>10, NetAccept
<1>11. ASSUME NEW n \in Inst, NEW h \in 0..MaxHandle, NEW v \in BOOLEAN, NEW q \in BOOLEAN, N!Claim(n, h, v, q)
       PROVE  NetInv' /\ NetVital
  BY <1>11, NetClaim
<1>12. ASSUME NEW n \in Inst, NEW k \in DOMAIN conns, N!Settle(n, k)
       PROVE  NetInv' /\ NetVital
  BY <1>12, NetSettle
<1>13. ASSUME NEW k \in DOMAIN conns, N!Answers(k, "up") \/ N!Answers(k, "refused")
       PROVE  NetInv' /\ NetVital
  BY <1>13, NetAnswers
<1>14. ASSUME NEW k \in DOMAIN conns, N!Delivers(k) \/ N!Closes(k) \/ N!LetsGo(k) \/ N!Connects(k)
       PROVE  NetInv' /\ NetVital
  BY <1>14, NetDelivers, NetCloses, NetLetsGo, NetConnects
<1> QED
  BY <1>1, <1>2, <1>3, <1>4, <1>5, <1>6, <1>7, <1>8, <1>9, <1>10, <1>11, <1>12, <1>13, <1>14 DEF N!Next

-----------------------------------------------------------------------------
(***************************************************************************)
(* What the invariants say of the properties.                              *)
(***************************************************************************)

\* A sequence of numbers that rises.
Rises(s) == s \in Seq(Nat) /\ \A i, j \in 1..Len(s) : i < j => s[i] < s[j]

\* Two sequences that rise, the second above the first.
LEMMA RisesOn ==
    ASSUME NEW a, NEW b, Rises(a), Rises(b), \A i \in 1..Len(a), j \in 1..Len(b) : a[i] < b[j]
    PROVE  /\ Rises(a \o b)
           /\ \A i \in 1..Len(a \o b) : \/ \E j \in 1..Len(a) : (a \o b)[i] = a[j]
                                        \/ \E j \in 1..Len(b) : (a \o b)[i] = b[j]
<1> DEFINE s == a \o b
<1>1. a \in Seq(Nat) /\ b \in Seq(Nat) /\ Len(a) \in Nat /\ Len(b) \in Nat
  BY DEF Rises
<1>2. s \in Seq(Nat) /\ Len(s) = Len(a) + Len(b)
  BY <1>1
<1>3. \A i \in 1..Len(s) : s[i] = IF i <= Len(a) THEN a[i] ELSE b[i - Len(a)]
  BY <1>1
<1>4. \A i \in 1..Len(s) : IF i <= Len(a) THEN i \in 1..Len(a) ELSE i - Len(a) \in 1..Len(b)
  BY <1>1, <1>2
<1> HIDE DEF s
<1>5. ASSUME NEW i \in 1..Len(s), NEW j \in 1..Len(s), i < j
      PROVE  s[i] < s[j]
  <2>1. CASE j <= Len(a)
    <3>1. i \in 1..Len(a) /\ j \in 1..Len(a) /\ s[i] = a[i] /\ s[j] = a[j]
      BY <1>1, <1>2, <1>3, <1>5, <2>1
    <3> QED
      BY <1>5, <3>1 DEF Rises
  <2>2. CASE i <= Len(a) /\ ~(j <= Len(a))
    <3>1. i \in 1..Len(a) /\ j - Len(a) \in 1..Len(b) /\ s[i] = a[i] /\ s[j] = b[j - Len(a)]
      BY <1>3, <1>4, <2>2
    <3> QED
      BY <3>1
  <2>3. CASE ~(i <= Len(a))
    <3>1. ~(j <= Len(a)) /\ i - Len(a) < j - Len(a)
      BY <1>1, <1>2, <1>5, <2>3
    <3>2. i - Len(a) \in 1..Len(b) /\ j - Len(a) \in 1..Len(b) /\ s[i] = b[i - Len(a)] /\ s[j] = b[j - Len(a)]
      BY <1>3, <1>4, <2>3, <3>1
    <3> QED
      BY <3>1, <3>2 DEF Rises
  <2> QED
    BY <2>1, <2>2, <2>3
<1>6. \A i \in 1..Len(s) : (\E j \in 1..Len(a) : s[i] = a[j]) \/ (\E j \in 1..Len(b) : s[i] = b[j])
  BY <1>3, <1>4
<1>7. Rises(s)
  BY <1>2, <1>5 DEF Rises
<1> QED
  BY <1>6, <1>7 DEF s

\* What the owner of a handle will get is in the order it was sent.
LEMMA NetInOrder ==
    ASSUME NetInv
    PROVE  N!InOrder
<1> SUFFICES ASSUME NEW h \in DOMAIN table
             PROVE  \A i, j \in DOMAIN N!Pending(h) : i < j => N!Pending(h)[i] < N!Pending(h)[j]
  BY DEF N!InOrder
<1> DEFINE k == table[h].key
<1> DEFINE p == pushes
<1> DEFINE e == events
<1> DEFINE m == table[h].inbound
<1> DEFINE at == {i \in DOMAIN p : p[i][2][1] = h /\ p[i][2][2] # 0}
<1> DEFINE en == {i \in DOMAIN e : e[i].kind = "data" /\ e[i].key = k}
<1> DEFINE said == Only(p, at)
<1> DEFINE news == Only(e, en)
<1> DEFINE x == [i \in DOMAIN said |-> said[i][2][2]]
<1> DEFINE y == [i \in DOMAIN news |-> news[i].data]
<1>1. N!Pending(h) = x \o m \o y
  BY SameOperators DEF N!Pending
<1>2. /\ Line(table[h], h, p, conns[k].sent, e, 0) /\ p \in Seq(NetPush) /\ e \in Seq(NetEvent)
      /\ m \in Seq(Nat \ {0})
  <2>1. /\ NetFine(table, next, pushes, {}, conns, events, 0) /\ events \in Seq(NetEvent) /\ conns \in Seq(NetConn)
    BY DEF NetInv, TransportFine
  <2> QED
    BY <2>1, AtEntry
<1>3. DOMAIN p = 1..Len(p) /\ DOMAIN e = 1..Len(e)
  BY <1>2
<1>4. /\ \A a \in 1..Len(p) : p[a] \in NetPush
      /\ \A a \in 1..Len(e) : e[a] \in NetEvent
  BY <1>2
<1>5. at \in SUBSET (1..Len(p)) /\ \A a \in at : Says(p[a], h)
  BY <1>3 DEF Says
<1>6. en \in SUBSET (1..Len(e)) /\ \A a \in en : e[a].kind = "data" /\ e[a].key = k
  BY <1>3
<1>7. /\ \A a \in 1..Len(p) : Says(p[a], h) =>
            /\ \A b \in 1..Len(p) : a < b /\ Says(p[b], h) => p[a][2][2] < p[b][2][2]
            /\ \A b \in 1..Len(m) : p[a][2][2] < m[b]
      /\ \A a, b \in 1..Len(m) : a < b => m[a] < m[b]
      /\ \A j \in 1..Len(e) : e[j].kind = "data" /\ e[j].key = k =>
            /\ \A a \in 1..Len(p) : Says(p[a], h) => p[a][2][2] < e[j].data
            /\ \A a \in 1..Len(m) : m[a] < e[j].data
  BY <1>2 DEF Line
<1>8. /\ \A a \in at : p[a][2][2] \in Nat
      /\ \A a, b \in at : a < b => p[a][2][2] < p[b][2][2]
      /\ \A a \in at, b \in 1..Len(m) : p[a][2][2] < m[b]
      /\ \A a \in at, j \in en : p[a][2][2] < e[j].data
      /\ \A a \in 1..Len(m), j \in en : m[a] < e[j].data
  <2>1. \A a \in at : p[a] \in NetPush
    BY <1>4, <1>5
  <2>2. \A a \in at : p[a][2][2] \in Nat
    BY <2>1 DEF NetPush
  <2> HIDE DEF p, e, m, at, en, k
  <2> QED
    BY <1>5, <1>6, <1>7, <2>2
<1>9. /\ \A a \in en : e[a].data \in Nat
      /\ \A a, b \in en : a < b => e[a].data < e[b].data
  <2>1. \A a \in en : e[a] \in NetEvent /\ e[a].kind = "data"
    BY <1>4, <1>6
  <2>2. \A i, j \in 1..Len(e) : i < j => Ordered(e[i], e[j])
    BY DEF NetInv, TransportFine
  <2>3. \A a \in en : e[a].data \in Nat
    BY <2>1 DEF NetEvent
  <2> HIDE DEF e, en, k
  <2> QED
    BY <1>6, <2>2, <2>3 DEF Ordered
<1> HIDE DEF p, e, m, at, en, k
<1>10. Rises(x) /\ \A i \in 1..Len(x) : \E a \in at : x[i] = p[a][2][2]
  <2>1. said \in Seq(NetPush) /\ \E g : Picked(p, at, said, g)
    BY <1>2, <1>5, OnlyPicks
  <2>2. PICK g : Picked(p, at, said, g)
    BY <2>1
  <2> HIDE DEF said
  <2>3. /\ DOMAIN said = 1..Len(said) /\ Len(said) \in Nat
        /\ \A i \in 1..Len(said) : g[i] \in at /\ said[i] = p[g[i]]
        /\ \A i, j \in 1..Len(said) : i < j => g[i] < g[j]
    BY <2>1, <2>2 DEF Picked
  <2>4. \A i \in 1..Len(said) : said[i][2][2] \in Nat /\ said[i][2][2] = p[g[i]][2][2]
    BY <1>8, <2>3
  <2>5. x \in Seq(Nat) /\ Len(x) = Len(said) /\ \A i \in 1..Len(said) : x[i] = p[g[i]][2][2]
    BY <2>3, <2>4
  <2> HIDE DEF x
  <2>6. \A i, j \in 1..Len(x) : i < j => x[i] < x[j]
    <3> SUFFICES ASSUME NEW i \in 1..Len(x), NEW j \in 1..Len(x), i < j
                 PROVE  x[i] < x[j]
      OBVIOUS
    <3>1. g[i] \in at /\ g[j] \in at /\ g[i] < g[j]
      BY <2>3, <2>5
    <3>2. x[i] = p[g[i]][2][2] /\ x[j] = p[g[j]][2][2]
      BY <2>5
    <3>3. p[g[i]][2][2] < p[g[j]][2][2]
      BY <1>8, <3>1
    <3> QED
      BY <3>2, <3>3
  <2>7. \A i \in 1..Len(x) : \E a \in at : x[i] = p[a][2][2]
    BY <2>3, <2>5
  <2> QED
    BY <2>5, <2>6, <2>7 DEF Rises
<1>11. Rises(y) /\ \A i \in 1..Len(y) : \E a \in en : y[i] = e[a].data
  <2>1. news \in Seq(NetEvent) /\ \E g : Picked(e, en, news, g)
    BY <1>2, <1>6, OnlyPicks
  <2>2. PICK g : Picked(e, en, news, g)
    BY <2>1
  <2> HIDE DEF news
  <2>3. /\ DOMAIN news = 1..Len(news) /\ Len(news) \in Nat
        /\ \A i \in 1..Len(news) : g[i] \in en /\ news[i] = e[g[i]]
        /\ \A i, j \in 1..Len(news) : i < j => g[i] < g[j]
    BY <2>1, <2>2 DEF Picked
  <2>4. \A i \in 1..Len(news) : news[i].data \in Nat /\ news[i].data = e[g[i]].data
    BY <1>9, <2>3
  <2>5. y \in Seq(Nat) /\ Len(y) = Len(news) /\ \A i \in 1..Len(news) : y[i] = e[g[i]].data
    BY <2>3, <2>4
  <2> HIDE DEF y
  <2>6. \A i, j \in 1..Len(y) : i < j => y[i] < y[j]
    <3> SUFFICES ASSUME NEW i \in 1..Len(y), NEW j \in 1..Len(y), i < j
                 PROVE  y[i] < y[j]
      OBVIOUS
    <3>1. g[i] \in en /\ g[j] \in en /\ g[i] < g[j]
      BY <2>3, <2>5
    <3>2. y[i] = e[g[i]].data /\ y[j] = e[g[j]].data
      BY <2>5
    <3>3. e[g[i]].data < e[g[j]].data
      BY <1>9, <3>1
    <3> QED
      BY <3>2, <3>3
  <2>7. \A i \in 1..Len(y) : \E a \in en : y[i] = e[a].data
    BY <2>3, <2>5
  <2> QED
    BY <2>5, <2>6, <2>7 DEF Rises
<1> HIDE DEF said, news, x, y
<1>12. Rises(m)
  BY <1>2, <1>7 DEF Rises
<1>13. /\ Rises(x \o m)
       /\ \A i \in 1..Len(x \o m) : \/ \E j \in 1..Len(x) : (x \o m)[i] = x[j]
                                    \/ \E j \in 1..Len(m) : (x \o m)[i] = m[j]
  <2>1. \A i \in 1..Len(x), j \in 1..Len(m) : x[i] < m[j]
    BY <1>8, <1>10
  <2> QED
    BY <1>10, <1>12, <2>1, RisesOn
<1> DEFINE z == x \o m
<1>14. Rises(z) /\ \A i \in 1..Len(z), j \in 1..Len(y) : z[i] < y[j]
  <2> HIDE DEF z
  <2>1. Rises(z) /\ \A i \in 1..Len(z) : (\E j \in 1..Len(x) : z[i] = x[j]) \/ (\E j \in 1..Len(m) : z[i] = m[j])
    BY <1>13 DEF z
  <2> QED
    BY <1>8, <1>10, <1>11, <2>1
<1> HIDE DEF z
<1>15. Rises(z \o y)
  BY <1>11, <1>14, RisesOn
<1>16. N!Pending(h) = z \o y
  BY <1>1 DEF z
<1>17. DOMAIN (z \o y) = 1..Len(z \o y)
  BY <1>15 DEF Rises
<1> QED
  BY <1>15, <1>16, <1>17 DEF Rises

\* A connection the transport carries is reached by somebody, or was asked
\* for by somebody who is gone.
LEMMA NetReached ==
    ASSUME NetInv
    PROVE  N!NoneForgotten
<1>1. Reached(table, {}, conns, events, 0) /\ conns \in Seq(NetConn) /\ events \in Seq(NetEvent)
  BY DEF NetInv, NetFine, TransportFine
<1>2. DOMAIN conns = 1..Len(conns) /\ DOMAIN events = 1..Len(events)
  BY <1>1
<1> QED
  BY <1>1, <1>2 DEF N!NoneForgotten, N!Abandoned, Reached, Settled

-----------------------------------------------------------------------------
(***************************************************************************)
(* The deployment: whichever connector is wired.                           *)
(***************************************************************************)

IInv ==
    /\ wired \in {"socket", "net", "ws"}
    /\ wired = "socket" => SockInv
    /\ wired = "net" => NetInv
    /\ wired = "ws" => WsInv

\* Nothing is held when a deployment starts.
LEMMA InitIInv == Init => IInv
<1> SUFFICES ASSUME Init
             PROVE  IInv
  OBVIOUS
<1>1. /\ gone = {} /\ table = <<>> /\ next = 1 /\ offers = <<>> /\ conns = <<>> /\ events = <<>> /\ pushes = <<>>
      /\ tasks = <<>>
  BY DEF Init, N!NetInit, W!WsInit, N!OwnersInit, W!OwnersInit
<1>2. wired \in {"socket", "net", "ws"}
  <2>1. Wired \subseteq {"socket", "net", "ws"}
    BY ConnectorsAssumption
  <2> QED
    BY <2>1 DEF Init
<1>3. DOMAIN table = {} /\ Len(offers) = 0 /\ Len(conns) = 0 /\ Len(events) = 0 /\ Len(pushes) = 0 /\ Len(tasks) = 0
  BY <1>1
<1>4. /\ offers \in Seq(Inst \X Inst \X (1..(next - 1))) /\ conns \in Seq(NetConn) /\ events \in Seq(NetEvent)
      /\ pushes \in Seq(NetPush) /\ tasks \in Seq(WsTask)
  BY <1>1
<1>6. 1..0 = {}
  OBVIOUS
<1>7. \A lax : Accounted(table, next, offers, gone, lax)
  BY <1>1, <1>3, <1>4, <1>6 DEF Accounted, Once
<1>8. SockInv
  BY <1>3, <1>7 DEF SockInv
<1>9. WsInv
  <2>1. Accounted(table, next, offers, gone, FALSE)
    BY <1>7
  <2>2. offers = <<>> /\ tasks \in Seq(WsTask) /\ next = Len(tasks) + 1
    BY <1>1, <1>3, <1>4
  <2>3. /\ \A h \in 1..Len(tasks) : TaskFine(tasks[h])
        /\ \A h \in DOMAIN table : ConnFine(table[h], tasks[h])
    BY <1>3, <1>6
  <2> QED
    BY <2>1, <2>2, <2>3 DEF WsInv
<1>10. NetInv
  <2>1. TransportFine(conns, events)
    BY <1>3, <1>4, <1>6 DEF TransportFine
  <2>2. Shown(table, offers)
    BY <1>3, <1>6 DEF Shown
  <2>3. NetFine(table, next, pushes, {}, conns, events, 0)
    BY <1>3, <1>4, <1>6 DEF NetFine, TableFine, Fresh, Lines, Reached
  <2> QED
    BY <1>7, <2>1, <2>2, <2>3 DEF NetInv
<1> QED
  BY <1>2, <1>8, <1>9, <1>10 DEF IInv

\* What one step may do to a vital handle.
VitalKept ==
    \A h \in DOMAIN table :
         LET n == table[h].owner
             over == \/ h \notin DOMAIN table'
                     \/ wired = "net" /\ ~table[h].gone /\ table'[h].gone /\ table'[h].owner = n
             refused == \/ wired = "ws" /\ tasks[h].st = "failed"
                        \/ wired = "net" /\ conns[table[h].key].st = "refused"
         IN  table[h].vital /\ over /\ ~refused => n \in gone' \cup ended'

\* Every step, of whichever connector.
LEMMA NextIInv ==
    ASSUME IInv, [Next]_vars
    PROVE  IInv' /\ [VitalKept]_vars
<1>1. CASE UNCHANGED vars
  <2>1. UNCHANGED <<gone, pc, table, next, offers, ended, wired, conns, events, pushes, tasks>>
    BY <1>1 DEF vars, swarmVars, heldVars
  <2>2. SockInv => SockInv'
    BY <2>1 DEF SockInv
  <2>3. NetInv => NetInv'
    BY <2>1 DEF NetInv
  <2>4. WsInv => WsInv'
    BY <2>1 DEF WsInv
  <2>5. IInv'
    BY <2>1, <2>2, <2>3, <2>4 DEF IInv
  <2> QED
    BY <1>1, <2>5
<1>2. CASE wired' = wired /\ wired = "socket" /\ S!Next
  <2>1. SockInv' /\ SockVital
    BY <1>2, SockStep DEF IInv
  <2>2. IInv'
    BY <1>2, <2>1 DEF IInv
  <2>3. VitalKept
    BY <1>2, <2>1 DEF VitalKept, SockVital
  <2> QED
    BY <2>2, <2>3
<1>3. CASE wired' = wired /\ wired = "net" /\ N!Next
  <2>1. NetInv' /\ NetVital
    BY <1>3, NetStep DEF IInv
  <2>2. IInv'
    BY <1>3, <2>1 DEF IInv
  <2>3. VitalKept
    BY <1>3, <2>1 DEF VitalKept, NetVital
  <2> QED
    BY <2>2, <2>3
<1>4. CASE wired' = wired /\ wired = "ws" /\ W!Next
  <2>1. WsInv' /\ WsVital
    BY <1>4, WsStep DEF IInv
  <2>2. IInv'
    BY <1>4, <2>1 DEF IInv
  <2>3. VitalKept
    BY <1>4, <2>1 DEF VitalKept, WsVital
  <2> QED
    BY <2>2, <2>3
<1> QED
  BY <1>1, <1>2, <1>3, <1>4 DEF Next

\* The connector that is wired keeps its part of the invariant.
THEOREM ConnectorsInvariance == Spec => []IInv
<1>1. Init => IInv
  BY InitIInv
<1>2. IInv /\ [Next]_vars => IInv'
  BY NextIInv
<1> QED
  BY <1>1, <1>2, PTL DEF Spec

\* Whoever holds and offers is accounted for.
LEMMA AllAccounted ==
    ASSUME IInv
    PROVE  Accounted(table, next, offers, gone, wired = "net")
<1>1. CASE wired = "socket"
  <2>1. wired # "net" /\ Accounted(table, next, offers, gone, FALSE)
    BY <1>1 DEF IInv, SockInv
  <2> QED
    BY <2>1 DEF Accounted, Backed
<1>2. CASE wired = "net"
  <2>1. Accounted(table, next, offers, gone, TRUE)
    BY <1>2 DEF IInv, NetInv
  <2> QED
    BY <1>2, <2>1 DEF Accounted, Backed
<1>3. CASE wired = "ws"
  <2>1. wired # "net" /\ Accounted(table, next, offers, gone, FALSE)
    BY <1>3 DEF IInv, WsInv
  <2> QED
    BY <2>1 DEF Accounted, Backed
<1> QED
  BY <1>1, <1>2, <1>3 DEF IInv

\* An offer always names a handle its maker still holds, and no handle is
\* offered twice: SocketConnector::offers and Handles, through any closes,
\* claims, refusals and deaths.
THEOREM OffersStayTrue == Spec => []OffersTrue
<1>1. IInv => OffersTrue
  <2> SUFFICES ASSUME IInv
               PROVE  OffersTrue
    OBVIOUS
  <2>1. /\ DOMAIN offers = 1..Len(offers)
        /\ \A i \in 1..Len(offers) : Backed(table, offers[i], wired = "net")
        /\ \A i, j \in 1..Len(offers) : offers[j][1] = offers[i][1] /\ offers[j][3] = offers[i][3] => i = j
    BY AllAccounted DEF Accounted, Once
  <2> QED
    BY <2>1 DEF OffersTrue, Backed, Holds
<1> QED
  BY <1>1, ConnectorsInvariance, PTL

\* A released instance holds no handle and has made no offer, and no
\* connection is left that nobody can reach: Connector::release, close_all
\* and settle, at any point of a sweep or a hand-over.  The one exception is
\* what the transport was opening or listening on for a caller that died
\* before the answer was settled: then release has no connection to close
\* and settle never runs.
THEOREM NothingStaysOfTheDead == Spec => []NothingOfTheDead
<1>1. IInv => NothingOfTheDead
  <2> SUFFICES ASSUME IInv
               PROVE  NothingOfTheDead
    OBVIOUS
  <2>1. /\ DOMAIN offers = 1..Len(offers)
        /\ \A i \in 1..Len(offers) : offers[i][1] \notin gone
        /\ \A h \in DOMAIN table : table[h].owner \notin gone
    BY AllAccounted DEF Accounted
  <2>2. wired = "net" => N!NoneForgotten
    BY NetReached DEF IInv
  <2> QED
    BY <2>1, <2>2 DEF NothingOfTheDead, OwnedBy
<1> QED
  BY <1>1, ConnectorsInvariance, PTL

\* What an owner was told of is there for it, and a ws task never waits for
\* room that was made without telling it: became_ready and the re-arming of
\* socket and ws, recv's notify_one against pump's select.
THEOREM ToldStaysTrue == Spec => []ToldTrue
<1>1. IInv => ToldTrue
  <2> SUFFICES ASSUME IInv
               PROVE  ToldTrue
    OBVIOUS
  <2>1. wired = "socket" => S!ToldTrue
    BY DEF IInv, SockInv, SockFine, SockSays, S!ToldTrue
  <2>2. ASSUME wired = "ws"
        PROVE  W!ToldTrue /\ W!NoLostDrain
    <3>1. WsInv
      BY <2>2 DEF IInv
    <3>2. W!ToldTrue
      BY <3>1 DEF WsInv, ConnFine, HasNews, W!ToldTrue, W!Ready, W!HasEnded
    <3>3. W!NoLostDrain
      <4>1. DOMAIN tasks = 1..Len(tasks) /\ \A h \in 1..Len(tasks) : TaskFine(tasks[h])
        BY <3>1 DEF WsInv
      <4>2. INBOX_MAX \in Nat \ {0}
        BY WsBounds
      <4> QED
        BY <4>1, <4>2 DEF TaskFine, W!NoLostDrain, W!In
    <3> QED
      BY <3>2, <3>3
  <2> QED
    BY <2>1, <2>2 DEF ToldTrue
<1> QED
  BY <1>1, ConnectorsInvariance, PTL

\* The messages of a connection reach whoever owns it in the order they were
\* sent: sweep and Entry::flush, however often the handle changes hands and
\* whether it pushes or buffers.
THEOREM StaysInOrder == Spec => []InOrder
<1>1. IInv => InOrder
  BY NetInOrder DEF IInv, InOrder
<1> QED
  BY <1>1, ConnectorsInvariance, PTL

\* A vital handle never goes without its owner, or without its owner being
\* reported at the next ask: the ended hooks, close and the sweep.
THEOREM VitalAlwaysEnds == Spec => VitalEnds
<1>1. IInv /\ [Next]_vars => [VitalKept]_vars
  BY NextIInv
<1>2. Spec => [][VitalKept]_vars
  BY <1>1, ConnectorsInvariance, PTL DEF Spec
<1> QED
  BY <1>2 DEF VitalEnds, VitalKept
=============================================================================
