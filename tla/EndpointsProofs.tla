--------------------------- MODULE EndpointsProofs ---------------------------
(***************************************************************************)
(* What routing promises, for any instances, links, slot order and queue   *)
(* capacities, whether or not the engine of a far end fails a push.        *)
(*                                                                         *)
(* That messages stay in order is not inductive: a new message must be     *)
(* numbered above everything on the way, nothing may be buffered for a     *)
(* resident, and a message that is routed or tried again must be the       *)
(* oldest its sender still has, which is OneHeld, held over the messages   *)
(* route_slot has in its hands.                                            *)
(***************************************************************************)
EXTENDS Endpoints, SequenceTheorems, FiniteSetTheorems, TLAPS

Msg == Inst \X Nat
-----------------------------------------------------------------------------
(* Sequences of <<who, message>>.                                          *)

(* A message put at the end.                                               *)
LEMMA NumbersAppend ==
    ASSUME NEW q \in Seq(Msg), NEW y \in Inst, NEW m \in Nat, NEW w \in Inst
    PROVE  Numbers(Append(q, <<y, m>>), w) = Numbers(q, w) \cup (IF y = w THEN {m} ELSE {})
<1> DEFINE p == Append(q, <<y, m>>)
<1>1. /\ p \in Seq(Msg) /\ Len(p) = Len(q) + 1 /\ p[Len(q) + 1] = <<y, m>> /\ Len(q) \in Nat
      /\ \A i \in 1..Len(q) : p[i] = q[i]
  BY AppendProperties, LenProperties DEF Msg
<1>2. DOMAIN p = 1..(Len(q) + 1) /\ DOMAIN q = 1..Len(q)
  BY <1>1
<1> HIDE DEF p
<1>3. ASSUME NEW n \in Numbers(p, w)
      PROVE  n \in Numbers(q, w) \cup (IF y = w THEN {m} ELSE {})
  <2>1. PICK i \in DOMAIN p : p[i][1] = w /\ p[i][2] = n
    BY <1>3 DEF Numbers
  <2>2. i = Len(q) + 1 \/ i \in 1..Len(q)
    BY <1>1, <1>2
  <2>3. CASE i = Len(q) + 1
    BY <1>1, <2>1, <2>3
  <2>4. CASE i \in 1..Len(q)
    BY <1>1, <1>2, <2>1, <2>4 DEF Numbers
  <2>5. QED
    BY <2>2, <2>3, <2>4
<1>4. ASSUME NEW n \in Numbers(q, w) PROVE n \in Numbers(p, w)
  <2>1. PICK i \in DOMAIN q : q[i][1] = w /\ q[i][2] = n
    BY <1>4 DEF Numbers
  <2>2. i \in DOMAIN p /\ p[i] = q[i]
    BY <1>1, <1>2
  <2>3. QED
    BY <2>1, <2>2 DEF Numbers
<1>5. ASSUME y = w PROVE m \in Numbers(p, w)
  <2>1. Len(q) + 1 \in DOMAIN p /\ p[Len(q) + 1][1] = w /\ p[Len(q) + 1][2] = m
    BY <1>1, <1>2, <1>5
  <2>2. QED
    BY <2>1 DEF Numbers
<1>6. QED
  BY <1>3, <1>4, <1>5 DEF p

\* ... and rise in number, if the new one is later than all of its sender.
LEMMA RisingAppend ==
    ASSUME NEW q \in Seq(Msg), NEW y \in Inst, NEW m \in Nat, NEW w \in Inst,
           Rising(q, w), y = w => \A n \in Numbers(q, w) : n < m
    PROVE  Rising(Append(q, <<y, m>>), w)
<1> DEFINE p == Append(q, <<y, m>>)
<1>1. /\ p \in Seq(Msg) /\ Len(p) = Len(q) + 1 /\ p[Len(q) + 1] = <<y, m>> /\ Len(q) \in Nat
      /\ \A i \in 1..Len(q) : p[i] = q[i]
  BY AppendProperties, LenProperties DEF Msg
<1>2. DOMAIN p = 1..(Len(q) + 1) /\ DOMAIN q = 1..Len(q)
  BY <1>1
<1> HIDE DEF p
<1>3. SUFFICES ASSUME NEW i \in DOMAIN p, NEW j \in DOMAIN p, i < j, p[i][1] = w, p[j][1] = w
               PROVE  p[i][2] < p[j][2]
  BY DEF Rising, p
<1>4. i \in 1..Len(q) /\ (j = Len(q) + 1 \/ j \in 1..Len(q))
  BY <1>1, <1>2, <1>3
<1>5. CASE j \in 1..Len(q)
  BY <1>1, <1>2, <1>3, <1>4, <1>5 DEF Rising
<1>6. CASE j = Len(q) + 1
  <2>1. y = w /\ p[j][2] = m
    BY <1>1, <1>3, <1>6
  <2>2. q[i][2] \in Numbers(q, w) /\ p[i] = q[i]
    BY <1>1, <1>2, <1>3, <1>4 DEF Numbers
  <2>3. QED
    BY <2>1, <2>2
<1>7. QED
  BY <1>4, <1>5, <1>6

(* The first message taken.                                                *)
LEMMA NumbersTail ==
    ASSUME NEW q \in Seq(Msg), q # <<>>, NEW w \in Inst
    PROVE  /\ Tail(q) \in Seq(Msg) /\ Head(q) \in Msg
           /\ Numbers(q, w) = Numbers(Tail(q), w) \cup (IF Head(q)[1] = w THEN {Head(q)[2]} ELSE {})
<1> DEFINE p == Tail(q)
<1>1. /\ p \in Seq(Msg) /\ Len(q) \in Nat \ {0} /\ Len(p) = Len(q) - 1 /\ Head(q) = q[1]
      /\ \A i \in 1..Len(p) : p[i] = q[i + 1]
  BY HeadTailProperties, LenProperties, EmptySeq
<1>2. DOMAIN p = 1..Len(p) /\ DOMAIN q = 1..Len(q) /\ q[1] \in Msg
  BY <1>1
<1> HIDE DEF p
<1>3. ASSUME NEW n \in Numbers(q, w)
      PROVE  n \in Numbers(p, w) \cup (IF Head(q)[1] = w THEN {Head(q)[2]} ELSE {})
  <2>1. PICK i \in DOMAIN q : q[i][1] = w /\ q[i][2] = n
    BY <1>3 DEF Numbers
  <2>2. CASE i = 1
    BY <1>1, <2>1, <2>2
  <2>3. CASE i # 1
    <3>1. i - 1 \in 1..Len(p) /\ (i - 1) + 1 = i
      BY <1>1, <1>2, <2>3
    <3>2. p[i - 1] = q[i]
      BY <1>1, <3>1
    <3>3. QED
      BY <1>2, <2>1, <3>1, <3>2 DEF Numbers
  <2>4. QED
    BY <2>2, <2>3
<1>4. ASSUME NEW n \in Numbers(p, w) PROVE n \in Numbers(q, w)
  <2>1. PICK i \in DOMAIN p : p[i][1] = w /\ p[i][2] = n
    BY <1>4 DEF Numbers
  <2>2. i + 1 \in DOMAIN q /\ p[i] = q[i + 1]
    BY <1>1, <1>2
  <2>3. QED
    BY <2>1, <2>2 DEF Numbers
<1>5. ASSUME Head(q)[1] = w PROVE Head(q)[2] \in Numbers(q, w)
  BY <1>1, <1>2, <1>5 DEF Numbers
<1>6. QED
  BY <1>1, <1>2, <1>3, <1>4, <1>5 DEF p

\* ... and what is left still rises.
LEMMA RisingTail ==
    ASSUME NEW q \in Seq(Msg), q # <<>>, NEW w \in Inst, Rising(q, w)
    PROVE  /\ Rising(Tail(q), w)
           /\ Head(q)[1] = w => \A n \in Numbers(Tail(q), w) : Head(q)[2] < n
<1> DEFINE p == Tail(q)
<1>1. /\ p \in Seq(Msg) /\ Len(q) \in Nat \ {0} /\ Len(p) = Len(q) - 1 /\ Head(q) = q[1]
      /\ \A i \in 1..Len(p) : p[i] = q[i + 1]
  BY HeadTailProperties, LenProperties, EmptySeq
<1>2. DOMAIN p = 1..Len(p) /\ DOMAIN q = 1..Len(q)
  BY <1>1
<1> HIDE DEF p
<1>3. Rising(p, w)
  <2> SUFFICES ASSUME NEW i \in DOMAIN p, NEW j \in DOMAIN p, i < j, p[i][1] = w, p[j][1] = w
               PROVE  p[i][2] < p[j][2]
    BY DEF Rising
  <2>1. i + 1 \in DOMAIN q /\ j + 1 \in DOMAIN q /\ i + 1 < j + 1 /\ p[i] = q[i + 1] /\ p[j] = q[j + 1]
    BY <1>1, <1>2
  <2>2. QED
    BY <2>1 DEF Rising
<1>4. ASSUME Head(q)[1] = w, NEW n \in Numbers(p, w) PROVE Head(q)[2] < n
  <2>1. PICK i \in DOMAIN p : p[i][1] = w /\ p[i][2] = n
    BY <1>4 DEF Numbers
  <2>2. i + 1 \in DOMAIN q /\ 1 \in DOMAIN q /\ 1 < i + 1 /\ p[i] = q[i + 1]
    BY <1>1, <1>2
  <2>3. QED
    BY <1>1, <1>4, <2>1, <2>2 DEF Rising
<1>5. QED
  BY <1>3, <1>4 DEF p

(* A buffer drained behind an inbox.                                       *)
LEMMA NumbersConcat ==
    ASSUME NEW a \in Seq(Msg), NEW b \in Seq(Msg), NEW w \in Inst
    PROVE  Numbers(a \o b, w) \subseteq Numbers(a, w) \cup Numbers(b, w)
<1> DEFINE p == a \o b
<1>1. /\ p \in Seq(Msg) /\ Len(p) = Len(a) + Len(b) /\ Len(a) \in Nat /\ Len(b) \in Nat
      /\ \A i \in 1..Len(p) : p[i] = IF i <= Len(a) THEN a[i] ELSE b[i - Len(a)]
  BY ConcatProperties, LenProperties
<1>2. DOMAIN p = 1..Len(p) /\ DOMAIN a = 1..Len(a) /\ DOMAIN b = 1..Len(b)
  BY <1>1
<1> HIDE DEF p
<1>3. ASSUME NEW n \in Numbers(p, w) PROVE n \in Numbers(a, w) \cup Numbers(b, w)
  <2>1. PICK i \in DOMAIN p : p[i][1] = w /\ p[i][2] = n
    BY <1>3 DEF Numbers
  <2>2. CASE i <= Len(a)
    <3>1. i \in DOMAIN a /\ p[i] = a[i]
      BY <1>1, <1>2, <2>2
    <3>2. QED
      BY <2>1, <3>1 DEF Numbers
  <2>3. CASE ~(i <= Len(a))
    <3>1. i - Len(a) \in DOMAIN b /\ p[i] = b[i - Len(a)]
      BY <1>1, <1>2, <2>3
    <3>2. QED
      BY <2>1, <3>1 DEF Numbers
  <2>4. QED
    BY <2>2, <2>3
<1>4. QED
  BY <1>3 DEF p

\* ... and rise, if every message of the second is later.
LEMMA RisingConcat ==
    ASSUME NEW a \in Seq(Msg), NEW b \in Seq(Msg), NEW w \in Inst,
           Rising(a, w), Rising(b, w), Before(Numbers(a, w), Numbers(b, w))
    PROVE  Rising(a \o b, w)
<1> DEFINE p == a \o b
<1>1. /\ p \in Seq(Msg) /\ Len(p) = Len(a) + Len(b) /\ Len(a) \in Nat /\ Len(b) \in Nat
      /\ \A i \in 1..Len(p) : p[i] = IF i <= Len(a) THEN a[i] ELSE b[i - Len(a)]
  BY ConcatProperties, LenProperties
<1>2. DOMAIN p = 1..Len(p) /\ DOMAIN a = 1..Len(a) /\ DOMAIN b = 1..Len(b)
  BY <1>1
<1> HIDE DEF p
<1>3. SUFFICES ASSUME NEW i \in DOMAIN p, NEW j \in DOMAIN p, i < j, p[i][1] = w, p[j][1] = w
               PROVE  p[i][2] < p[j][2]
  BY DEF Rising, p
<1>4. CASE j <= Len(a)
  <2>1. i \in DOMAIN a /\ p[i] = a[i] /\ j \in DOMAIN a /\ p[j] = a[j]
    BY <1>1, <1>2, <1>3, <1>4
  <2>2. QED
    BY <1>3, <2>1 DEF Rising
<1>5. CASE ~(i <= Len(a))
  <2>1. /\ i - Len(a) \in DOMAIN b /\ p[i] = b[i - Len(a)]
        /\ j - Len(a) \in DOMAIN b /\ p[j] = b[j - Len(a)] /\ i - Len(a) < j - Len(a)
    BY <1>1, <1>2, <1>3, <1>5
  <2>2. QED
    BY <1>3, <2>1 DEF Rising
<1>6. CASE i <= Len(a) /\ ~(j <= Len(a))
  <2>1. i \in DOMAIN a /\ p[i] = a[i] /\ j - Len(a) \in DOMAIN b /\ p[j] = b[j - Len(a)]
    BY <1>1, <1>2, <1>3, <1>6
  <2>2. p[i][2] \in Numbers(a, w) /\ p[j][2] \in Numbers(b, w)
    BY <1>3, <2>1 DEF Numbers
  <2>3. QED
    BY <2>2 DEF Before
<1>7. QED
  BY <1>1, <1>2, <1>4, <1>5, <1>6

(* What an inbox keeps of what it is given is the beginning of it.         *)
LEMMA Beginning ==
    ASSUME NEW q \in Seq(Msg), NEW n \in Nat, n <= Len(q), NEW w \in Inst
    PROVE  /\ SubSeq(q, 1, n) \in Seq(Msg) /\ Len(SubSeq(q, 1, n)) = n
           /\ Numbers(SubSeq(q, 1, n), w) \subseteq Numbers(q, w)
           /\ Rising(q, w) => Rising(SubSeq(q, 1, n), w)
<1> DEFINE p == SubSeq(q, 1, n)
<1>1. /\ p \in Seq(Msg) /\ Len(p) = n /\ \A i \in 1..n : p[i] = q[i] /\ Len(q) \in Nat
  <2>1. \A i \in 1..n : q[i] \in Msg
    BY LenProperties
  <2>2. QED
    BY <2>1, SubSeqProperties, LenProperties
<1>2. DOMAIN p = 1..n /\ DOMAIN q = 1..Len(q)
  BY <1>1
<1> HIDE DEF p
<1>3. ASSUME NEW k \in Numbers(p, w) PROVE k \in Numbers(q, w)
  <2>1. PICK i \in DOMAIN p : p[i][1] = w /\ p[i][2] = k
    BY <1>3 DEF Numbers
  <2>2. i \in DOMAIN q /\ p[i] = q[i]
    BY <1>1, <1>2
  <2>3. QED
    BY <2>1, <2>2 DEF Numbers
<1>4. ASSUME Rising(q, w) PROVE Rising(p, w)
  <2> SUFFICES ASSUME NEW i \in DOMAIN p, NEW j \in DOMAIN p, i < j, p[i][1] = w, p[j][1] = w
               PROVE  p[i][2] < p[j][2]
    BY DEF Rising
  <2>1. i \in DOMAIN q /\ j \in DOMAIN q /\ p[i] = q[i] /\ p[j] = q[j]
    BY <1>1, <1>2
  <2>2. QED
    BY <1>4, <2>1 DEF Rising
<1>5. QED
  BY <1>1, <1>3, <1>4 DEF p

\* Messages are numbers.
LEMMA NumbersNat ==
    ASSUME NEW q \in Seq(Msg), NEW w \in Inst
    PROVE  Numbers(q, w) \subseteq Nat /\ Numbers(<<>>, w) = {}
<1>1. \A i \in DOMAIN q : q[i] \in Msg
  BY LenProperties
<1>2. Numbers(q, w) \subseteq Nat
  BY <1>1 DEF Numbers, Msg
<1>3. Numbers(<<>>, w) = {}
  BY DEF Numbers
<1>4. QED
  BY <1>2, <1>3
-----------------------------------------------------------------------------
(* At most one message per far end, in what is held and what is retried.   *)

Apart(h, w) == \A i \in DOMAIN h, j \in DOMAIN w : h[i][1] # w[j][1]

LEMMA DistinctConcat ==
    ASSUME NEW h \in Seq(Msg), NEW w \in Seq(Msg)
    PROVE  Distinct(h \o w) <=> Distinct(h) /\ Distinct(w) /\ Apart(h, w)
<1> DEFINE p == h \o w
<1>1. /\ p \in Seq(Msg) /\ Len(p) = Len(h) + Len(w) /\ Len(h) \in Nat /\ Len(w) \in Nat
      /\ \A i \in 1..Len(p) : p[i] = IF i <= Len(h) THEN h[i] ELSE w[i - Len(h)]
  BY ConcatProperties, LenProperties
<1>2. DOMAIN p = 1..Len(p) /\ DOMAIN h = 1..Len(h) /\ DOMAIN w = 1..Len(w)
  BY <1>1
<1> HIDE DEF p
<1>3. \A i \in DOMAIN h : i \in DOMAIN p /\ p[i] = h[i]
  BY <1>1, <1>2
<1>4. \A i \in DOMAIN w : i + Len(h) \in DOMAIN p /\ p[i + Len(h)] = w[i] /\ i + Len(h) > Len(h)
  <2> SUFFICES ASSUME NEW i \in DOMAIN w
               PROVE  i + Len(h) \in DOMAIN p /\ p[i + Len(h)] = w[i] /\ i + Len(h) > Len(h)
    OBVIOUS
  <2>1. i + Len(h) \in 1..Len(p) /\ ~(i + Len(h) <= Len(h)) /\ (i + Len(h)) - Len(h) = i
    BY <1>1, <1>2
  <2>2. QED
    BY <1>1, <1>2, <2>1
<1>5. ASSUME Distinct(p) PROVE Distinct(h) /\ Distinct(w) /\ Apart(h, w)
  <2>1. Distinct(h)
    BY <1>3, <1>5 DEF Distinct
  <2>2. Distinct(w)
    <3> SUFFICES ASSUME NEW i \in DOMAIN w, NEW j \in DOMAIN w, w[i][1] = w[j][1] PROVE i = j
      BY DEF Distinct
    <3>1. i + Len(h) = j + Len(h)
      BY <1>4, <1>5 DEF Distinct
    <3>2. QED
      BY <1>1, <1>2, <3>1
  <2>3. Apart(h, w)
    <3> SUFFICES ASSUME NEW i \in DOMAIN h, NEW j \in DOMAIN w, h[i][1] = w[j][1] PROVE FALSE
      BY DEF Apart
    <3>1. i = j + Len(h)
      BY <1>3, <1>4, <1>5 DEF Distinct
    <3>2. QED
      BY <1>1, <1>2, <3>1
  <2>4. QED
    BY <2>1, <2>2, <2>3
<1>6. ASSUME Distinct(h), Distinct(w), Apart(h, w) PROVE Distinct(p)
  <2> SUFFICES ASSUME NEW i \in DOMAIN p, NEW j \in DOMAIN p, p[i][1] = p[j][1] PROVE i = j
    BY DEF Distinct
  <2>1. \A k \in DOMAIN p : \/ k \in DOMAIN h /\ p[k] = h[k]
                            \/ k - Len(h) \in DOMAIN w /\ p[k] = w[k - Len(h)]
    BY <1>1, <1>2
  <2>2. CASE i \in DOMAIN h /\ p[i] = h[i] /\ j \in DOMAIN h /\ p[j] = h[j]
    BY <1>6, <2>2 DEF Distinct
  <2>3. CASE i - Len(h) \in DOMAIN w /\ p[i] = w[i - Len(h)] /\ j - Len(h) \in DOMAIN w /\ p[j] = w[j - Len(h)]
    <3>1. i - Len(h) = j - Len(h)
      BY <1>6, <2>3 DEF Distinct
    <3>2. QED
      BY <1>1, <1>2, <3>1
  <2>4. QED
    BY <1>6, <2>1, <2>2, <2>3 DEF Apart
<1>7. QED
  BY <1>5, <1>6 DEF p

(* The next held message is tried: it leaves, or goes back among the held. *)
LEMMA DistinctRetry ==
    ASSUME NEW h \in Seq(Msg), NEW w \in Seq(Msg), w # <<>>, Distinct(h \o w)
    PROVE  /\ Distinct(h \o Tail(w)) /\ Distinct(Append(h, Head(w)) \o Tail(w))
           /\ Numbers(h, Head(w)[1]) = {} /\ Numbers(Tail(w), Head(w)[1]) = {}
<1> DEFINE p == Tail(w)  a == Append(h, Head(w))
<1>1. /\ p \in Seq(Msg) /\ Len(w) \in Nat \ {0} /\ Len(p) = Len(w) - 1 /\ Head(w) = w[1]
      /\ \A i \in 1..Len(p) : p[i] = w[i + 1]
  BY HeadTailProperties, LenProperties, EmptySeq
<1>2. /\ a \in Seq(Msg) /\ Len(a) = Len(h) + 1 /\ a[Len(h) + 1] = w[1] /\ Len(h) \in Nat
      /\ \A i \in 1..Len(h) : a[i] = h[i]
  BY <1>1, AppendProperties, LenProperties
<1>3. DOMAIN p = 1..Len(p) /\ DOMAIN w = 1..Len(w) /\ DOMAIN a = 1..(Len(h) + 1) /\ DOMAIN h = 1..Len(h)
  BY <1>1, <1>2
<1> HIDE DEF p, a
<1>4. Distinct(h) /\ Distinct(w) /\ Apart(h, w)
  BY DistinctConcat
<1>5. \A i \in DOMAIN p : i + 1 \in DOMAIN w /\ p[i] = w[i + 1] /\ i + 1 # 1
  BY <1>1, <1>3
<1>6. 1 \in DOMAIN w
  BY <1>1, <1>3
<1>7. Distinct(p) /\ Apart(h, p)
  <2>1. Distinct(p)
    <3> SUFFICES ASSUME NEW i \in DOMAIN p, NEW j \in DOMAIN p, p[i][1] = p[j][1] PROVE i = j
      BY DEF Distinct
    <3>1. i + 1 = j + 1
      BY <1>4, <1>5 DEF Distinct
    <3>2. QED
      BY <1>1, <1>3, <3>1
  <2>2. Apart(h, p)
    BY <1>4, <1>5 DEF Apart
  <2>3. QED
    BY <2>1, <2>2
<1>8. \A i \in DOMAIN a : (i \in DOMAIN h /\ a[i] = h[i]) \/ (i = Len(h) + 1 /\ a[i] = w[1])
  BY <1>2, <1>3
<1>9. Distinct(a) /\ Apart(a, p)
  <2>1. Distinct(a)
    BY <1>4, <1>6, <1>8 DEF Distinct, Apart
  <2>2. Apart(a, p)
    BY <1>4, <1>5, <1>6, <1>7, <1>8 DEF Distinct, Apart
  <2>3. QED
    BY <2>1, <2>2
<1>10. Numbers(h, w[1][1]) = {} /\ Numbers(p, w[1][1]) = {}
  <2>1. \A i \in DOMAIN h : h[i][1] # w[1][1]
    BY <1>4, <1>6 DEF Apart
  <2>2. \A i \in DOMAIN p : p[i][1] # w[1][1]
    BY <1>4, <1>5, <1>6 DEF Distinct
  <2>3. QED
    BY <2>1, <2>2 DEF Numbers
<1>11. QED
  BY <1>1, <1>2, <1>7, <1>9, <1>10, DistinctConcat DEF p, a

(* A message is held for a far end that had none.                          *)
LEMMA DistinctAppend ==
    ASSUME NEW h \in Seq(Msg), NEW t \in Inst, NEW m \in Nat,
           Distinct(h), \A i \in DOMAIN h : h[i][1] # t
    PROVE  Distinct(Append(h, <<t, m>>))
<1> DEFINE a == Append(h, <<t, m>>)
<1>1. /\ a \in Seq(Msg) /\ Len(a) = Len(h) + 1 /\ a[Len(h) + 1] = <<t, m>> /\ Len(h) \in Nat
      /\ \A i \in 1..Len(h) : a[i] = h[i]
  BY AppendProperties, LenProperties DEF Msg
<1>2. DOMAIN a = 1..(Len(h) + 1) /\ DOMAIN h = 1..Len(h)
  BY <1>1
<1> HIDE DEF a
<1>3. \A i \in DOMAIN a : (i \in DOMAIN h /\ a[i] = h[i]) \/ (i = Len(h) + 1 /\ a[i][1] = t)
  BY <1>1, <1>2
<1>4. QED
  BY <1>3 DEF Distinct, a

\* An empty queue adds nothing.
LEMMA ConcatEmpty ==
    ASSUME NEW q \in Seq(Msg)
    PROVE  q \o <<>> = q /\ <<>> \o q = q /\ <<>> \in Seq(Msg) /\ Distinct(<<>>)
<1>1. q \o <<>> = q /\ <<>> \o q = q
  BY ConcatEmptySeq
<1>2. QED
  BY <1>1, EmptySeq DEF Distinct
-----------------------------------------------------------------------------
(* The places of one link: r is read, A arrived, B buffered, K held and Q  *)
(* queued.                                                                 *)

Lined(r, A, B, K, Q) ==
    /\ Before({r}, A \cup B \cup K \cup Q) /\ Before(A, B \cup K \cup Q)
    /\ Before(B, K \cup Q) /\ Before(K, Q)

\* A link that only loses messages stays in line.
LEMMA Shrinks ==
    ASSUME NEW r, NEW A, NEW B, NEW K, NEW Q, Lined(r, A, B, K, Q),
           NEW A2 \in SUBSET A, NEW B2 \in SUBSET B, NEW K2 \in SUBSET K, NEW Q2 \in SUBSET Q
    PROVE  Lined(r, A2, B2, K2, Q2)
BY DEF Lined, Before

(* The oldest message m that a sender still has goes on, or is held.       *)
LEMMA Moves ==
    ASSUME NEW r \in Nat, NEW A \in SUBSET Nat, NEW B \in SUBSET Nat, NEW K \in SUBSET Nat,
           NEW Q \in SUBSET Nat, Lined(r, A, B, K, Q),
           NEW m \in K \cup Q, NEW Q2 \in SUBSET Q, Before({m}, Q2),
           NEW A2, NEW B2, NEW K2 \in SUBSET {m},
           \/ A2 = A /\ B2 = B
           \/ A2 = A \cup {m} /\ B2 = {} /\ K2 = {}
           \/ A2 = A /\ B2 = B \cup {m} /\ K2 = {}
    PROVE  Lined(r, A2, B2, K2, Q2)
<1>1. CASE A2 = A /\ B2 = B
  BY <1>1 DEF Lined, Before
<1>2. CASE A2 = A \cup {m} /\ B2 = {} /\ K2 = {}
  BY <1>2 DEF Lined, Before
<1>3. CASE A2 = A /\ B2 = B \cup {m} /\ K2 = {}
  BY <1>3 DEF Lined, Before
<1>4. QED
  BY <1>1, <1>2, <1>3
-----------------------------------------------------------------------------
(* The invariant.                                                          *)

Cursor ==
    /\ pc \in {"held", "token"} => todo # <<>>
    /\ pc # "held" => work = <<>>

OnTheWay(l) == Arrived(l) \cup Buffered(l) \cup Kept(l) \cup Queued(l)

LinkInv(l) ==
    /\ Lined(read[l], Arrived(l), Buffered(l), Kept(l), Queued(l))
    /\ Rising(inbox[l[2]], l[1]) /\ Rising(pending[l[2]], l[1])
    /\ \A i, j \in DOMAIN out[l] : i < j => out[l][i] < out[l][j]
    /\ read[l] <= sent[l] /\ \A n \in OnTheWay(l) : n <= sent[l]

EInv == TypeOK /\ Cursor /\ OneHeld /\ \A l \in Lossless : LinkInv(l)

(* The queues and the numbers of one link, which is between two instances. *)
LEMMA Ends ==
    ASSUME TypeOK, NEW l \in Link
    PROVE  /\ l[1] \in Inst /\ l[2] \in Inst /\ l = <<l[1], l[2]>>
           /\ inbox[l[2]] \in Seq(Msg) /\ pending[l[2]] \in Seq(Msg) /\ held[l[1]] \in Seq(Msg)
           /\ Retrying(l[1]) \in Seq(Msg) /\ out[l] \in Seq(Nat) /\ read[l] \in Nat /\ sent[l] \in Nat
           /\ Arrived(l) \subseteq Nat /\ Buffered(l) \subseteq Nat /\ Kept(l) \subseteq Nat /\ Queued(l) \subseteq Nat
<1>1. l[1] \in Inst /\ l[2] \in Inst /\ l = <<l[1], l[2]>>
  BY EndpointsAssumption
<1>2. /\ inbox[l[2]] \in Seq(Msg) /\ pending[l[2]] \in Seq(Msg) /\ held[l[1]] \in Seq(Msg)
      /\ out[l] \in Seq(Nat) /\ work \in Seq(Msg)
  BY <1>1 DEF TypeOK, Msg
<1>3. read[l] \in Nat /\ sent[l] \in Nat
  BY EndpointsAssumption DEF TypeOK
<1>4. Retrying(l[1]) \in Seq(Msg)
  BY <1>2, EmptySeq DEF Retrying
<1>5. Queued(l) \subseteq Nat
  BY <1>2, LenProperties DEF Queued
<1>6. QED
  BY <1>1, <1>2, <1>3, <1>4, <1>5, NumbersNat DEF Arrived, Buffered, Kept

\* A link none of whose places change keeps its invariant.
LEMMA LinkFrame ==
    ASSUME NEW l \in Link, LinkInv(l),
           UNCHANGED <<read[l], sent[l], inbox[l[2]], pending[l[2]], held[l[1]], Retrying(l[1]), out[l]>>
    PROVE  LinkInv(l)'
<1>1. UNCHANGED <<Arrived(l), Buffered(l), Kept(l), Queued(l)>>
  BY DEF Arrived, Buffered, Kept, Queued
<1>2. UNCHANGED OnTheWay(l)
  BY <1>1 DEF OnTheWay
<1>3. QED
  BY <1>1, <1>2 DEF LinkInv

\* The invariant holds at the start.
LEMMA InitEInv == Init => EInv
<1> SUFFICES ASSUME Init PROVE EInv
  OBVIOUS
<1>1. TypeOK
  <2>1. /\ \A x \in Inst : /\ tokens[x] = <<>> /\ inbox[x] = <<>> /\ pending[x] = <<>> /\ held[x] = <<>>
        /\ \A l \in Link : out[l] = <<>>
    BY DEF Init
  <2>2. /\ tokens \in [Inst -> Seq(Link)] /\ held \in [Inst -> Seq(Inst \X Nat)]
        /\ pending \in [Inst -> Seq(Inst \X Nat)] /\ inbox \in [Inst -> Seq(Inst \X Nat)]
        /\ out \in [Link -> Seq(Nat)] /\ work \in Seq(Inst \X Nat) /\ todo \in Seq(Inst)
    BY EmptySeq DEF Init
  <2>3. Len(<<>>) = 0 /\ DOMAIN <<>> = {}
    OBVIOUS
  <2>4. 0 <= InboxCap /\ 0 <= MaxPending /\ 0 <= EndpointCap /\ 0 \in 0..MaxMsg
    BY EndpointsAssumption
  <2>5. sent \in [Link -> 0..MaxMsg] /\ read \in [Link -> Nat]
    BY <2>4 DEF Init
  <2>6. /\ place \in [Inst -> {"resident", "cached", "gone"}] /\ declared \in [Inst -> BOOLEAN]
        /\ open \subseteq Link /\ pc = "idle" /\ stopped \subseteq Inst /\ token \in Nat \ {0}
    BY DEF Init
  <2>7. QED
    BY <2>1, <2>2, <2>3, <2>4, <2>5, <2>6 DEF TypeOK
<1>2. Cursor
  BY DEF Init, Cursor
<1>3. OneHeld
  <2>1. \A x \in Inst : held[x] = <<>> /\ Retrying(x) = <<>>
    BY DEF Init, Retrying
  <2>2. QED
    BY <2>1, ConcatEmpty, EmptySeq DEF OneHeld
<1>4. ASSUME NEW l \in Link PROVE LinkInv(l)
  <2>1. Arrived(l) = {} /\ Buffered(l) = {} /\ Kept(l) = {} /\ Queued(l) = {}
    <3>1. inbox[l[2]] = <<>> /\ pending[l[2]] = <<>> /\ held[l[1]] = <<>> /\ Retrying(l[1]) = <<>> /\ out[l] = <<>>
      BY EndpointsAssumption DEF Init, Retrying
    <3>2. QED
      BY <3>1 DEF Arrived, Buffered, Kept, Queued, Numbers
  <2>2. Lined(read[l], Arrived(l), Buffered(l), Kept(l), Queued(l))
    BY <2>1 DEF Lined, Before
  <2>3. inbox[l[2]] = <<>> /\ pending[l[2]] = <<>> /\ out[l] = <<>> /\ read[l] <= sent[l]
    BY EndpointsAssumption DEF Init
  <2>4. QED
    BY <2>1, <2>2, <2>3 DEF LinkInv, OnTheWay, Rising
<1>5. QED
  BY <1>1, <1>2, <1>3, <1>4 DEF EInv, Lossless

(* The types of what a step of the route cursor or of a program touches.   *)
LEMMA Heads ==
    ASSUME TypeOK, todo # <<>>
    PROVE  Me \in Inst /\ Tail(todo) \in Seq(Inst)
BY HeadTailProperties DEF TypeOK, Me

\* A slot's tokens are links from it.
LEMMA OwnTokens ==
    ASSUME TypeOK, NEW x \in Inst
    PROVE  tokens[x] \in Seq(Link) /\ \A i \in DOMAIN tokens[x] : tokens[x][i] \in Link /\ tokens[x][i][1] = x
<1>1. tokens \in [Inst -> Seq(Link)] /\ \A i \in DOMAIN tokens[x] : tokens[x][i][1] = x
  BY DEF TypeOK
<1>2. tokens[x] \in Seq(Link)
  BY <1>1
<1>3. QED
  BY <1>1, <1>2, LenProperties

\* The token routing is at names a link of the slot it is at.
LEMMA Tokens ==
    ASSUME TypeOK, Cursor, Bound
    PROVE  /\ Me \in Inst /\ Here \in Link /\ Here = <<Me, Far(Here)>> /\ Far(Here) \in Inst
           /\ token + 1 \in Nat \ {0} /\ todo # <<>>
<1>1. Me \in Inst /\ todo # <<>>
  BY Heads DEF Bound, Cursor
<1>2. tokens[Me] \in Seq(Link) /\ token \in DOMAIN tokens[Me]
  <2>1. tokens[Me] \in Seq(Link) /\ token \in Nat \ {0} /\ token <= Len(tokens[Me])
    BY <1>1, OwnTokens DEF TypeOK, Bound
  <2>2. QED
    BY <2>1, LenProperties
<1>3. Here \in Link /\ Here[1] = Me
  BY <1>1, <1>2, OwnTokens DEF Here
<1>4. token + 1 \in Nat \ {0}
  BY DEF TypeOK
<1>5. Here = <<Here[1], Here[2]>> /\ Here[2] \in Inst
  BY <1>3, Ends
<1>6. QED
  BY <1>1, <1>3, <1>4, <1>5 DEF Far

(* Steps that move no message.                                             *)
Still == UNCHANGED <<held, pending, inbox, out, sent, read, work>>

\* A step that moves no message keeps the links.
LEMMA StillStep ==
    ASSUME EInv, Still, TypeOK', Cursor', work = <<>>
    PROVE  EInv'
<1>1. \A x \in Inst : Retrying(x) = <<>> /\ Retrying(x)' = <<>>
  BY DEF Retrying, Still
<1>2. OneHeld'
  BY <1>1 DEF EInv, OneHeld, Still
<1>3. ASSUME NEW l \in Lossless PROVE LinkInv(l)'
  <2>1. l \in Link /\ l[1] \in Inst
    BY Ends DEF Lossless, EInv
  <2>2. QED
    BY <1>1, <2>1, LinkFrame DEF EInv, Still
<1>4. QED
  BY <1>2, <1>3 DEF EInv

\* Where routing is may change, with the messages left alone.
LEMMA CursorStep ==
    ASSUME EInv, BeginStep \/ (\E x \in Inst : Stop(x)) \/ HeldDone \/ SkipToken \/ CloseForeign
                 \/ TokensDone \/ (Slot /\ ~Alive(Me)) \/ (Routed /\ stopped = {}) \/ WokenAll
    PROVE  EInv'
<1> USE DEF EInv
<1>1. CASE BeginStep \/ \E x \in Inst : Stop(x)
  <2>1. PICK slots, X : Begin(slots, X) /\ slots \in Seq(Inst) /\ X \subseteq Inst
    <3>1. CASE BeginStep
      <4>1. Order \in Seq(Inst)
        BY EndpointsAssumption, FS_CardinalityType
      <4>2. QED
        BY <3>1, <4>1 DEF BeginStep
    <3>2. CASE \E x \in Inst : Stop(x)
      <4>1. PICK x \in Inst : Begin(<<x>>, {x})
        BY <3>2 DEF Stop
      <4>2. <<x>> \in Seq(Inst) /\ {x} \subseteq Inst
        OBVIOUS
      <4>3. QED
        BY <4>1, <4>2
    <3>3. QED
      BY <1>1, <3>1, <3>2
  <2>2. TypeOK' /\ Cursor' /\ Still /\ work = <<>>
    BY <2>1 DEF Begin, TypeOK, Cursor, Still, programVars
  <2>3. QED
    BY <2>2, StillStep
<1>2. CASE HeldDone \/ TokensDone \/ (Slot /\ ~Alive(Me))
  <2>1. todo # <<>> /\ Me \in Inst /\ Tail(todo) \in Seq(Inst) /\ work = <<>>
    BY <1>2, Heads DEF Cursor, HeldDone, TokensDone, Slot
  <2>2. TypeOK' /\ Cursor' /\ Still
    <3>1. CASE HeldDone
      <4>1. /\ UNCHANGED <<place, held, pending, inbox, declared, tokens, open, out, sent, read, stopped, work>>
            /\ pc' \in {"token", "slot"} /\ token' \in {1, token} /\ todo' \in {todo, Tail(todo)}
            /\ pc' = "token" => todo' = todo
        BY <3>1 DEF HeldDone, programVars
      <4>2. Still /\ Cursor'
        BY <2>1, <4>1 DEF Still, Cursor
      <4>3. token' \in Nat \ {0} /\ todo' \in Seq(Inst)
        <5>1. token' = 1 \/ token' = token
          BY <4>1
        <5>2. token \in Nat \ {0} /\ todo \in Seq(Inst)
          BY DEF TypeOK
        <5>3. token' \in Nat \ {0}
          BY <5>1, <5>2
        <5>4. QED
          BY <2>1, <4>1, <5>2, <5>3
      <4>4. QED
        BY <4>1, <4>2, <4>3 DEF TypeOK
    <3>2. CASE TokensDone
      BY <2>1, <3>2 DEF TokensDone, TypeOK, Cursor, Still, programVars
    <3>3. CASE Slot /\ ~Alive(Me)
      BY <2>1, <3>3 DEF Slot, TypeOK, Cursor, Still, programVars
    <3>4. QED
      BY <1>2, <3>1, <3>2, <3>3
  <2>3. QED
    BY <2>1, <2>2, StillStep
<1>3. CASE SkipToken \/ CloseForeign
  <2>1. token + 1 \in Nat \ {0} /\ todo # <<>> /\ work = <<>> /\ pc = "token"
    BY <1>3, Tokens DEF SkipToken, CloseForeign, Cursor, Bound
  <2>2. TypeOK' /\ Cursor' /\ Still
    BY <1>3, <2>1 DEF SkipToken, CloseForeign, TypeOK, Cursor, Still, programVars
  <2>3. QED
    BY <2>1, <2>2, StillStep
<1>4. CASE (Routed /\ stopped = {}) \/ WokenAll
  <2>1. TypeOK' /\ Cursor' /\ Still /\ work = <<>>
    BY <1>4 DEF Routed, WokenAll, TypeOK, Cursor, Still, programVars
  <2>2. QED
    BY <2>1, StillStep
<1>5. QED
  BY <1>1, <1>2, <1>3, <1>4

(* A program binds, makes its inbox, or is swapped out.                    *)
LEMMA ProgramStep ==
    ASSUME EInv, (\E l \in Link : Bind(l)) \/ \E x \in Inst : Declare(x) \/ Hibernate(x)
    PROVE  EInv'
<1> USE DEF EInv
<1>1. CASE \E l \in Link : Bind(l)
  <2>1. PICK l \in Link : Bind(l)
    BY <1>1
  <2>2. l[1] \in Inst /\ tokens[l[1]] \in Seq(Link)
    BY Ends, OwnTokens
  <2>3. tokens' = [tokens EXCEPT ![l[1]] = Append(tokens[l[1]], l)]
    BY <2>1 DEF Bind
  <2>4. /\ Append(tokens[l[1]], l) \in Seq(Link) /\ tokens' \in [Inst -> Seq(Link)]
        /\ \A x \in Inst : x # l[1] => tokens'[x] = tokens[x]
        /\ tokens'[l[1]] = Append(tokens[l[1]], l)
    <3>1. tokens \in [Inst -> Seq(Link)]
      BY DEF TypeOK
    <3>2. Append(tokens[l[1]], l) \in Seq(Link)
      BY <2>2, AppendProperties
    <3>3. QED
      BY <2>2, <2>3, <3>1, <3>2
  <2>5. \A i \in DOMAIN tokens'[l[1]] : tokens'[l[1]][i][1] = l[1]
    <3>1. ASSUME NEW i \in DOMAIN Append(tokens[l[1]], l) PROVE Append(tokens[l[1]], l)[i][1] = l[1]
      <4>1. /\ i = Len(tokens[l[1]]) + 1 \/ i \in 1..Len(tokens[l[1]])
            /\ Append(tokens[l[1]], l)[Len(tokens[l[1]]) + 1] = l
            /\ \A k \in 1..Len(tokens[l[1]]) : Append(tokens[l[1]], l)[k] = tokens[l[1]][k]
            /\ DOMAIN tokens[l[1]] = 1..Len(tokens[l[1]])
        BY <2>2, <3>1, AppendProperties, LenProperties
      <4>2. \A j \in DOMAIN tokens[l[1]] : tokens[l[1]][j][1] = l[1]
        BY <2>2, OwnTokens
      <4>3. QED
        BY <4>1, <4>2
    <3>2. QED
      BY <2>4, <3>1
  <2>6. TypeOK' /\ Cursor' /\ Still /\ work = <<>>
    BY <2>1, <2>4, <2>5 DEF Bind, TypeOK, Cursor, Still, routeVars
  <2>7. QED
    BY <2>6, StillStep
<1>2. CASE \E x \in Inst : Declare(x) \/ Hibernate(x)
  <2>1. PICK x \in Inst : Declare(x) \/ Hibernate(x)
    BY <1>2
  <2>2. CASE Declare(x)
    <3>1. TypeOK' /\ Cursor' /\ Still /\ work = <<>>
      BY <2>2 DEF Declare, TypeOK, Cursor, Still, routeVars
    <3>2. QED
      BY <3>1, StillStep
  <2>3. CASE Hibernate(x)
    <3>1. Cursor' /\ Still /\ work = <<>>
      BY <2>3 DEF Hibernate, Cursor, Still, routeVars
    <3>2. /\ \A y \in Inst : pending[y] # <<>> => place'[y] = "cached" /\ y \in Waking
          /\ place' \in [Inst -> {"resident", "cached", "gone"}]
      BY <2>3 DEF Hibernate, TypeOK
    <3>3. /\ tokens' \in [Inst -> Seq(Link)]
          /\ \A y \in Inst : \A i \in DOMAIN tokens'[y] : tokens'[y][i][1] = y
      <4>1. <<>> \in Seq(Link) /\ tokens' = [tokens EXCEPT ![x] = <<>>] /\ DOMAIN <<>> = {}
        BY <2>3, EmptySeq DEF Hibernate
      <4>2. QED
        BY <4>1 DEF TypeOK
    <3>4. TypeOK'
      BY <2>3, <3>2, <3>3 DEF Hibernate, TypeOK, routeVars
    <3>5. QED
      BY <3>1, <3>4, StillStep
  <2>4. QED
    BY <2>1, <2>2, <2>3
<1>3. QED
  BY <1>1, <1>2

(* A program pushes a message: it is numbered above all that are on the    *)
(* way.                                                                    *)
LEMMA SendStep ==
    ASSUME EInv, NEW k \in Link, Send(k)
    PROVE  EInv'
<1> USE DEF EInv
<1>1. /\ pc = "idle" /\ Len(out[k]) < EndpointCap /\ sent[k] < MaxMsg
      /\ sent' = [sent EXCEPT ![k] = sent[k] + 1] /\ out' = [out EXCEPT ![k] = Append(out[k], sent'[k])]
      /\ UNCHANGED <<place, held, pending, inbox, declared, tokens, open, read, pc, todo, stopped, token, work>>
  BY DEF Send, routeVars
<1>2. /\ out[k] \in Seq(Nat) /\ sent[k] \in Nat /\ sent'[k] = sent[k] + 1 /\ sent'[k] \in 0..MaxMsg
      /\ out'[k] = Append(out[k], sent[k] + 1) /\ Append(out[k], sent[k] + 1) \in Seq(Nat)
      /\ Len(Append(out[k], sent[k] + 1)) <= EndpointCap
  <2>1. out[k] \in Seq(Nat) /\ sent[k] \in 0..MaxMsg /\ Len(out[k]) \in Nat
    BY LenProperties DEF TypeOK
  <2>2. sent[k] \in Nat /\ sent'[k] = sent[k] + 1 /\ sent'[k] \in 0..MaxMsg
    <3>1. sent'[k] = sent[k] + 1 
      BY <1>1 DEF TypeOK
    <3>2. MaxMsg \in Nat
      BY EndpointsAssumption
    <3>3. QED
      BY <1>1, <2>1, <3>1, <3>2
  <2>3. Append(out[k], sent[k] + 1) \in Seq(Nat) /\ Len(Append(out[k], sent[k] + 1)) = Len(out[k]) + 1
    BY <2>1, <2>2, AppendProperties
  <2>4. out'[k] = Append(out[k], sent[k] + 1)
    BY <1>1, <2>2 DEF TypeOK
  <2>5. QED
    BY <1>1, <2>1, <2>2, <2>3, <2>4, EndpointsAssumption
<1>3. TypeOK'
  <2>1. out' \in [Link -> Seq(Nat)] /\ sent' \in [Link -> 0..MaxMsg]
    BY <1>1, <1>2 DEF TypeOK
  <2>2. \A l \in Link : Len(out'[l]) <= EndpointCap
    BY <1>1, <1>2 DEF TypeOK
  <2>3. QED
    BY <1>1, <2>1, <2>2 DEF TypeOK
<1>4. Cursor'
  BY <1>1 DEF Cursor
<1>5. UNCHANGED <<held, Retrying(k[1])>> /\ \A x \in Inst : UNCHANGED Retrying(x)
  BY <1>1 DEF Retrying
<1>6. OneHeld'
  BY <1>5 DEF OneHeld
<1>7. ASSUME NEW l \in Lossless, l # k PROVE LinkInv(l)'
  <2>1. l \in Link /\ l[1] \in Inst
    BY Ends DEF Lossless
  <2>2. UNCHANGED <<read[l], sent[l], inbox[l[2]], pending[l[2]], held[l[1]], Retrying(l[1]), out[l]>>
    BY <1>1, <1>5, <1>7, <2>1 DEF TypeOK
  <2>3. QED
    BY <2>1, <2>2, LinkFrame
<1>8. ASSUME k \in Lossless PROVE LinkInv(k)'
  <2>1. LinkInv(k)
    BY <1>8
  <2>2. UNCHANGED <<read[k], Arrived(k), Buffered(k), Kept(k)>>
    BY <1>1, <1>5 DEF Arrived, Buffered, Kept
  <2>3. /\ Len(out[k]) \in Nat /\ DOMAIN out[k] = 1..Len(out[k]) /\ DOMAIN out'[k] = 1..(Len(out[k]) + 1)
        /\ out'[k][Len(out[k]) + 1] = sent[k] + 1 /\ \A i \in 1..Len(out[k]) : out'[k][i] = out[k][i]
    BY <1>2, AppendProperties, LenProperties
  <2>4. \A i \in DOMAIN out'[k] : (i \in DOMAIN out[k] /\ out'[k][i] = out[k][i]) \/ (i = Len(out[k]) + 1 /\ out'[k][i] = sent[k] + 1)
    BY <2>3
  <2>5. Queued(k)' \subseteq Queued(k) \cup {sent[k] + 1}
    BY <2>4 DEF Queued
  <2>6. \A n \in OnTheWay(k) : n \in Nat /\ n < sent[k] + 1
    BY <1>2, <2>1, Ends DEF LinkInv, OnTheWay
  <2>7. Lined(read[k], Arrived(k), Buffered(k), Kept(k), Queued(k))'
    <3>1. read[k] \in Nat /\ read[k] < sent[k] + 1
      BY <1>2, <2>1, Ends DEF LinkInv
    <3>2. Lined(read[k], Arrived(k), Buffered(k), Kept(k), Queued(k)')
      BY <2>1, <2>5, <2>6, <3>1 DEF LinkInv, OnTheWay, Lined, Before
    <3>3. QED
      BY <2>2, <3>2
  <2>8. \A i, j \in DOMAIN out'[k] : i < j => out'[k][i] < out'[k][j]
    <3> SUFFICES ASSUME NEW i \in DOMAIN out'[k], NEW j \in DOMAIN out'[k], i < j PROVE out'[k][i] < out'[k][j]
      OBVIOUS
    <3>1. i \in DOMAIN out[k] /\ out'[k][i] = out[k][i]
      BY <2>3, <2>4
    <3>2. CASE j \in DOMAIN out[k] /\ out'[k][j] = out[k][j]
      BY <2>1, <3>1, <3>2 DEF LinkInv
    <3>3. CASE j = Len(out[k]) + 1 /\ out'[k][j] = sent[k] + 1
      <4>1. out[k][i] \in OnTheWay(k)
        BY <3>1 DEF OnTheWay, Queued
      <4>2. QED
        BY <2>6, <3>1, <3>3, <4>1
    <3>4. QED
      BY <2>4, <3>2, <3>3
  <2>9. /\ read'[k] <= sent'[k] /\ \A n \in OnTheWay(k)' : n <= sent'[k]
    <3>1. OnTheWay(k)' \subseteq OnTheWay(k) \cup {sent[k] + 1}
      BY <2>2, <2>5 DEF OnTheWay
    <3>2. read'[k] = read[k] /\ read[k] \in Nat /\ read[k] <= sent[k]
      BY <1>1, <2>1, Ends DEF LinkInv
    <3>3. sent'[k] = sent[k] + 1 /\ sent[k] \in Nat
      BY <1>2
    <3>4. ASSUME NEW n \in OnTheWay(k)' PROVE n <= sent'[k]
      BY <2>6, <3>1, <3>3
    <3>5. QED
      BY <3>2, <3>3, <3>4
  <2>10. QED
    BY <1>1, <2>1, <2>7, <2>8, <2>9 DEF LinkInv
<1>9. QED
  BY <1>3, <1>4, <1>6, <1>7, <1>8

(* A link loses messages, and nothing else.                                *)
LEMMA LinkShrinks ==
    ASSUME NEW l \in Link, LinkInv(l), UNCHANGED <<read[l], sent[l]>>,
           Arrived(l)' \subseteq Arrived(l), Buffered(l)' \subseteq Buffered(l),
           Kept(l)' \subseteq Kept(l), Queued(l)' \subseteq Queued(l),
           Rising(inbox[l[2]], l[1])', Rising(pending[l[2]], l[1])',
           (\A i, j \in DOMAIN out[l] : i < j => out[l][i] < out[l][j])'
    PROVE  LinkInv(l)'
<1>1. Lined(read[l], Arrived(l), Buffered(l), Kept(l), Queued(l))'
  BY Shrinks DEF LinkInv
<1>2. OnTheWay(l)' \subseteq OnTheWay(l)
  BY DEF OnTheWay
<1>3. QED
  BY <1>1, <1>2 DEF LinkInv

(* The far end reads its oldest message.                                   *)
LEMMA ReadStep ==
    ASSUME EInv, NEW x \in Inst, Read(x)
    PROVE  EInv'
<1> USE DEF EInv
<1> DEFINE m == Head(inbox[x])
<1>1. /\ pc = "idle" /\ inbox[x] # <<>> /\ read' = [read EXCEPT ![<<m[1], x>>] = m[2]]
      /\ inbox' = [inbox EXCEPT ![x] = Tail(inbox[x])]
      /\ UNCHANGED <<place, held, pending, declared, tokens, open, out, sent, pc, todo, stopped, token, work>>
  BY DEF Read, routeVars
<1>2. /\ inbox[x] \in Seq(Msg) /\ Tail(inbox[x]) \in Seq(Msg) /\ m \in Msg /\ inbox'[x] = Tail(inbox[x])
      /\ Len(Tail(inbox[x])) <= InboxCap
  <2>1. inbox[x] \in Seq(Msg) /\ Len(inbox[x]) <= InboxCap /\ InboxCap \in Nat
    BY EndpointsAssumption DEF TypeOK, Msg
  <2>2. Len(Tail(inbox[x])) = Len(inbox[x]) - 1 /\ Len(inbox[x]) \in Nat /\ Tail(inbox[x]) \in Seq(Msg) /\ m \in Msg
    BY <1>1, <2>1, HeadTailProperties, LenProperties
  <2>3. inbox'[x] = Tail(inbox[x])
    BY <1>1 DEF TypeOK
  <2>4. QED
    BY <2>1, <2>2, <2>3
<1>3. m[1] \in Inst /\ m[2] \in Nat
  BY <1>2 DEF Msg
<1> HIDE DEF m
<1>4. TypeOK'
  <2>1. inbox' \in [Inst -> Seq(Inst \X Nat)] /\ \A y \in Inst : Len(inbox'[y]) <= InboxCap
    BY <1>1, <1>2 DEF TypeOK, Msg
  <2>2. read' \in [Link -> Nat]
    BY <1>1, <1>3 DEF TypeOK
  <2>3. QED
    BY <1>1, <2>1, <2>2 DEF TypeOK
<1>5. Cursor'
  BY <1>1 DEF Cursor
<1>6. \A y \in Inst : UNCHANGED Retrying(y)
  BY <1>1 DEF Retrying
<1>7. OneHeld'
  BY <1>1, <1>6 DEF OneHeld
<1>8. ASSUME NEW l \in Lossless PROVE LinkInv(l)'
  <2>1. l \in Link /\ l[1] \in Inst /\ l[2] \in Inst /\ l = <<l[1], l[2]>> /\ LinkInv(l)
    BY Ends DEF Lossless
  <2>2. UNCHANGED <<sent[l], pending[l[2]], held[l[1]], Retrying(l[1]), out[l]>>
    BY <1>1, <1>6, <2>1
  <2>3. UNCHANGED <<Buffered(l), Kept(l), Queued(l)>>
    BY <2>2 DEF Buffered, Kept, Queued
  <2>4. CASE l[2] # x
    <3>1. UNCHANGED <<read[l], inbox[l[2]]>>
      <4>1. l # <<m[1], x>>
        BY <2>1, <2>4
      <4>2. QED
        BY <1>1, <2>1, <2>4, <4>1 DEF TypeOK
    <3>2. QED
      BY <2>1, <2>2, <3>1, LinkFrame
  <2>5. CASE l[2] = x /\ l[1] # m[1]
    <3>1. UNCHANGED read[l]
      <4>1. l # <<m[1], x>>
        BY <2>1, <2>5
      <4>2. QED
        BY <1>1, <2>1, <4>1 DEF TypeOK
    <3>2. Arrived(l)' \subseteq Arrived(l)
      BY <1>1, <1>2, <2>1, <2>5, NumbersTail DEF Arrived
    <3>3. Rising(inbox[l[2]], l[1])' 
      BY <1>1, <1>2, <2>1, <2>5, RisingTail DEF LinkInv
    <3>4. /\ Rising(pending[l[2]], l[1])' /\ (\A i, j \in DOMAIN out[l] : i < j => out[l][i] < out[l][j])'
      BY <2>1, <2>2 DEF LinkInv
    <3>5. QED
      BY <2>1, <2>2, <2>3, <3>1, <3>2, <3>3, <3>4, LinkShrinks
  <2>6. CASE l[2] = x /\ l[1] = m[1]
    <3>1. read'[l] = m[2]
      BY <1>1, <2>1, <2>6 DEF TypeOK
    <3>2. Arrived(l) = Arrived(l)' \cup {m[2]} 
      BY <1>1, <1>2, <2>1, <2>6, NumbersTail DEF Arrived, m
    <3>3. /\ Rising(inbox[l[2]], l[1])' /\ \A n \in Arrived(l)' : m[2] < n
      BY <1>1, <1>2, <2>1, <2>6, RisingTail DEF LinkInv, Arrived, m
    <3>4. Lined(m[2], Arrived(l)', Buffered(l), Kept(l), Queued(l))
      BY <2>1, <3>2, <3>3 DEF LinkInv, Lined, Before
    <3>5. OnTheWay(l)' \subseteq OnTheWay(l) /\ m[2] \in OnTheWay(l)
      BY <2>3, <3>2 DEF OnTheWay
    <3>6. QED
      BY <2>1, <2>2, <2>3, <3>1, <3>3, <3>4, <3>5 DEF LinkInv
  <2>7. QED
    BY <2>4, <2>5, <2>6
<1>9. QED
  BY <1>4, <1>5, <1>7, <1>8

(* An instance goes: everything in its slot goes with it.                  *)
LEMMA GoneStep ==
    ASSUME EInv, NEW x \in Inst, Gone(x), UNCHANGED <<todo, stopped, token, work>>,
           pc # "held", pc' \in {pc, "idle"}
    PROVE  EInv'
<1> USE DEF EInv
<1>1. /\ place' = [place EXCEPT ![x] = "gone"] /\ held' = [held EXCEPT ![x] = <<>>]
      /\ pending' = [pending EXCEPT ![x] = <<>>] /\ inbox' = [inbox EXCEPT ![x] = <<>>]
      /\ tokens' = [tokens EXCEPT ![x] = <<>>]
      /\ out' = [l \in Link |-> IF l[1] = x THEN <<>> ELSE out[l]]
      /\ UNCHANGED <<declared, open, sent, read>>
  BY DEF Gone
<1>2. work = <<>> /\ \A y \in Inst : Retrying(y) = <<>> /\ Retrying(y)' = <<>>
  BY DEF Cursor, Retrying
<1>3. TypeOK'
  <2>1. /\ <<>> \in Seq(Inst \X Nat) /\ <<>> \in Seq(Link) /\ <<>> \in Seq(Nat) /\ Len(<<>>) = 0
        /\ 0 <= InboxCap /\ 0 <= MaxPending /\ 0 <= EndpointCap /\ DOMAIN <<>> = {}
    BY EmptySeq, EndpointsAssumption
  <2>2. /\ held' \in [Inst -> Seq(Inst \X Nat)] /\ pending' \in [Inst -> Seq(Inst \X Nat)]
        /\ inbox' \in [Inst -> Seq(Inst \X Nat)] /\ tokens' \in [Inst -> Seq(Link)]
        /\ place' \in [Inst -> {"resident", "cached", "gone"}]
    BY <1>1, <2>1 DEF TypeOK
  <2>3. out' \in [Link -> Seq(Nat)] /\ \A l \in Link : Len(out'[l]) <= EndpointCap
    BY <1>1, <2>1 DEF TypeOK
  <2>4. \A y \in Inst : /\ Len(inbox'[y]) <= InboxCap /\ Len(pending'[y]) <= MaxPending
                        /\ pending'[y] # <<>> => place'[y] = "cached" /\ y \in Waking
    BY <1>1, <2>1 DEF TypeOK
  <2>5. \A y \in Inst : \A i \in DOMAIN tokens'[y] : tokens'[y][i][1] = y
    BY <1>1, <2>1 DEF TypeOK
  <2>6. QED
    BY <1>1, <2>2, <2>3, <2>4, <2>5 DEF TypeOK
<1>4. Cursor'
  BY <1>2 DEF Cursor
<1>5. OneHeld'
  <2>1. ASSUME NEW y \in Inst PROVE Distinct(held'[y] \o Retrying(y)')
    <3>1. held[y] \in Seq(Msg) /\ Distinct(held[y] \o <<>>)
      BY <1>2 DEF TypeOK, Msg, OneHeld
    <3>2. held'[y] = held[y] \/ held'[y] = <<>>
      BY <1>1 DEF TypeOK
    <3>3. QED
      BY <1>2, <3>1, <3>2, ConcatEmpty, EmptySeq
  <2>2. QED
    BY <2>1 DEF OneHeld
<1>6. ASSUME NEW l \in Lossless PROVE LinkInv(l)'
  <2>1. l \in Link /\ l[1] \in Inst /\ l[2] \in Inst /\ LinkInv(l)
    BY Ends DEF Lossless
  <2>2. /\ held'[l[1]] \in {held[l[1]], <<>>} /\ out'[l] \in {out[l], <<>>}
        /\ inbox'[l[2]] \in {inbox[l[2]], <<>>} /\ pending'[l[2]] \in {pending[l[2]], <<>>}
        /\ Retrying(l[1])' = Retrying(l[1])
    BY <1>1, <1>2, <2>1 DEF TypeOK
  <2>3. /\ Arrived(l)' \subseteq Arrived(l) /\ Buffered(l)' \subseteq Buffered(l)
        /\ Kept(l)' \subseteq Kept(l) /\ Queued(l)' \subseteq Queued(l)
    BY <2>2 DEF Arrived, Buffered, Kept, Queued, Numbers
  <2>4. /\ Rising(inbox[l[2]], l[1])' /\ Rising(pending[l[2]], l[1])'
        /\ (\A i, j \in DOMAIN out[l] : i < j => out[l][i] < out[l][j])'
    BY <2>1, <2>2 DEF LinkInv, Rising
  <2>5. QED
    BY <1>1, <2>1, <2>3, <2>4, LinkShrinks
<1>7. QED
  BY <1>3, <1>4, <1>5, <1>6

(* What an inbox takes of what it is given: its type and its bound, and,   *)
(* of an inbox that does not evict, the beginning.                         *)
LEMMA Filled ==
    ASSUME TypeOK, NEW x \in Inst, NEW msgs \in Seq(Msg)
    PROVE  /\ Fill(x, msgs) \in Seq(Msg) /\ Len(Fill(x, msgs)) <= InboxCap
           /\ x \notin DropOldest => \E n \in Nat : /\ n <= Len(inbox[x] \o msgs)
                                                    /\ Fill(x, msgs) = SubSeq(inbox[x] \o msgs, 1, n)
                                                    /\ n = IF Len(inbox[x] \o msgs) > InboxCap
                                                           THEN InboxCap ELSE Len(inbox[x] \o msgs)
<1> DEFINE all == inbox[x] \o msgs  n == Len(all)
<1>1. inbox[x] \in Seq(Msg) /\ InboxCap \in Nat \ {0}
  BY EndpointsAssumption DEF TypeOK, Msg
<1>2. all \in Seq(Msg) /\ n \in Nat /\ \A i \in 1..n : all[i] \in Msg
  BY <1>1, ConcatProperties, LenProperties
<1>3. Fill(x, msgs) = IF x \in DropOldest /\ n > InboxCap THEN SubSeq(all, n - InboxCap + 1, n)
                      ELSE SubSeq(all, 1, IF n > InboxCap THEN InboxCap ELSE n)
  BY DEF Fill
<1> HIDE DEF all, n
<1>4. CASE x \in DropOldest /\ n > InboxCap
  <2>1. /\ Fill(x, msgs) = SubSeq(all, n - InboxCap + 1, n)
        /\ n - InboxCap + 1 \in 1..(n + 1) /\ n \in (n - InboxCap)..n /\ n - (n - InboxCap + 1) + 1 = InboxCap
    BY <1>1, <1>2, <1>3, <1>4
  <2>2. SubSeq(all, n - InboxCap + 1, n) \in Seq(Msg) /\ Len(SubSeq(all, n - InboxCap + 1, n)) = InboxCap
    <3>1. /\ n - InboxCap + 1 <= n + 1 /\ n - InboxCap + 1 \in Int /\ n \in Int
          /\ \A i \in (n - InboxCap + 1)..n : i \in 1..n
      BY <1>1, <1>2, <1>4
    <3>2. \A i \in (n - InboxCap + 1)..n : all[i] \in Msg
      BY <1>2, <3>1
    <3>3. QED
      BY <2>1, <3>1, <3>2, SubSeqProperties
  <2>3. QED
    BY <1>1, <1>4, <2>1, <2>2
<1>5. CASE ~(x \in DropOldest /\ n > InboxCap)
  <2> DEFINE k == IF n > InboxCap THEN InboxCap ELSE n
  <2>1. Fill(x, msgs) = SubSeq(all, 1, k) /\ k \in Nat /\ k <= n /\ k <= InboxCap
    BY <1>1, <1>2, <1>3, <1>5
  <2>2. SubSeq(all, 1, k) \in Seq(Msg) /\ Len(SubSeq(all, 1, k)) = k
    BY <1>2, <2>1, Beginning DEF n
  <2>3. QED
    BY <2>1, <2>2 DEF all, n
<1>6. QED
  BY <1>4, <1>5

(* A wake drains the buffer behind what the inbox held.                    *)
LEMMA WakeStep ==
    ASSUME EInv, NEW x \in Inst, Wake(x), pc # "held"
    PROVE  EInv'
<1> USE DEF EInv
<1>1. /\ place' = [place EXCEPT ![x] = "resident"] /\ inbox' = [inbox EXCEPT ![x] = Drained(x)]
      /\ pending' = [pending EXCEPT ![x] = <<>>]
      /\ UNCHANGED <<held, declared, tokens, open, out, sent, read, pc, todo, stopped, token, work>>
  BY DEF Wake, programVars, routeVars
<1>2. inbox[x] \in Seq(Msg) /\ pending[x] \in Seq(Msg) /\ Len(inbox[x]) <= InboxCap
  BY DEF TypeOK, Msg
<1>3. Drained(x) \in Seq(Msg) /\ Len(Drained(x)) <= InboxCap
  BY <1>2, Filled DEF Drained
<1>4. TypeOK'
  <2>1. <<>> \in Seq(Inst \X Nat) /\ Len(<<>>) = 0 /\ 0 <= MaxPending
    BY EmptySeq, EndpointsAssumption
  <2>2. inbox' \in [Inst -> Seq(Inst \X Nat)] /\ \A y \in Inst : Len(inbox'[y]) <= InboxCap
    BY <1>1, <1>3 DEF TypeOK, Msg
  <2>3. /\ pending' \in [Inst -> Seq(Inst \X Nat)] /\ place' \in [Inst -> {"resident", "cached", "gone"}]
        /\ \A y \in Inst : /\ Len(pending'[y]) <= MaxPending
                           /\ pending'[y] # <<>> => place'[y] = "cached" /\ y \in Waking
    BY <1>1, <2>1 DEF TypeOK
  <2>4. QED
    BY <1>1, <2>2, <2>3 DEF TypeOK
<1>5. Cursor'
  BY <1>1 DEF Cursor
<1>6. \A y \in Inst : UNCHANGED Retrying(y)
  BY <1>1 DEF Retrying, Me
<1>7. OneHeld'
  BY <1>1, <1>6 DEF OneHeld
<1>8. ASSUME NEW l \in Lossless PROVE LinkInv(l)'
  <2>1. l \in Link /\ l[1] \in Inst /\ l[2] \in Inst /\ l[2] \notin DropOldest /\ LinkInv(l)
    BY Ends DEF Lossless
  <2>2. UNCHANGED <<read[l], sent[l], held[l[1]], Retrying(l[1]), out[l]>>
    BY <1>1, <1>6, <2>1
  <2>3. CASE l[2] # x
    BY <1>1, <2>1, <2>2, <2>3, LinkFrame DEF TypeOK
  <2>4. CASE l[2] = x
    <3>1. inbox'[l[2]] = Drained(x) /\ pending'[l[2]] = <<>>
      BY <1>1, <2>4 DEF TypeOK
    <3>2. /\ Before(Arrived(l), Buffered(l)) /\ Rising(inbox[x], l[1]) /\ Rising(pending[x], l[1])
      BY <2>1, <2>4 DEF LinkInv, Lined, Before
    <3>3. Arrived(l)' \subseteq Arrived(l) \cup Buffered(l) /\ Rising(Drained(x), l[1])
      <4>1. CASE ~declared[x]
        BY <2>4, <3>1, <3>2, <4>1 DEF Drained, Arrived
      <4>2. CASE declared[x]
        <5> DEFINE all == inbox[x] \o pending[x]
        <5>1. PICK n \in Nat : n <= Len(all) /\ Drained(x) = SubSeq(all, 1, n)
          BY <1>2, <2>1, <2>4, <4>2, Filled DEF Drained
        <5>2. all \in Seq(Msg) /\ Numbers(all, l[1]) \subseteq Arrived(l) \cup Buffered(l) /\ Rising(all, l[1])
          BY <1>2, <2>1, <2>4, <3>2, ConcatProperties, NumbersConcat, RisingConcat DEF Arrived, Buffered
        <5> HIDE DEF all
        <5>3. Numbers(Drained(x), l[1]) \subseteq Numbers(all, l[1]) /\ Rising(Drained(x), l[1])
          BY <2>1, <5>1, <5>2, Beginning
        <5>4. Arrived(l)' = Numbers(Drained(x), l[1])
          BY <3>1 DEF Arrived
        <5>5. QED
          BY <5>2, <5>3, <5>4
      <4>3. QED
        BY <4>1, <4>2
    <3>4. Buffered(l)' = {} /\ UNCHANGED <<Kept(l), Queued(l)>>
      BY <2>2, <3>1 DEF Buffered, Kept, Queued, Numbers
    <3>5. Lined(read[l], Arrived(l)', {}, Kept(l), Queued(l))
      BY <2>1, <3>3 DEF LinkInv, Lined, Before
    <3>6. OnTheWay(l)' \subseteq OnTheWay(l)
      BY <3>3, <3>4 DEF OnTheWay
    <3>7. Rising(<<>>, l[1])
      BY DEF Rising
    <3>8. QED
      BY <2>1, <2>2, <3>1, <3>3, <3>4, <3>5, <3>6, <3>7 DEF LinkInv
  <2>5. QED
    BY <2>3, <2>4
<1>9. QED
  BY <1>4, <1>5, <1>7, <1>8

(* route_slot takes the held messages in its hands.                        *)
LEMMA SlotStep ==
    ASSUME EInv, Slot, Alive(Me)
    PROVE  EInv'
<1> USE DEF EInv
<1>1. /\ pc = "slot" /\ pc' = "held" /\ todo # <<>> /\ work' = held[Me] /\ held' = [held EXCEPT ![Me] = <<>>]
      /\ UNCHANGED <<place, pending, inbox, declared, tokens, open, out, sent, read, todo, stopped, token>>
  BY DEF Slot, programVars
<1>2. PICK y \in Inst : y = Me
  BY <1>1, Heads
<1>3. held[y] \in Seq(Msg) /\ <<>> \in Seq(Msg) /\ work = <<>>
  BY <1>1, EmptySeq DEF TypeOK, Msg, Cursor
<1>4. TypeOK' /\ Cursor'
  BY <1>1, <1>2, <1>3 DEF TypeOK, Cursor, Msg
<1>5. ASSUME NEW x \in Inst
      PROVE  /\ Retrying(x) = <<>>
             /\ x = y => held'[x] = <<>> /\ Retrying(x)' = held[x]
             /\ x # y => held'[x] = held[x] /\ Retrying(x)' = <<>>
  BY <1>1, <1>2, <1>3 DEF Retrying, Me, TypeOK
<1>6. OneHeld'
  <2>1. ASSUME NEW x \in Inst PROVE Distinct(held'[x] \o Retrying(x)')
    <3>1. held[x] \in Seq(Msg) /\ Distinct(held[x] \o <<>>)
      BY <1>5 DEF TypeOK, Msg, OneHeld
    <3>2. QED
      BY <1>5, <3>1, ConcatEmpty
  <2>2. QED
    BY <2>1 DEF OneHeld
<1>7. ASSUME NEW l \in Lossless PROVE LinkInv(l)'
  <2>1. l \in Link /\ l[1] \in Inst /\ l[2] \in Inst /\ LinkInv(l)
    BY Ends DEF Lossless
  <2>2. UNCHANGED <<Arrived(l), Buffered(l), Kept(l), Queued(l)>>
    <3>1. UNCHANGED <<Arrived(l), Buffered(l), Queued(l)>>
      BY <1>1 DEF Arrived, Buffered, Queued
    <3>2. Numbers(<<>>, l[2]) = {}
      BY DEF Numbers
    <3>3. UNCHANGED Kept(l)
      BY <1>5, <2>1, <3>2 DEF Kept
    <3>4. QED
      BY <3>1, <3>3
  <2>3. QED
    BY <1>1, <2>1, <2>2, LinkShrinks DEF LinkInv
<1>8. QED
  BY <1>4, <1>6, <1>7

(* A delivery, to a far end whose inbox does not evict: the message lands  *)
(* in the inbox or in the wake buffer, or nothing happens.                 *)
LEMMA Delivered ==
    ASSUME TypeOK, NEW t \in Inst, NEW s \in Inst, NEW m \in Nat, Deliver(t, <<s, m>>)
    PROVE  /\ inbox' \in [Inst -> Seq(Msg)] /\ pending' \in [Inst -> Seq(Msg)]
           /\ \A x \in Inst : x # t => inbox'[x] = inbox[x] /\ pending'[x] = pending[x]
           /\ \A x \in Inst : /\ Len(inbox'[x]) <= InboxCap /\ Len(pending'[x]) <= MaxPending
                              /\ pending'[x] # <<>> => place[x] = "cached" /\ x \in Waking
           /\ t \notin DropOldest =>
                \/ /\ Answer(t) = "ok" /\ place[t] = "resident" /\ pending[t] = <<>>
                   /\ inbox'[t] = Append(inbox[t], <<s, m>>) /\ pending'[t] = pending[t]
                \/ /\ Answer(t) = "ok" /\ place[t] = "cached"
                   /\ inbox'[t] = inbox[t] /\ pending'[t] = Append(pending[t], <<s, m>>)
                \/ Answer(t) # "ok" /\ inbox'[t] = inbox[t] /\ pending'[t] = pending[t]
<1>1. /\ inbox[t] \in Seq(Msg) /\ pending[t] \in Seq(Msg) /\ <<s, m>> \in Msg /\ InboxCap \in Nat \ {0}
      /\ MaxPending \in Nat \ {0} /\ Len(inbox[t]) \in Nat /\ Len(pending[t]) \in Nat
      /\ Len(inbox[t]) <= InboxCap /\ Len(pending[t]) <= MaxPending
      /\ inbox \in [Inst -> Seq(Msg)] /\ pending \in [Inst -> Seq(Msg)]
  BY EndpointsAssumption, LenProperties DEF TypeOK, Msg
<1>2. place[t] \in {"resident", "cached", "gone"} /\ (pending[t] # <<>> => place[t] = "cached")
  BY DEF TypeOK
<1>3. /\ place[t] = "resident" /\ declared[t] /\ Len(inbox[t]) < InboxCap => Answer(t) = "ok"
      /\ place[t] = "resident" /\ ~(declared[t] /\ Len(inbox[t]) < InboxCap) => Answer(t) # "ok"
      /\ place[t] = "cached" /\ Answer(t) = "ok" => t \in Waking /\ Len(pending[t]) < MaxPending
      /\ place[t] = "gone" => Answer(t) # "ok"
  <2>1. declared[t] \in BOOLEAN
    BY DEF TypeOK
  <2>2. ASSUME place[t] = "resident", declared[t], Len(inbox[t]) < InboxCap PROVE Answer(t) = "ok"
    BY <2>1, <2>2, <1>1 DEF Answer
  <2>3. ASSUME place[t] = "resident", ~(declared[t] /\ Len(inbox[t]) < InboxCap) PROVE Answer(t) # "ok"
    BY <2>3 DEF Answer
  <2>4. ASSUME place[t] = "cached", Answer(t) = "ok" PROVE t \in Waking /\ Len(pending[t]) < MaxPending
    BY <2>4 DEF Answer
  <2>5. ASSUME place[t] = "gone" PROVE Answer(t) # "ok"
    BY <2>5 DEF Answer
  <2>6. QED
    BY <1>1, <2>2, <2>3, <2>4, <2>5
<1>4. <<<<s, m>>>> \in Seq(Msg)
  BY <1>1
<1>5. CASE place[t] = "resident" /\ declared[t]
  <2>1. inbox' = [inbox EXCEPT ![t] = Fill(t, <<<<s, m>>>>)] /\ pending' = pending /\ pending[t] = <<>>
    BY <1>2, <1>5 DEF Deliver
  <2>2. Fill(t, <<<<s, m>>>>) \in Seq(Msg) /\ Len(Fill(t, <<<<s, m>>>>)) <= InboxCap
    BY <1>4, Filled
  <2>3. ASSUME t \notin DropOldest
        PROVE  IF Len(inbox[t]) < InboxCap THEN Fill(t, <<<<s, m>>>>) = Append(inbox[t], <<s, m>>)
                                           ELSE Fill(t, <<<<s, m>>>>) = inbox[t]
    <3> DEFINE all == inbox[t] \o <<<<s, m>>>>
    <3>1. all = Append(inbox[t], <<s, m>>)
      BY <1>1, AppendIsConcat
    <3>2. /\ all \in Seq(Msg) /\ Len(all) = Len(inbox[t]) + 1
          /\ \A k \in 1..Len(inbox[t]) : all[k] = inbox[t][k]
      BY <1>1, <3>1, AppendProperties
    <3> HIDE DEF all
    <3>3. Fill(t, <<<<s, m>>>>) = SubSeq(all, 1, IF Len(all) > InboxCap THEN InboxCap ELSE Len(all))
      BY <1>4, <2>3, Filled DEF all
    <3>4. CASE Len(inbox[t]) < InboxCap
      <4>1. Fill(t, <<<<s, m>>>>) = SubSeq(all, 1, Len(all))
        <5>1. ~(Len(all) > InboxCap)
          BY <1>1, <3>2, <3>4
        <5>2. QED
          BY <3>3, <5>1
      <4>2. SubSeq(all, 1, Len(all)) = all
        BY <3>2, SubSeqFull
      <4>3. QED
        BY <3>1, <3>4, <4>1, <4>2
    <3>5. CASE ~(Len(inbox[t]) < InboxCap)
      <4>1. Fill(t, <<<<s, m>>>>) = SubSeq(all, 1, Len(inbox[t])) /\ Len(inbox[t]) <= Len(all)
        <5>1. Len(all) > InboxCap /\ InboxCap = Len(inbox[t]) /\ Len(inbox[t]) <= Len(all)
          BY <1>1, <3>2, <3>5
        <5>2. QED
          BY <3>3, <5>1
      <4>2. \A k \in 1..Len(inbox[t]) : all[k] \in Msg
        BY <1>1, <3>2, LenProperties
      <4>3. /\ SubSeq(all, 1, Len(inbox[t])) \in Seq(Msg) /\ Len(SubSeq(all, 1, Len(inbox[t]))) = Len(inbox[t])
            /\ \A k \in 1..Len(inbox[t]) : SubSeq(all, 1, Len(inbox[t]))[k] = all[k]
        BY <1>1, <4>2, SubSeqProperties
      <4>4. SubSeq(all, 1, Len(inbox[t])) = inbox[t]
        BY <1>1, <3>2, <4>3, SeqEqual
      <4>5. QED
        BY <3>5, <4>1, <4>4
    <3>6. QED
      BY <3>4, <3>5
  <2>4. inbox'[t] = Fill(t, <<<<s, m>>>>)
    BY <1>1, <2>1
  <2>5. \A x \in Inst : x # t => inbox'[x] = inbox[x]
    BY <1>1, <2>1
  <2>6. inbox' \in [Inst -> Seq(Msg)] /\ \A x \in Inst : Len(inbox'[x]) <= InboxCap
    BY <1>1, <2>1, <2>2, <2>4, <2>5 DEF TypeOK
  <2>7. /\ \A x \in Inst : /\ pending'[x] = pending[x] /\ Len(pending'[x]) <= MaxPending
                           /\ pending'[x] # <<>> => place[x] = "cached" /\ x \in Waking
    BY <2>1 DEF TypeOK
  <2>8. t \notin DropOldest =>
                \/ /\ Answer(t) = "ok" /\ inbox'[t] = Append(inbox[t], <<s, m>>)
                \/ Answer(t) # "ok" /\ inbox'[t] = inbox[t]
    BY <1>3, <1>5, <2>3, <2>4
  <2>9. QED
    BY <1>1, <1>5, <2>1, <2>5, <2>6, <2>7, <2>8
<1>6. CASE place[t] = "cached" /\ Answer(t) = "ok"
  <2>1. inbox' = inbox /\ pending' = [pending EXCEPT ![t] = Append(pending[t], <<s, m>>)]
    BY <1>6 DEF Deliver
  <2>2. Append(pending[t], <<s, m>>) \in Seq(Msg) /\ Len(Append(pending[t], <<s, m>>)) <= MaxPending
    BY <1>1, <1>3, <1>6, AppendProperties
  <2>3. pending'[t] = Append(pending[t], <<s, m>>) /\ \A x \in Inst : x # t => pending'[x] = pending[x]
    BY <1>1, <2>1
  <2>4. pending' \in [Inst -> Seq(Msg)]
    BY <1>1, <2>1, <2>2
  <2>5. \A x \in Inst : /\ Len(inbox'[x]) <= InboxCap /\ Len(pending'[x]) <= MaxPending
                        /\ pending'[x] # <<>> => place[x] = "cached" /\ x \in Waking
    BY <1>3, <1>6, <2>1, <2>2, <2>3 DEF TypeOK
  <2>6. QED
    BY <1>1, <1>6, <2>1, <2>3, <2>4, <2>5
<1>7. CASE ~(place[t] = "resident" /\ declared[t]) /\ ~(place[t] = "cached" /\ Answer(t) = "ok")
  <2>1. inbox' = inbox /\ pending' = pending
    BY <1>7 DEF Deliver
  <2>2. Answer(t) # "ok"
    BY <1>2, <1>3, <1>7
  <2>3. QED
    BY <1>1, <2>1, <2>2 DEF TypeOK
<1>8. QED
  BY <1>5, <1>6, <1>7

(* The link the message m of s travels on, and every other link.  It is    *)
(* the oldest s has for t, and what is left of the queue is newer.         *)
LEMMA LinkMoves ==
    ASSUME TypeOK, NEW t \in Inst, NEW s \in Inst, NEW m \in Nat, Deliver(t, <<s, m>>),
           NEW l \in Lossless, LinkInv(l), UNCHANGED <<read[l], sent[l]>>,
           (\A i, j \in DOMAIN out[l] : i < j => out[l][i] < out[l][j])', Queued(l)' \subseteq Queued(l),
           l = <<s, t>> => /\ m \in Kept(l) \cup Queued(l) /\ Before({m}, Queued(l)')
                           /\ Kept(l)' \subseteq {m} /\ (Answer(t) = "ok" => Kept(l)' = {}),
           l # <<s, t>> => Kept(l)' \subseteq Kept(l)
    PROVE  LinkInv(l)'
<1>1. l \in Link /\ l[1] \in Inst /\ l[2] \in Inst /\ l = <<l[1], l[2]>> /\ l[2] \notin DropOldest
  BY Ends DEF Lossless
<1>2. /\ inbox[l[2]] \in Seq(Msg) /\ pending[l[2]] \in Seq(Msg)
      /\ Rising(inbox[l[2]], l[1]) /\ Rising(pending[l[2]], l[1])
  BY <1>1, Ends DEF LinkInv
<1>3. CASE l # <<s, t>>
  <2>1. /\ Arrived(l)' \subseteq Arrived(l) /\ Buffered(l)' \subseteq Buffered(l)
        /\ Rising(inbox[l[2]], l[1])' /\ Rising(pending[l[2]], l[1])'
    <3>1. CASE inbox'[l[2]] = inbox[l[2]] /\ pending'[l[2]] = pending[l[2]]
      BY <1>2, <3>1 DEF Arrived, Buffered
    <3>2. CASE l[2] = t /\ l[1] # s
      <4>1. \/ inbox'[t] = Append(inbox[t], <<s, m>>) /\ pending'[t] = pending[t]
            \/ inbox'[t] = inbox[t] /\ pending'[t] = Append(pending[t], <<s, m>>)
            \/ inbox'[t] = inbox[t] /\ pending'[t] = pending[t]
        BY <1>1, <3>2, Delivered
      <4>0. inbox[t] \in Seq(Msg) /\ pending[t] \in Seq(Msg) /\ Rising(inbox[t], l[1]) /\ Rising(pending[t], l[1])
        BY <1>2, <3>2
      <4>2. /\ Numbers(Append(inbox[t], <<s, m>>), l[1]) = Numbers(inbox[t], l[1])
            /\ Rising(Append(inbox[t], <<s, m>>), l[1])
        <5>1. Numbers(Append(inbox[t], <<s, m>>), l[1]) = Numbers(inbox[t], l[1]) \cup (IF s = l[1] THEN {m} ELSE {})
          BY <1>1, <4>0, NumbersAppend
        <5>2. Rising(Append(inbox[t], <<s, m>>), l[1])
          BY <1>1, <3>2, <4>0, RisingAppend
        <5>3. QED
          BY <3>2, <5>1, <5>2
      <4>3. /\ Numbers(Append(pending[t], <<s, m>>), l[1]) = Numbers(pending[t], l[1])
            /\ Rising(Append(pending[t], <<s, m>>), l[1])
        <5>1. Numbers(Append(pending[t], <<s, m>>), l[1]) = Numbers(pending[t], l[1]) \cup (IF s = l[1] THEN {m} ELSE {})
          BY <1>1, <4>0, NumbersAppend
        <5>2. Rising(Append(pending[t], <<s, m>>), l[1])
          BY <1>1, <3>2, <4>0, RisingAppend
        <5>3. QED
          BY <3>2, <5>1, <5>2
      <4>4. QED
        BY <1>2, <3>2, <4>1, <4>2, <4>3 DEF Arrived, Buffered
    <3>3. QED
      BY <1>1, <1>3, <3>1, <3>2, Delivered
  <2>2. QED
    BY <1>1, <1>3, <2>1, LinkShrinks
<1>4. CASE l = <<s, t>>
  <2>1. l[1] = s /\ l[2] = t
    BY <1>4
  <2>2. \A n \in Arrived(l) \cup Buffered(l) : n < m
    BY <1>4 DEF LinkInv, Lined, Before
  <2>3. /\ Rising(Append(inbox[t], <<s, m>>), s) /\ Numbers(Append(inbox[t], <<s, m>>), s) = Arrived(l) \cup {m}
        /\ Rising(Append(pending[t], <<s, m>>), s) /\ Numbers(Append(pending[t], <<s, m>>), s) = Buffered(l) \cup {m}
    BY <1>2, <2>1, <2>2, NumbersAppend, RisingAppend DEF Arrived, Buffered
  <2>4. /\ \/ Arrived(l)' = Arrived(l) /\ Buffered(l)' = Buffered(l)
           \/ Arrived(l)' = Arrived(l) \cup {m} /\ Buffered(l)' = {} /\ Kept(l)' = {}
           \/ Arrived(l)' = Arrived(l) /\ Buffered(l)' = Buffered(l) \cup {m} /\ Kept(l)' = {}
        /\ Rising(inbox[l[2]], l[1])' /\ Rising(pending[l[2]], l[1])'
    <3>1. Numbers(<<>>, s) = {}
      BY DEF Numbers
    <3>2. CASE Answer(t) = "ok" /\ pending[t] = <<>> /\ inbox'[t] = Append(inbox[t], <<s, m>>) /\ pending'[t] = pending[t]
      BY <1>2, <1>4, <2>1, <2>3, <3>1, <3>2 DEF Arrived, Buffered
    <3>3. CASE Answer(t) = "ok" /\ inbox'[t] = inbox[t] /\ pending'[t] = Append(pending[t], <<s, m>>)
      BY <1>2, <1>4, <2>1, <2>3, <3>3 DEF Arrived, Buffered
    <3>4. CASE inbox'[t] = inbox[t] /\ pending'[t] = pending[t]
      BY <1>2, <2>1, <3>4 DEF Arrived, Buffered
    <3>5. QED
      BY <1>1, <2>1, <3>2, <3>3, <3>4, Delivered
  <2>5. Lined(read[l], Arrived(l)', Buffered(l)', Kept(l)', Queued(l)')
    <3>1. /\ read[l] \in Nat /\ Arrived(l) \subseteq Nat /\ Buffered(l) \subseteq Nat
          /\ Kept(l) \subseteq Nat /\ Queued(l) \subseteq Nat
      BY <1>1, Ends
    <3>2. /\ Lined(read[l], Arrived(l), Buffered(l), Kept(l), Queued(l)) /\ m \in Kept(l) \cup Queued(l)
          /\ Queued(l)' \in SUBSET Queued(l) /\ Before({m}, Queued(l)') /\ Kept(l)' \in SUBSET {m}
      BY <1>4 DEF LinkInv
    <3>3. QED
      BY <2>4, <3>1, <3>2, Moves
  <2>6. OnTheWay(l)' \subseteq OnTheWay(l)
    BY <1>4, <2>4 DEF OnTheWay
  <2>7. QED
    BY <2>4, <2>5, <2>6 DEF LinkInv
<1>5. QED
  BY <1>3, <1>4

(* A step that loses nothing on the way to a far end that is resident.     *)
Keeps(l) == place[l[2]] = "resident" => OnTheWay(l) \subseteq OnTheWay(l)'

\* A delivery to an inbox that does not evict adds, and takes nothing away.
LEMMA DeliveryKeeps ==
    ASSUME TypeOK, NEW t \in Inst, NEW s \in Inst, NEW m \in Nat, Deliver(t, <<s, m>>), NEW l \in Lossless
    PROVE  /\ Arrived(l) \subseteq Arrived(l)' /\ Buffered(l) \subseteq Buffered(l)'
           /\ l = <<s, t>> /\ Answer(t) = "ok" => m \in Arrived(l)' \cup Buffered(l)'
<1>1. l \in Link /\ l[1] \in Inst /\ l[2] \in Inst /\ l = <<l[1], l[2]>> /\ l[2] \notin DropOldest
  BY Ends DEF Lossless
<1>2. inbox[l[2]] \in Seq(Msg) /\ pending[l[2]] \in Seq(Msg)
  BY <1>1, Ends
<1>3. CASE l[2] # t
  BY <1>1, <1>3, Delivered DEF Arrived, Buffered
<1>4. CASE l[2] = t
  <2>1. /\ Numbers(Append(inbox[t], <<s, m>>), l[1]) = Arrived(l) \cup (IF s = l[1] THEN {m} ELSE {})
        /\ Numbers(Append(pending[t], <<s, m>>), l[1]) = Buffered(l) \cup (IF s = l[1] THEN {m} ELSE {})
    BY <1>1, <1>2, <1>4, NumbersAppend DEF Arrived, Buffered
  <2>2. Arrived(l)' = Numbers(inbox'[t], l[1]) /\ Buffered(l)' = Numbers(pending'[t], l[1])
    BY <1>4 DEF Arrived, Buffered
  <2>3. Arrived(l) = Numbers(inbox[t], l[1]) /\ Buffered(l) = Numbers(pending[t], l[1])
    BY <1>4 DEF Arrived, Buffered
  <2>4. \/ Answer(t) = "ok" /\ inbox'[t] = Append(inbox[t], <<s, m>>) /\ pending'[t] = pending[t]
        \/ Answer(t) = "ok" /\ inbox'[t] = inbox[t] /\ pending'[t] = Append(pending[t], <<s, m>>)
        \/ Answer(t) # "ok" /\ inbox'[t] = inbox[t] /\ pending'[t] = pending[t]
    BY <1>1, <1>4, Delivered
  <2>5. l = <<s, t>> => s = l[1]
    BY <1>1
  <2>6. CASE Answer(t) = "ok" /\ inbox'[t] = Append(inbox[t], <<s, m>>) /\ pending'[t] = pending[t]
    BY <2>1, <2>2, <2>3, <2>5, <2>6
  <2>7. CASE Answer(t) = "ok" /\ inbox'[t] = inbox[t] /\ pending'[t] = Append(pending[t], <<s, m>>)
    BY <2>1, <2>2, <2>3, <2>5, <2>7
  <2>8. CASE Answer(t) # "ok" /\ inbox'[t] = inbox[t] /\ pending'[t] = pending[t]
    BY <2>2, <2>3, <2>8
  <2>9. QED
    BY <2>4, <2>6, <2>7, <2>8
<1>5. QED
  BY <1>3, <1>4

(* A resident takes a message, or asks for it to be held.                  *)
LEMMA ResidentAnswers ==
    ASSUME TypeOK, NEW t \in Inst, place[t] = "resident"
    PROVE  Answer(t) = "ok" \/ Hold(Answer(t))
BY DEF Answer, Hold

(* A held message is tried again.                                          *)
LEMMA RetryStep ==
    ASSUME EInv, RetryHeld
    PROVE  EInv' /\ \A l \in Lossless : Keeps(l)
<1> USE DEF EInv
<1>1. PICK s \in Inst : s = Me
  BY Heads DEF RetryHeld, Cursor
<1>2. PICK t \in Inst, m \in Nat : Head(work) = <<t, m>>
  <2>1. Head(work) \in Msg
    BY HeadTailProperties DEF RetryHeld, TypeOK, Msg
  <2>2. QED
    BY <2>1 DEF Msg
<1>3. /\ pc = "held" /\ work # <<>> /\ todo # <<>> /\ Deliver(t, <<s, m>>) /\ work' = Tail(work)
      /\ held' = IF Hold(Answer(t)) THEN [held EXCEPT ![s] = Append(held[s], <<t, m>>)] ELSE held
      /\ UNCHANGED <<place, declared, tokens, open, out, sent, read, pc, todo, stopped, token>>
  <2>1. Head(work)[1] = t /\ Head(work)[2] = m
    BY <1>2
  <2>2. pc = "held" /\ work # <<>> /\ todo # <<>>
    BY DEF RetryHeld, Cursor
  <2>3. QED
    BY <1>1, <1>2, <2>1, <2>2 DEF RetryHeld, programVars
<1>4. /\ held[s] \in Seq(Msg) /\ work \in Seq(Msg) /\ Tail(work) \in Seq(Msg) /\ <<t, m>> \in Msg
      /\ Append(held[s], <<t, m>>) \in Seq(Msg)
  <2>1. held[s] \in Seq(Msg) /\ work \in Seq(Msg) /\ <<t, m>> \in Msg
    BY DEF TypeOK, Msg
  <2>2. QED
    BY <1>3, <2>1, HeadTailProperties, AppendProperties
<1>5. /\ held' \in [Inst -> Seq(Msg)] /\ \A x \in Inst : x # s => held'[x] = held[x]
      /\ held'[s] = IF Hold(Answer(t)) THEN Append(held[s], <<t, m>>) ELSE held[s]
  BY <1>3, <1>4 DEF TypeOK, Msg
<1>6. ASSUME NEW x \in Inst
      PROVE  /\ x = s => Retrying(x) = work /\ Retrying(x)' = Tail(work)
             /\ x # s => Retrying(x) = <<>> /\ Retrying(x)' = <<>>
  BY <1>1, <1>3 DEF Retrying, Me
<1>7. TypeOK'
  <2>1. /\ inbox' \in [Inst -> Seq(Msg)] /\ pending' \in [Inst -> Seq(Msg)]
        /\ \A x \in Inst : /\ Len(inbox'[x]) <= InboxCap /\ Len(pending'[x]) <= MaxPending
                           /\ pending'[x] # <<>> => place[x] = "cached" /\ x \in Waking
    BY <1>3, Delivered
  <2>2. QED
    BY <1>3, <1>4, <1>5, <2>1 DEF TypeOK, Msg
<1>8. Cursor'
  BY <1>3 DEF Cursor
<1>9. Distinct(held[s] \o work)
  BY <1>6 DEF OneHeld
<1>10. /\ Distinct(held[s] \o Tail(work)) /\ Distinct(Append(held[s], <<t, m>>) \o Tail(work))
       /\ Numbers(held[s], t) = {} /\ Numbers(Tail(work), t) = {}
  <2>1. Head(work)[1] = t
    BY <1>2
  <2>2. QED
    BY <1>2, <1>3, <1>4, <1>9, <2>1, DistinctRetry
<1>11. OneHeld'
  <2>1. ASSUME NEW x \in Inst PROVE Distinct(held'[x] \o Retrying(x)')
    <3>1. CASE x = s
      BY <1>5, <1>6, <1>10, <3>1
    <3>2. CASE x # s
      BY <1>5, <1>6, <3>2 DEF OneHeld
    <3>3. QED
      BY <3>1, <3>2
  <2>2. QED
    BY <2>1 DEF OneHeld
<1>12. ASSUME NEW l \in Lossless PROVE LinkInv(l)' /\ Keeps(l)
  <2>1. l \in Link /\ l[1] \in Inst /\ l[2] \in Inst /\ l = <<l[1], l[2]>> /\ LinkInv(l)
    BY Ends DEF Lossless
  <2>2. UNCHANGED Queued(l) /\ UNCHANGED <<read[l], sent[l]>>
    BY <1>3 DEF Queued
  <2>3. (\A i, j \in DOMAIN out[l] : i < j => out[l][i] < out[l][j])'
    BY <1>3, <2>1 DEF LinkInv
  <2>4. Numbers(work, l[2]) = Numbers(Tail(work), l[2]) \cup (IF t = l[2] THEN {m} ELSE {})
    <3>1. Head(work)[1] = t /\ Head(work)[2] = m
      BY <1>2
    <3>2. QED
      BY <1>3, <1>4, <2>1, <3>1, NumbersTail
  <2>5. Numbers(Append(held[s], <<t, m>>), l[2]) = Numbers(held[s], l[2]) \cup (IF t = l[2] THEN {m} ELSE {})
    BY <1>4, <2>1, NumbersAppend
  <2>6. ASSUME l = <<s, t>>
        PROVE  /\ m \in Kept(l) /\ Before({m}, Queued(l)')
               /\ Kept(l)' \subseteq {m} /\ (Answer(t) = "ok" => Kept(l)' = {})
               /\ Kept(l) = {m} /\ (Hold(Answer(t)) => m \in Kept(l)')
    <3>1. l[1] = s /\ l[2] = t
      BY <2>6
    <3>2. Kept(l) = {m}
      BY <1>6, <1>10, <2>4, <3>1 DEF Kept
    <3>3. Kept(l)' = Numbers(held'[s], t) \cup Numbers(Tail(work), t)
      BY <1>6, <3>1 DEF Kept
    <3>4. Kept(l)' = IF Hold(Answer(t)) THEN {m} ELSE {}
      BY <1>5, <1>10, <2>5, <3>1, <3>3
    <3>5. Before({m}, Queued(l))
      BY <2>1, <3>2 DEF LinkInv, Lined, Before
    <3>6. QED
      BY <2>2, <3>2, <3>4, <3>5 DEF Hold
  <2>7. ASSUME l # <<s, t>> PROVE Kept(l)' = Kept(l)
    <3>1. CASE l[1] # s
      BY <1>5, <1>6, <2>1, <3>1 DEF Kept
    <3>2. CASE l[1] = s /\ l[2] # t
      <4>1. Kept(l)' = Numbers(held'[s], l[2]) \cup Numbers(Tail(work), l[2])
        BY <1>6, <3>2 DEF Kept
      <4>2. Kept(l) = Numbers(held[s], l[2]) \cup Numbers(work, l[2])
        BY <1>6, <3>2 DEF Kept
      <4>3. QED
        BY <1>5, <2>4, <2>5, <3>2, <4>1, <4>2
    <3>3. QED
      BY <2>1, <2>7, <3>1, <3>2
  <2>8. LinkInv(l)'
    BY <1>3, <2>1, <2>2, <2>3, <2>6, <2>7, LinkMoves
  <2>9. Arrived(l) \subseteq Arrived(l)' /\ Buffered(l) \subseteq Buffered(l)'
    BY <1>3, DeliveryKeeps
  <2>10. CASE l # <<s, t>>
    BY <2>2, <2>7, <2>8, <2>9, <2>10 DEF Keeps, OnTheWay
  <2>11. CASE l = <<s, t>>
    <3>1. place[l[2]] = "resident" => m \in Arrived(l)' \cup Buffered(l)' \cup Kept(l)'
      BY <1>3, <2>6, <2>11, DeliveryKeeps, ResidentAnswers
    <3>2. Keeps(l)
      BY <2>2, <2>6, <2>9, <2>11, <3>1 DEF Keeps, OnTheWay
    <3>3. QED
      BY <2>8, <3>2
  <2>12. QED
    BY <2>10, <2>11
<1>13. QED
  BY <1>7, <1>8, <1>11, <1>12

(* A message is popped from an endpoint queue and pushed.                  *)
LEMMA RouteStep ==
    ASSUME EInv, Route
    PROVE  EInv' /\ \A l \in Lossless : Keeps(l)
<1> USE DEF EInv
<1>1. PICK s \in Inst, t \in Inst, k \in Link : s = Me /\ t = Far(Here) /\ k = Here /\ k = <<s, t>>
  BY Tokens DEF Route
<1>2. out[k] # <<>> /\ out[k] \in Seq(Nat)
  BY <1>1 DEF Route, TypeOK
<1>3. PICK m \in Nat : m = Head(out[k])
  BY <1>2, HeadTailProperties
<1>4. /\ pc = "token" /\ todo # <<>> /\ Deliver(t, <<s, m>>) /\ out' = [out EXCEPT ![k] = Tail(out[k])]
      /\ held' = IF Hold(Answer(t)) THEN [held EXCEPT ![s] = Append(held[s], <<t, m>>)] ELSE held
      /\ open' \subseteq open /\ token' \in {token, token + 1} /\ ~Blocked(s, t)
      /\ UNCHANGED <<place, declared, tokens, sent, read, pc, todo, stopped, work>>
  BY <1>1, <1>3 DEF Route, Bound, Cursor
<1>5. held[s] \in Seq(Msg) /\ <<t, m>> \in Msg /\ Append(held[s], <<t, m>>) \in Seq(Msg)
  BY AppendProperties DEF TypeOK, Msg
<1>6. /\ held' \in [Inst -> Seq(Msg)] /\ \A x \in Inst : x # s => held'[x] = held[x]
      /\ held'[s] = IF Hold(Answer(t)) THEN Append(held[s], <<t, m>>) ELSE held[s]
  BY <1>4, <1>5 DEF TypeOK, Msg
<1>7. work = <<>> /\ \A x \in Inst : Retrying(x) = <<>> /\ Retrying(x)' = <<>>
  BY <1>4 DEF Cursor, Retrying
<1> DEFINE q == out[k]  p == Tail(out[k])
<1>8. /\ p \in Seq(Nat) /\ Len(q) \in Nat \ {0} /\ Len(p) = Len(q) - 1 /\ m = q[1]
      /\ \A i \in 1..Len(p) : p[i] = q[i + 1]
  BY <1>2, <1>3, HeadTailProperties, LenProperties, EmptySeq
<1>9. DOMAIN p = 1..Len(p) /\ DOMAIN q = 1..Len(q)
  BY <1>2, <1>8
<1>10. out'[k] = p /\ \A l \in Link : l # k => out'[l] = out[l]
  BY <1>4 DEF TypeOK
<1> HIDE DEF p, q
<1>11. TypeOK'
  <2>1. /\ inbox' \in [Inst -> Seq(Msg)] /\ pending' \in [Inst -> Seq(Msg)]
        /\ \A x \in Inst : /\ Len(inbox'[x]) <= InboxCap /\ Len(pending'[x]) <= MaxPending
                           /\ pending'[x] # <<>> => place[x] = "cached" /\ x \in Waking
    BY <1>4, Delivered
  <2>2. out' \in [Link -> Seq(Nat)]
    BY <1>4, <1>8 DEF TypeOK, p
  <2>3. \A l \in Link : Len(out'[l]) <= EndpointCap
    <3>1. Len(q) <= EndpointCap /\ EndpointCap \in Nat
      BY EndpointsAssumption DEF TypeOK, q
    <3>2. Len(p) <= EndpointCap
      BY <1>8, <3>1
    <3>3. QED
      BY <1>10, <3>2 DEF TypeOK
  <2>4. token' \in Nat \ {0}
    <3>1. token \in Nat \ {0} /\ (token' = token \/ token' = token + 1)
      BY <1>4 DEF TypeOK
    <3>2. QED
      BY <3>1
  <2>5. QED
    BY <1>4, <1>6, <2>1, <2>2, <2>3, <2>4 DEF TypeOK, Msg
<1>12. Cursor'
  BY <1>4 DEF Cursor
<1>13. \A i \in DOMAIN held[s] : held[s][i][1] # t
  BY <1>4 DEF Blocked
<1>14. OneHeld'
  <2>1. ASSUME NEW x \in Inst PROVE Distinct(held'[x] \o Retrying(x)')
    <3>1. held[x] \in Seq(Msg) /\ Distinct(held[x])
      BY <1>7, ConcatEmpty, ZenonT(30) DEF OneHeld, TypeOK, Msg
    <3>2. held'[x] \in Seq(Msg) /\ Distinct(held'[x])
      BY <1>5, <1>6, <1>13, <3>1, DistinctAppend
    <3>3. QED
      BY <1>7, <3>2, ConcatEmpty
  <2>2. QED
    BY <2>1 DEF OneHeld
<1>15. Numbers(<<>>, t) = {} /\ Numbers(held[s], t) = {}
  BY <1>13 DEF Numbers
<1>16. ASSUME NEW l \in Lossless PROVE LinkInv(l)' /\ Keeps(l)
  <2>1. l \in Link /\ l[1] \in Inst /\ l[2] \in Inst /\ l = <<l[1], l[2]>> /\ LinkInv(l)
    BY Ends DEF Lossless
  <2>2. Numbers(Append(held[s], <<t, m>>), l[2]) = Numbers(held[s], l[2]) \cup (IF t = l[2] THEN {m} ELSE {})
    BY <1>5, <2>1, NumbersAppend
  <2>3. ASSUME l = k
        PROVE  /\ m \in Queued(l) /\ Queued(l)' \subseteq Queued(l) /\ Before({m}, Queued(l)')
               /\ (\A i, j \in DOMAIN out[l] : i < j => out[l][i] < out[l][j])'
               /\ Kept(l)' \subseteq {m} /\ (Answer(t) = "ok" => Kept(l)' = {})
               /\ Kept(l) = {} /\ (Hold(Answer(t)) => m \in Kept(l)') /\ Queued(l) \subseteq Queued(l)' \cup {m}
    <3>1. l[1] = s /\ l[2] = t
      BY <1>1, <2>3
    <3>11. Kept(l) = {}
      BY <1>7, <1>15, <3>1 DEF Kept
    <3>2. Kept(l)' = IF Hold(Answer(t)) THEN {m} ELSE {}
      BY <1>6, <1>7, <1>15, <2>2, <3>1 DEF Kept
    <3>3. \A i, j \in DOMAIN q : i < j => q[i] < q[j]
      BY <2>1, <2>3 DEF LinkInv, q
    <3>4. \A i \in DOMAIN p : i + 1 \in DOMAIN q /\ p[i] = q[i + 1] /\ 1 < i + 1
      BY <1>8, <1>9
    <3>5. 1 \in DOMAIN q
      BY <1>8, <1>9
    <3>6. /\ Queued(l) = {q[i] : i \in DOMAIN q} /\ Queued(l)' = {p[i] : i \in DOMAIN p}
      BY <1>10, <2>3 DEF Queued, q
    <3>7. m \in Queued(l) /\ Queued(l)' \subseteq Queued(l) /\ Before({m}, Queued(l)')
      <4>1. m \in Queued(l)
        BY <1>8, <3>5, <3>6
      <4>2. ASSUME NEW n \in Queued(l)' PROVE n \in Queued(l) /\ m < n
        <5>1. PICK i \in DOMAIN p : n = p[i]
          BY <3>6
        <5>2. QED
          BY <1>8, <3>3, <3>4, <3>5, <3>6, <5>1
      <4>3. QED
        BY <4>1, <4>2 DEF Before
    <3>8. \A i, j \in DOMAIN p : i < j => p[i] < p[j]
      <4> SUFFICES ASSUME NEW i \in DOMAIN p, NEW j \in DOMAIN p, i < j PROVE p[i] < p[j]
        OBVIOUS
      <4>1. i + 1 < j + 1
        BY <1>8, <1>9
      <4>2. QED
        BY <3>3, <3>4, <4>1
    <3>9. (\A i, j \in DOMAIN out[l] : i < j => out[l][i] < out[l][j])'
      BY <1>10, <2>3, <3>8
    <3>12. \A i \in DOMAIN q : i = 1 \/ (i - 1 \in DOMAIN p /\ p[i - 1] = q[i])
      <4> SUFFICES ASSUME NEW i \in DOMAIN q, i # 1 PROVE i - 1 \in DOMAIN p /\ p[i - 1] = q[i]
        OBVIOUS
      <4>1. i - 1 \in 1..Len(p) /\ (i - 1) + 1 = i
        BY <1>8, <1>9
      <4>2. QED
        BY <1>8, <1>9, <4>1
    <3>13. Queued(l) \subseteq Queued(l)' \cup {m}
      BY <1>8, <3>6, <3>12
    <3>14. QED
      BY <3>2, <3>7, <3>9, <3>11, <3>13 DEF Hold
  <2>4. ASSUME l # k
        PROVE  /\ Queued(l)' = Queued(l) /\ Kept(l)' = Kept(l)
               /\ (\A i, j \in DOMAIN out[l] : i < j => out[l][i] < out[l][j])'
    <3>1. out'[l] = out[l]
      BY <1>10, <2>1, <2>4
    <3>2. l[1] # s \/ l[2] # t
      BY <1>1, <2>1, <2>4
    <3>3. Kept(l)' = Kept(l)
      BY <1>6, <1>7, <2>1, <2>2, <3>2 DEF Kept
    <3>4. QED
      BY <2>1, <3>1, <3>3 DEF Queued, LinkInv
  <2>5. LinkInv(l)'
    BY <1>1, <1>4, <2>1, <2>3, <2>4, LinkMoves
  <2>6. Arrived(l) \subseteq Arrived(l)' /\ Buffered(l) \subseteq Buffered(l)'
    BY <1>4, DeliveryKeeps
  <2>7. CASE l # k
    BY <2>4, <2>5, <2>6, <2>7 DEF Keeps, OnTheWay
  <2>8. CASE l = k
    <3>1. l = <<s, t>> /\ l[2] = t
      BY <1>1, <2>8
    <3>2. place[l[2]] = "resident" => m \in Arrived(l)' \cup Buffered(l)' \cup Kept(l)'
      BY <1>4, <2>3, <2>8, <3>1, DeliveryKeeps, ResidentAnswers
    <3>3. Keeps(l)
      BY <2>3, <2>6, <2>8, <3>2 DEF Keeps, OnTheWay
    <3>4. QED
      BY <2>5, <3>3
  <2>9. QED
    BY <2>7, <2>8
<1>17. QED
  BY <1>11, <1>12, <1>14, <1>16

(* The engine of the far end fails a held message: it alone is lost.       *)
LEMMA RetryFailsStep ==
    ASSUME EInv, RetryFails
    PROVE  EInv' /\ \A l \in Lossless : OnTheWay(l) \subseteq OnTheWay(l)' \cup Failed(l)
<1> USE DEF EInv
<1>1. PICK s \in Inst : s = Me
  BY Heads DEF RetryFails, Cursor
<1>2. PICK t \in Inst, m \in Nat : Head(work) = <<t, m>>
  <2>1. Head(work) \in Msg
    BY HeadTailProperties DEF RetryFails, TypeOK, Msg
  <2>2. QED
    BY <2>1 DEF Msg
<1>3. /\ pc = "held" /\ work # <<>> /\ todo # <<>> /\ work' = Tail(work)
      /\ UNCHANGED <<place, held, pending, inbox, declared, tokens, open, out, sent, read, pc, todo, stopped, token>>
  BY DEF RetryFails, programVars, Cursor
<1>4. held[s] \in Seq(Msg) /\ work \in Seq(Msg) /\ Tail(work) \in Seq(Msg)
  <2>1. held[s] \in Seq(Msg) /\ work \in Seq(Msg)
    BY DEF TypeOK, Msg
  <2>2. QED
    BY <1>3, <2>1, HeadTailProperties
<1>5. ASSUME NEW x \in Inst
      PROVE  /\ x = s => Retrying(x) = work /\ Retrying(x)' = Tail(work)
             /\ x # s => Retrying(x) = <<>> /\ Retrying(x)' = <<>>
  BY <1>1, <1>3 DEF Retrying, Me
<1>6. TypeOK' /\ Cursor'
  BY <1>3, <1>4 DEF TypeOK, Cursor, Msg
<1>7. OneHeld'
  <2>1. ASSUME NEW x \in Inst PROVE Distinct(held'[x] \o Retrying(x)')
    <3>1. CASE x = s
      <4>1. Distinct(held[s] \o work)
        BY <1>5 DEF OneHeld
      <4>2. QED
        BY <1>3, <1>4, <1>5, <3>1, <4>1, DistinctRetry
    <3>2. CASE x # s
      BY <1>3, <1>5, <3>2 DEF OneHeld
    <3>3. QED
      BY <3>1, <3>2
  <2>2. QED
    BY <2>1 DEF OneHeld
<1>8. ASSUME NEW l \in Lossless
      PROVE  LinkInv(l)' /\ OnTheWay(l) \subseteq OnTheWay(l)' \cup Failed(l)
  <2>1. l \in Link /\ l[1] \in Inst /\ l[2] \in Inst /\ LinkInv(l)
    BY Ends DEF Lossless
  <2>2. UNCHANGED <<Arrived(l), Buffered(l), Queued(l), read[l], sent[l]>>
    BY <1>3 DEF Arrived, Buffered, Queued
  <2>3. Numbers(work, l[2]) = Numbers(Tail(work), l[2]) \cup (IF t = l[2] THEN {m} ELSE {})
    <3>1. Head(work)[1] = t /\ Head(work)[2] = m
      BY <1>2
    <3>2. QED
      BY <1>3, <1>4, <2>1, <3>1, NumbersTail
  <2>4. /\ Kept(l)' \subseteq Kept(l)
        /\ \A n \in Kept(l) : n \in Kept(l)' \/ (l[1] = s /\ l[2] = t /\ n = m)
    BY <1>3, <1>5, <2>1, <2>3 DEF Kept
  <2>5. LinkInv(l)'
    BY <1>3, <2>1, <2>2, <2>4, LinkShrinks DEF LinkInv
  <2>6. \A n \in Kept(l) : l[1] = s /\ l[2] = t /\ n = m => n \in Failed(l)
    BY <1>1, <1>2 DEF Failed
  <2>7. QED
    BY <2>2, <2>4, <2>5, <2>6 DEF OnTheWay
<1>9. QED
  BY <1>6, <1>7, <1>8

(* The engine of the far end fails a message that has been popped: it      *)
(* alone is lost.                                                          *)
LEMMA RouteFailsStep ==
    ASSUME EInv, RouteFails
    PROVE  EInv' /\ \A l \in Lossless : OnTheWay(l) \subseteq OnTheWay(l)' \cup Failed(l)
<1> USE DEF EInv
<1>1. PICK k \in Link : k = Here
  BY Tokens DEF RouteFails
<1>2. out[k] # <<>> /\ out[k] \in Seq(Nat)
  BY <1>1 DEF RouteFails, TypeOK
<1>3. /\ pc = "token" /\ todo # <<>> /\ out' = [out EXCEPT ![k] = Tail(out[k])]
      /\ open' \subseteq open /\ token' = token + 1 /\ work = <<>>
      /\ UNCHANGED <<place, held, pending, inbox, declared, tokens, sent, read, pc, todo, stopped, work>>
  BY <1>1 DEF RouteFails, Bound, Cursor
<1> DEFINE q == out[k]  p == Tail(out[k])
<1>4. /\ p \in Seq(Nat) /\ Len(q) \in Nat \ {0} /\ Len(p) = Len(q) - 1 /\ Head(q) = q[1]
      /\ \A i \in 1..Len(p) : p[i] = q[i + 1]
  BY <1>2, HeadTailProperties, LenProperties, EmptySeq
<1>5. DOMAIN p = 1..Len(p) /\ DOMAIN q = 1..Len(q)
  BY <1>2, <1>4
<1>6. out'[k] = p /\ \A l \in Link : l # k => out'[l] = out[l]
  BY <1>3 DEF TypeOK
<1>7. out' \in [Link -> Seq(Nat)]
  BY <1>3, <1>4 DEF TypeOK
<1>8. q = out[k]
  OBVIOUS
<1> HIDE DEF p, q
<1>9. TypeOK'
  <2>1. \A l \in Link : Len(out'[l]) <= EndpointCap
    <3>1. Len(q) <= EndpointCap /\ EndpointCap \in Nat
      BY <1>8, EndpointsAssumption DEF TypeOK
    <3>2. Len(p) <= EndpointCap
      BY <1>4, <3>1
    <3>3. QED
      BY <1>6, <3>2 DEF TypeOK
  <2>2. token' \in Nat \ {0}
    BY <1>3 DEF TypeOK
  <2>3. QED
    BY <1>3, <1>7, <2>1, <2>2 DEF TypeOK
<1>10. Cursor'
  BY <1>3 DEF Cursor
<1>11. \A x \in Inst : Retrying(x) = <<>> /\ Retrying(x)' = <<>>
  BY <1>3 DEF Retrying
<1>12. OneHeld'
  BY <1>3, <1>11 DEF OneHeld
<1>13. ASSUME NEW l \in Lossless
      PROVE  LinkInv(l)' /\ OnTheWay(l) \subseteq OnTheWay(l)' \cup Failed(l)
  <2>1. l \in Link /\ l[1] \in Inst /\ l[2] \in Inst /\ LinkInv(l)
    BY Ends DEF Lossless
  <2>2. UNCHANGED <<Arrived(l), Buffered(l), Kept(l), read[l], sent[l]>>
    BY <1>3, <1>11, <2>1 DEF Arrived, Buffered, Kept
  <2>3. CASE l # k
    <3>1. UNCHANGED <<read[l], sent[l], inbox[l[2]], pending[l[2]], held[l[1]], Retrying(l[1]), out[l]>>
      BY <1>3, <1>6, <1>11, <2>1, <2>3
    <3>2. LinkInv(l)'
      BY <2>1, <3>1, LinkFrame
    <3>3. UNCHANGED Queued(l)
      BY <3>1 DEF Queued
    <3>4. QED
      BY <2>2, <3>2, <3>3 DEF OnTheWay
  <2>4. CASE l = k
    <3>1. /\ Queued(l) = {q[i] : i \in DOMAIN q} /\ Queued(l)' = {p[i] : i \in DOMAIN p}
          /\ \A i, j \in DOMAIN q : i < j => q[i] < q[j]
      BY <1>6, <1>8, <2>1, <2>4 DEF Queued, LinkInv
    <3>2. \A i \in DOMAIN p : i + 1 \in DOMAIN q /\ p[i] = q[i + 1]
      BY <1>4, <1>5
    <3>3. Queued(l)' \subseteq Queued(l)
      BY <3>1, <3>2
    <3>4. (\A i, j \in DOMAIN out[l] : i < j => out[l][i] < out[l][j])'
      <4> SUFFICES ASSUME NEW i \in DOMAIN p, NEW j \in DOMAIN p, i < j PROVE p[i] < p[j]
        BY <1>6, <2>4
      <4>1. i + 1 < j + 1
        BY <1>4, <1>5
      <4>2. QED
        BY <3>1, <3>2, <4>1
    <3>5. \A i \in DOMAIN q : i = 1 \/ (i - 1 \in DOMAIN p /\ p[i - 1] = q[i])
      <4> SUFFICES ASSUME NEW i \in DOMAIN q, i # 1 PROVE i - 1 \in DOMAIN p /\ p[i - 1] = q[i]
        OBVIOUS
      <4>1. i - 1 \in 1..Len(p) /\ (i - 1) + 1 = i
        BY <1>4, <1>5
      <4>2. QED
        BY <1>4, <1>5, <4>1
    <3>6. \A n \in Queued(l) : n \in Queued(l)' \/ n = Head(out[l])
      BY <1>4, <1>8, <2>4, <3>1, <3>5
    <3>7. \A n \in Queued(l) : n = Head(out[l]) => n \in Failed(l)
      BY <1>1, <2>4 DEF Failed
    <3>8. LinkInv(l)'
      BY <1>3, <2>1, <2>2, <3>3, <3>4, LinkShrinks DEF LinkInv
    <3>9. QED
      BY <2>2, <3>6, <3>7, <3>8 DEF OnTheWay
  <2>5. QED
    BY <2>3, <2>4
<1>14. QED
  BY <1>9, <1>10, <1>12, <1>13

\* Every step keeps the invariant.
LEMMA NextEInv == EInv /\ [Next]_vars => EInv'
<1> SUFFICES ASSUME EInv, [Next]_vars PROVE EInv'
  OBVIOUS
<1>1. CASE UNCHANGED vars
  <2>1. UNCHANGED <<place, declared, tokens, open, out, held, pending, inbox, sent, read, pc, todo, stopped, token, work>>
    BY <1>1 DEF vars, programVars, routeVars
  <2>2. TypeOK' /\ Cursor'
    BY <2>1 DEF EInv, TypeOK, Cursor
  <2>3. \A x \in Inst : UNCHANGED Retrying(x)
    BY <2>1 DEF Retrying, Me
  <2>4. OneHeld'
    BY <2>1, <2>3 DEF EInv, OneHeld
  <2>5. ASSUME NEW l \in Lossless PROVE LinkInv(l)'
    BY <2>1, <2>3, LinkFrame, Ends DEF EInv, Lossless
  <2>6. QED
    BY <2>2, <2>4, <2>5 DEF EInv
<1>2. CASE \E x \in Inst : HostWake(x) \/ Kill(x) \/ WakePending(x)
  <2>1. PICK x \in Inst : HostWake(x) \/ Kill(x) \/ WakePending(x)
    BY <1>2
  <2>2. pc # "held" /\ (Wake(x) \/ (Gone(x) /\ UNCHANGED routeVars))
    BY <2>1 DEF HostWake, Kill, WakePending
  <2>3. QED
    BY <2>2, WakeStep, GoneStep DEF routeVars
<1>3. CASE Routed
  <2>1. CASE stopped = {}
    BY <1>3, <2>1, CursorStep
  <2>2. CASE stopped # {}
    <3>1. PICK x \in stopped : Gone(x) /\ pc' = "idle" /\ pc = "slot" /\ UNCHANGED <<todo, stopped, token, work>>
      BY <1>3, <2>2 DEF Routed
    <3>2. x \in Inst
      BY DEF EInv, TypeOK
    <3>3. QED
      BY <3>1, <3>2, GoneStep
  <2>3. QED
    BY <2>1, <2>2
<1>4. CASE Slot
  BY <1>4, SlotStep, CursorStep
<1>5. CASE Routing
  BY <1>2, <1>3, <1>4, <1>5, RetryStep, RouteStep, RetryFailsStep, RouteFailsStep, CursorStep DEF Routing
<1>6. CASE Programs \/ Host
  BY <1>2, <1>6, ProgramStep, SendStep, ReadStep, CursorStep DEF Programs, Host
<1>7. QED
  BY <1>1, <1>5, <1>6, CursorStep DEF Next
-----------------------------------------------------------------------------
(* The inductive invariant of routing; its first part is the types and the *)
(* bounds of the queues.                                                   *)
THEOREM EndpointsInvariance == Spec => []EInv
BY InitEInv, NextEInv, PTL DEF Spec

(* What is on the way from a sender to a far end whose inbox does not      *)
(* evict is in the order it was sent, none of it twice and none of it      *)
(* older than what was read, through retries, swaps, wakes and stops       *)
(* (route_slot, route_one, push, wake).                                    *)
THEOREM OrderAlwaysKept == Spec => []InOrder
<1>1. EInv => InOrder
  BY DEF EInv, LinkInv, Lined, InOrder
<1>2. QED
  BY <1>1, EndpointsInvariance, PTL

(* At most one message per far end is held, those route_slot has taken in  *)
(* its hands included (Slot::held).                                        *)
THEOREM HeldAtMostOne == Spec => []OneHeld
<1>1. EInv => OneHeld
  BY DEF EInv
<1>2. QED
  BY <1>1, EndpointsInvariance, PTL

(* While the far end is resident and the sender lives, nothing new goes    *)
(* missing but a message the far end's engine failed, if the rest of what  *)
(* was on the way stays there or has been read.                            *)
LEMMA NothingMissing ==
    ASSUME EInv, EInv', NEW l \in Lossless, read[l] <= read'[l],
           \/ sent'[l] = sent[l]
           \/ sent'[l] = sent[l] + 1 /\ sent'[l] \in OnTheWay(l)',
           \A n \in OnTheWay(l) : n \in OnTheWay(l)' \cup Failed(l) \/ n <= read'[l]
    PROVE  Missing(l)' \subseteq Missing(l) \cup Failed(l)
<1>1. l \in Link
  BY DEF Lossless
<1>2. read[l] \in Nat /\ sent[l] \in Nat /\ read'[l] \in Nat /\ sent'[l] \in Nat
  <2>1. read[l] \in Nat /\ sent[l] \in Nat
    BY <1>1, Ends DEF EInv
  <2>2. read'[l] \in Nat /\ sent'[l] \in 0..MaxMsg /\ MaxMsg \in Nat
    BY <1>1, EndpointsAssumption DEF EInv, TypeOK
  <2>3. QED
    BY <2>1, <2>2
<1>3. ASSUME NEW n \in Missing(l)' PROVE n \in Missing(l) \cup Failed(l)
  <2>1. n \in (read'[l] + 1)..sent'[l] /\ n \notin OnTheWay(l)'
    BY <1>3 DEF Missing, OnTheWay
  <2>2. n \in (read[l] + 1)..sent[l]
    BY <1>2, <2>1
  <2>3. n \notin OnTheWay(l) \/ n \in Failed(l)
    BY <1>2, <2>1
  <2>4. QED
    BY <2>2, <2>3 DEF Missing, OnTheWay
<1>4. QED
  BY <1>3

\* No step loses a message between two that stay, but one the engine failed.
LEMMA StepKeeps ==
    ASSUME EInv, EInv', [Next]_vars, NEW l \in Lossless,
           place[l[2]] = "resident", place'[l[2]] = "resident", place'[l[1]] # "gone"
    PROVE  Missing(l)' \subseteq Missing(l) \cup Failed(l)
<1> USE DEF EInv
<1>1. /\ l \in Link /\ l[1] \in Inst /\ l[2] \in Inst /\ l = <<l[1], l[2]>> /\ LinkInv(l)
      /\ read[l] \in Nat /\ sent[l] \in Nat
  BY Ends DEF Lossless
<1> DEFINE Same == UNCHANGED <<read[l], sent[l], inbox[l[2]], pending[l[2]], held[l[1]], Retrying(l[1]), out[l]>>
<1>2. ASSUME Same PROVE Missing(l)' \subseteq Missing(l) \cup Failed(l)
  <2>1. UNCHANGED OnTheWay(l)
    BY <1>2 DEF OnTheWay, Arrived, Buffered, Kept, Queued
  <2>2. QED
    BY <1>1, <1>2, <2>1, NothingMissing
<1>3. ASSUME UNCHANGED <<held, pending, inbox, out, sent, read>>, work = <<>>, work' = <<>> PROVE Same
  BY <1>3 DEF Retrying
<1>4. CASE UNCHANGED vars
  BY <1>2, <1>4 DEF vars, programVars, routeVars, Retrying, Me
<1>5. CASE BeginStep \/ (\E x \in Inst : Stop(x)) \/ (\E k \in Link : Bind(k))
           \/ (\E x \in Inst : Declare(x) \/ Hibernate(x)) \/ HeldDone \/ SkipToken \/ CloseForeign
           \/ TokensDone \/ (Slot /\ ~Alive(Me)) \/ (Routed /\ stopped = {}) \/ WokenAll
  <2>1. UNCHANGED <<held, pending, inbox, out, sent, read, work>> /\ work = <<>>
    BY <1>5 DEF BeginStep, Stop, Begin, Bind, Declare, Hibernate, HeldDone, SkipToken, CloseForeign,
       TokensDone, Slot, Routed, WokenAll, programVars, routeVars, Cursor, Bound
  <2>2. QED
    BY <1>2, <1>3, <2>1
<1>6. CASE \E x \in Inst : Wake(x) /\ place[x] = "cached" /\ pc # "held"
  <2>1. PICK x \in Inst : Wake(x) /\ place[x] = "cached" /\ pc # "held"
    BY <1>6
  <2>2. x # l[2]
    BY <2>1
  <2>3. Same
    BY <1>1, <2>1, <2>2 DEF Wake, programVars, routeVars, TypeOK, Retrying
  <2>4. QED
    BY <1>2, <2>3
<1>7. CASE \E x \in Inst : Gone(x) /\ UNCHANGED work /\ pc # "held"
  <2>1. PICK x \in Inst : Gone(x) /\ UNCHANGED work /\ pc # "held"
    BY <1>7
  <2>2. x # l[2] /\ x # l[1]
    BY <1>1, <2>1 DEF Gone, TypeOK
  <2>3. work = <<>> /\ work' = <<>>
    BY <2>1 DEF Cursor
  <2>4. Same
    BY <1>1, <2>1, <2>2, <2>3 DEF Gone, TypeOK, Retrying
  <2>5. QED
    BY <1>2, <2>4
<1>8. CASE RetryHeld \/ Route
  <2>1. OnTheWay(l) \subseteq OnTheWay(l)'
    BY <1>8, RetryStep, RouteStep DEF Keeps
  <2>2. UNCHANGED <<read, sent>>
    BY <1>8 DEF RetryHeld, Route, programVars
  <2>3. QED
    BY <1>1, <2>1, <2>2, NothingMissing
<1>18. CASE RetryFails \/ RouteFails
  <2>1. OnTheWay(l) \subseteq OnTheWay(l)' \cup Failed(l)
    BY <1>18, RetryFailsStep, RouteFailsStep
  <2>2. UNCHANGED <<read, sent>>
    BY <1>18 DEF RetryFails, RouteFails, programVars
  <2>3. QED
    BY <1>1, <2>1, <2>2, NothingMissing
<1>9. CASE Slot /\ Alive(Me)
  <2>1. /\ pc = "slot" /\ pc' = "held" /\ todo # <<>> /\ work' = held[Me] /\ held' = [held EXCEPT ![Me] = <<>>]
        /\ UNCHANGED <<pending, inbox, out, sent, read, todo>>
    BY <1>9 DEF Slot, programVars
  <2>2. PICK y \in Inst : y = Me
    BY <2>1, Heads
  <2>3. /\ l[1] = y => held'[l[1]] = <<>> /\ Retrying(l[1])' = held[l[1]]
        /\ l[1] # y => held'[l[1]] = held[l[1]] /\ Retrying(l[1])' = <<>>
    BY <1>1, <2>1, <2>2 DEF Retrying, Me, TypeOK
  <2>4. Retrying(l[1]) = <<>> /\ Numbers(<<>>, l[2]) = {}
    BY <2>1 DEF Retrying, Numbers
  <2>5. UNCHANGED Kept(l)
    BY <2>3, <2>4 DEF Kept
  <2>6. UNCHANGED OnTheWay(l)
    BY <2>1, <2>5 DEF OnTheWay, Arrived, Buffered, Queued
  <2>7. QED
    BY <1>1, <2>1, <2>6, NothingMissing
<1>10. CASE \E k \in Link : Send(k)
  <2>1. PICK k \in Link : Send(k)
    BY <1>10
  <2>2. /\ sent' = [sent EXCEPT ![k] = sent[k] + 1] /\ out' = [out EXCEPT ![k] = Append(out[k], sent'[k])]
        /\ UNCHANGED <<held, pending, inbox, read, pc, todo, work>>
    BY <2>1 DEF Send, routeVars
  <2>3. UNCHANGED Retrying(l[1])
    BY <2>2 DEF Retrying, Me
  <2>4. CASE l # k
    <3>1. Same
      BY <1>1, <2>2, <2>3, <2>4 DEF TypeOK
    <3>2. QED
      BY <1>2, <3>1
  <2>5. CASE l = k
    <3>1. out[l] \in Seq(Nat) /\ sent'[l] = sent[l] + 1 /\ out'[l] = Append(out[l], sent[l] + 1)
      BY <1>1, <2>2, <2>5 DEF TypeOK
    <3>2. /\ DOMAIN out[l] = 1..Len(out[l]) /\ Len(out[l]) \in Nat /\ DOMAIN out'[l] = 1..(Len(out[l]) + 1)
          /\ out'[l][Len(out[l]) + 1] = sent[l] + 1 /\ \A i \in 1..Len(out[l]) : out'[l][i] = out[l][i]
      BY <1>1, <3>1, AppendProperties, LenProperties
    <3>3. Len(out[l]) + 1 \in DOMAIN out'[l] /\ \A i \in DOMAIN out[l] : i \in DOMAIN out'[l] /\ out'[l][i] = out[l][i]
      BY <3>2
    <3>4. Queued(l) \subseteq Queued(l)' /\ sent[l] + 1 \in Queued(l)'
      BY <3>2, <3>3 DEF Queued
    <3>5. UNCHANGED <<Arrived(l), Buffered(l), Kept(l), read[l]>>
      BY <2>2, <2>3 DEF Arrived, Buffered, Kept
    <3>6. OnTheWay(l) \subseteq OnTheWay(l)' /\ sent'[l] \in OnTheWay(l)'
      BY <3>1, <3>4, <3>5 DEF OnTheWay
    <3>7. QED
      BY <1>1, <3>1, <3>5, <3>6, NothingMissing
  <2>6. QED
    BY <2>4, <2>5
<1>11. CASE \E x \in Inst : Read(x)
  <2>1. PICK x \in Inst : Read(x)
    BY <1>11
  <2>2. PICK m \in Msg : m = Head(inbox[x])
    BY <2>1, HeadTailProperties DEF Read, TypeOK, Msg
  <2>3. /\ inbox[x] # <<>> /\ read' = [read EXCEPT ![<<m[1], x>>] = m[2]]
        /\ inbox' = [inbox EXCEPT ![x] = Tail(inbox[x])]
        /\ UNCHANGED <<held, pending, out, sent, pc, todo, work>>
    BY <2>1, <2>2 DEF Read, routeVars
  <2>4. UNCHANGED Retrying(l[1])
    BY <2>3 DEF Retrying, Me
  <2>5. UNCHANGED <<Buffered(l), Kept(l), Queued(l)>>
    BY <2>3, <2>4 DEF Buffered, Kept, Queued
  <2>6. CASE l[2] # x
    <3>1. l # <<m[1], x>>
      BY <1>1, <2>6
    <3>2. Same
      BY <1>1, <2>3, <2>4, <2>6, <3>1 DEF TypeOK
    <3>3. QED
      BY <1>2, <3>2
  <2>7. CASE l[2] = x
    <3>1. inbox'[x] = Tail(inbox[x]) /\ inbox[x] \in Seq(Msg)
      BY <2>3 DEF TypeOK, Msg
    <3>2. Arrived(l) = Arrived(l)' \cup (IF m[1] = l[1] THEN {m[2]} ELSE {})
      <4>1. Numbers(inbox[x], l[1]) = Numbers(Tail(inbox[x]), l[1]) \cup (IF m[1] = l[1] THEN {m[2]} ELSE {})
        BY <1>1, <2>2, <2>3, <3>1, NumbersTail
      <4>2. QED
        BY <2>7, <3>1, <4>1 DEF Arrived
    <3>3. CASE m[1] # l[1]
      <4>1. l # <<m[1], x>>
        BY <1>1, <3>3
      <4>2. UNCHANGED read[l]
        BY <1>1, <2>3, <4>1 DEF TypeOK
      <4>3. UNCHANGED OnTheWay(l)
        BY <2>5, <3>2, <3>3 DEF OnTheWay
      <4>4. QED
        BY <1>1, <2>3, <4>2, <4>3, NothingMissing
    <3>4. CASE m[1] = l[1]
      <4>1. read'[l] = m[2]
        BY <1>1, <2>3, <2>7, <3>4 DEF TypeOK
      <4>2. m[2] \in Nat /\ m[2] \in Arrived(l)
        BY <2>2, <3>2, <3>4 DEF Msg
      <4>3. read[l] <= m[2]
        BY <1>1, <4>2 DEF LinkInv, Lined, Before
      <4>4. \A n \in OnTheWay(l) : n \in OnTheWay(l)' \/ n = m[2]
        BY <2>5, <3>2, <3>4 DEF OnTheWay
      <4>5. QED
        BY <1>1, <2>3, <4>1, <4>2, <4>3, <4>4, NothingMissing
    <3>5. QED
      BY <3>3, <3>4
  <2>8. QED
    BY <2>6, <2>7
<1>12. CASE Routed
  <2>1. CASE stopped = {}
    BY <1>5, <1>12, <2>1
  <2>2. CASE stopped # {}
    <3>1. \E x \in stopped : Gone(x) /\ UNCHANGED work /\ pc # "held"
      BY <1>12, <2>2 DEF Routed
    <3>2. stopped \subseteq Inst
      BY DEF TypeOK
    <3>3. QED
      BY <1>7, <3>1, <3>2
  <2>3. QED
    BY <2>1, <2>2
<1>13. CASE \E x \in Inst : HostWake(x) \/ Kill(x) \/ WakePending(x)
  BY <1>6, <1>7, <1>13 DEF HostWake, Kill, WakePending, routeVars
<1>14. CASE Slot
  BY <1>5, <1>9, <1>14
<1>15. CASE Routing
  BY <1>5, <1>8, <1>12, <1>13, <1>14, <1>15, <1>18 DEF Routing
<1>16. CASE Programs \/ Host
  BY <1>5, <1>10, <1>11, <1>13, <1>16 DEF Programs, Host
<1>17. QED
  BY <1>4, <1>5, <1>15, <1>16 DEF Next

(* A message on the way to a far end that stays resident, whose inbox does *)
(* not evict, is not lost while its sender lives: what has no room, or no  *)
(* inbox yet, is kept for another try (route_slot, route_one).  One case   *)
(* loses a message, and that one alone: the far end's engine answers the   *)
(* push of it with an error, which route_slot and route_one do not hold    *)
(* for (Failed).                                                           *)
THEOREM NeverLost == Spec => KeptWhileResident
<1>1. EInv /\ EInv' /\ [Next]_vars =>
          [\A l \in Lossless :
              place[l[2]] = "resident" /\ place'[l[2]] = "resident" /\ place'[l[1]] # "gone"
              => Missing(l)' \subseteq Missing(l) \cup Failed(l)]_vars
  BY StepKeeps
<1>2. QED
  BY <1>1, EndpointsInvariance, PTL DEF Spec, KeptWhileResident
=============================================================================
