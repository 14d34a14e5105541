---------------------------- MODULE ServeProofs ----------------------------
(***************************************************************************)
(* What a listener and the loop over it promise, for any number of         *)
(* connections, backlog, queue and limit of connections, on either runtime.*)
(*                                                                         *)
(* One response per connection rests on what a connection may have been    *)
(* written at each stage of it and, on the polled runtime, on the outcomes *)
(* still owed being the rest of one response.  A true notice rests on a    *)
(* connection being over, for good, once one is sent.  The order rests on  *)
(* the loop holding nothing when the queue exists and it looks for more.   *)
(***************************************************************************)
EXTENDS Serve, SequenceTheorems, FiniteSetTheorems, TLAPS

(* A connection of the threaded runtime: what it has been written at each  *)
(* stage, and the stages at which its token is registered.                 *)
ThreadedSound(r) ==
    /\ r.st \in {"idle", "reading", "known", "waiting", "late"} => r.resp = "none"
    /\ r.st = "streaming" => r.resp = "open"
    /\ r.st \in {"closing", "telling"} => r.resp \in {"none", "open"}
    /\ r.reg => r.st \in {"known", "waiting", "late", "streaming", "ended", "closing"}

(* Of the polled runtime: what is owed is the rest of one response.        *)
PolledSound(r) ==
    /\ r.st \in {"idle", "reading", "waiting", "refusing"} => r.resp = "none"
    /\ r.st = "writing" /\ r.owed # <<>> => r.resp = "none"
    /\ r.st = "streaming" =>
          /\ r.resp \in {"none", "open", "complete"}
          /\ r.resp = "none" => r.owed # <<>> /\ r.owed[1] = "head"
          /\ r.resp = "complete" => r.owed = <<>> /\ ~r.reg
          /\ \A i \in 1..Len(r.owed) : /\ r.owed[i] \in {"head", "chunk", "last"}
                                       /\ r.owed[i] = "head" => i = 1 /\ r.resp = "none"
                                       /\ r.owed[i] = "last" => i = Len(r.owed) /\ ~r.reg
    /\ r.reg => r.st \in {"waiting", "streaming"}

Sound(r, kind) ==
    /\ r.resp # "garbled"
    /\ kind = "threaded" => ThreadedSound(r)
    /\ kind = "polled" => PolledSound(r)

(* A connection that is over without its last chunk; it stays so.          *)
Over(r) ==
    /\ r.st = "done" \/ (r.st = "writing" /\ r.owed = <<>>)
    /\ ~r.reg /\ r.resp \in {"none", "open"}

Msg  == [conn : Conn, what : {"request", "closed"}, at : Nat]
Held == [m : Msg, due : BOOLEAN]

Types ==
    /\ rt \in Runtimes /\ conn \in [Conn -> Record] /\ root \in {"booting", "serving", "gone"}
    /\ pc \in {"step", "replies", "held", "orders", "wait", "more", "down"}
    /\ ingress \in Seq(Msg) /\ queue \in Seq(Msg) /\ held \in Seq(Held) /\ replies \in Seq(Conn \X Outcome)
    /\ clock \in Nat /\ left \in Nat /\ left <= Len(held) /\ Len(queue) <= QueueCap

Limit == IsFiniteSet(Counted) /\ Cardinality(Counted) <= rt.maxConns

(* A connection of the limit, and one that is not counted against it.      *)
Uncounted == {"idle", "refusing", "done"}

Conns == \A c \in Conn : Sound(conn[c], rt.kind)
-----------------------------------------------------------------------------
(* The records of connections.                                             *)

(* The listener is of one runtime, with a limit of its own.                *)
LEMMA Kinds == ASSUME Types PROVE rt.kind \in {"threaded", "polled"} /\ rt.maxConns \in Nat \ {0}
BY ListenAssumption DEF Types, ListenerRt

(* What a step of one connection, or an answer to it, leaves behind.       *)
Became(c, r) ==
    /\ conn' = [conn EXCEPT ![c] = r] /\ r \in Record /\ r.prog = conn[c].prog
    /\ Sound(r, rt.kind)
    /\ Over(conn[c]) => Over(r)
    /\ r.st \in Uncounted \/ conn[c].st \notin Uncounted \/ Cardinality(Counted) < rt.maxConns

Says(c, r) ==
    \/ Quiet
    \/ Arrives(c, "request")
    \/ Arrives(c, "closed") /\ ~Over(conn[c]) /\ Over(r)

(* A connection of the threaded runtime that is not over turns to stage st.*)
LEMMA ThreadTurns ==
    ASSUME Types, Conns, rt.kind = "threaded", NEW c \in Conn,
           conn[c].st \notin {"done", "writing"},
           NEW st \in Stage, conn[c].st \notin Uncounted \/ st \in Uncounted \/ Cardinality(Counted) < rt.maxConns,
           NEW reg \in BOOLEAN, NEW owed \in Seq(Outcome), NEW resp \in {"none", "whole", "open", "complete"},
           conn' = [conn EXCEPT ![c] = [conn[c] EXCEPT !.st = st, !.reg = reg, !.owed = owed, !.resp = resp]],
           st \in {"idle", "reading", "known", "waiting", "late"} => resp = "none",
           st = "streaming" => resp = "open",
           st \in {"closing", "telling"} => resp \in {"none", "open"},
           reg => st \in {"known", "waiting", "late", "streaming", "ended", "closing"},
           \/ Quiet \/ Arrives(c, "request")
           \/ Arrives(c, "closed") /\ st = "done" /\ ~reg /\ resp \in {"none", "open"}
    PROVE  \E r \in Record : Became(c, r) /\ Says(c, r)
<1> DEFINE k == conn[c]
           r == [k EXCEPT !.st = st, !.reg = reg, !.owed = owed, !.resp = resp]
<1>1. k \in Record
  BY DEF Types
<1>2. r \in Record /\ r.st = st /\ r.reg = reg /\ r.resp = resp /\ r.prog = k.prog
  BY <1>1 DEF Record
<1>3. Sound(r, rt.kind)
  BY <1>2 DEF Sound, ThreadedSound
<1>4. ~Over(k)
  BY DEF Over
<1>5. Arrives(c, "closed") /\ st = "done" /\ ~reg /\ resp \in {"none", "open"} => Over(r)
  BY <1>2 DEF Over
<1>6. QED
  BY <1>2, <1>3, <1>4, <1>5 DEF Became, Says

(* A step of a connection's thread.                                        *)
LEMMA ThreadStep ==
    ASSUME Types, Limit, Conns, rt.kind = "threaded", NEW c \in Conn, Accept(c) \/ Thread(c)
    PROVE  \E r \in Record : Became(c, r) /\ Says(c, r)
<1> DEFINE k == conn[c]
           Turned(st, reg, owed, resp) ==
               conn' = [conn EXCEPT ![c] = [conn[c] EXCEPT !.st = st, !.reg = reg, !.owed = owed, !.resp = resp]]
           Early == {"idle", "reading", "known", "waiting", "late"}
<1>1. k \in Record
  BY DEF Types
<1>2. /\ k.st \in Stage /\ k.reg \in BOOLEAN /\ k.owed \in Seq(Outcome)
      /\ k.st \in Early => k.resp = "none"
      /\ k.st = "streaming" => k.resp = "open"
      /\ k.st \in {"closing", "telling"} => k.resp \in {"none", "open"}
      /\ k.resp \in {"none", "whole", "open", "complete"}
  BY <1>1 DEF Conns, Sound, ThreadedSound, Record
<1>3. k.reg => k.st \in {"known", "waiting", "late", "streaming", "ended", "closing"}
  BY DEF Conns, Sound, ThreadedSound
<1>5. ASSUME Respond(c), Quiet, k.st \in Early PROVE \E r \in Record : Became(c, r) /\ Says(c, r)
  <2>1. Written(k.resp, "whole") = "whole"
    BY <1>2, <1>5 DEF Written
  <2>2. Turned("done", FALSE, k.owed, "whole")
    BY <1>1, <1>5, <2>1 DEF Respond, Goes, Record
  <2>3. QED
    BY <1>2, <1>5, <2>2, ThreadTurns DEF Stage, Uncounted
<1>6. ASSUME NEW st \in Stage, Moves(c, st) PROVE Turned(st, k.reg, k.owed, k.resp)
  BY <1>1, <1>6 DEF Moves, Goes, Record
<1>7. CASE Accept(c)
  <2>1. CASE Respond(c)
    BY <1>5, <1>7, <2>1 DEF Accept, At
  <2>2. CASE Moves(c, "reading")
    <3>1. Turned("reading", k.reg, k.owed, k.resp) /\ ~k.reg
      BY <1>3, <1>6, <1>7, <2>2 DEF Stage, Accept, At
    <3>2. CASE Cardinality(Counted) < rt.maxConns
      BY <1>2, <1>7, <3>1, <3>2, ThreadTurns DEF Accept, At, Stage, Uncounted
    <3>3. CASE ~(Cardinality(Counted) < rt.maxConns)
      BY <1>5, <1>7, <3>3, FS_CardinalityType, Kinds DEF Accept, At, Limit
    <3>4. QED
      BY <3>2, <3>3
  <2>3. QED
    BY <1>7, <2>1, <2>2 DEF Accept
<1>8. CASE BadRequest(c) \/ GiveUp(c)
  BY <1>5, <1>8 DEF BadRequest, GiveUp, At
<1>9. CASE Register(c)
  <2>1. Turned("known", TRUE, k.owed, k.resp)
    BY <1>1, <1>9 DEF Register, Goes, Record
  <2>2. QED
    BY <1>2, <1>9, <2>1, ThreadTurns DEF Register, At, Stage, Uncounted
<1>10. CASE Send(c)
  <2>1. CASE down
    BY <1>5, <1>10, <2>1 DEF Send, At
  <2>2. CASE ~down
    <3>1. Turned("waiting", k.reg, k.owed, k.resp)
      BY <1>6, <1>10, <2>2 DEF Stage, Send
    <3>2. QED
      BY <1>2, <1>10, <2>2, <3>1, ThreadTurns DEF Send, At, Stage, Uncounted
  <2>3. QED
    BY <2>1, <2>2
<1>11. CASE Take(c)
  <2> DEFINE o == Head(k.owed)
  <2>1. k.st = "waiting" /\ k.owed # <<>> /\ Quiet /\ k.resp = "none" /\ Tail(k.owed) \in Seq(Outcome)
    BY <1>2, <1>11, HeadTailProperties DEF Take, At
  <2>2. CASE o # "head"
    BY <1>5, <1>11, <2>1, <2>2 DEF Take
  <2>3. CASE o = "head"
    <3>1. \/ Goes(c, [[k EXCEPT !.owed = Tail(@)] EXCEPT !.st = "closing"])
          \/ Goes(c, [[k EXCEPT !.owed = Tail(@)] EXCEPT !.st = "streaming", !.resp = Written(@, "head")])
      BY <1>11, <2>3 DEF Take
    <3>2. Written(k.resp, "head") = "open"
      BY <2>1 DEF Written
    <3>3. Turned("closing", k.reg, Tail(k.owed), k.resp) \/ Turned("streaming", k.reg, Tail(k.owed), "open")
      BY <1>1, <3>1, <3>2 DEF Goes, Record
    <3>4. QED
      BY <1>2, <2>1, <3>3, ThreadTurns DEF Stage, Uncounted
  <2>4. QED
    BY <2>2, <2>3
<1>12. CASE Late(c) \/ CutOff(c)
  <2>1. \/ Turned("late", k.reg, k.owed, k.resp) /\ k.st = "waiting"
        \/ Turned("closing", k.reg, k.owed, k.resp) /\ k.st = "streaming"
    BY <1>6, <1>12 DEF Late, CutOff, At, Stage
  <2>2. Quiet
    BY <1>12 DEF Late, CutOff
  <2>3. CASE k.st = "waiting"
    <3>1. Turned("late", k.reg, k.owed, k.resp)
      BY <2>1, <2>3
    <3>2. QED
      BY <1>2, <2>2, <2>3, <3>1, ThreadTurns DEF Stage, Uncounted
  <2>4. CASE k.st = "streaming"
    <3>1. Turned("closing", k.reg, k.owed, k.resp)
      BY <2>1, <2>4
    <3>2. QED
      BY <1>2, <2>2, <2>4, <3>1, ThreadTurns, ZenonT(30) DEF Stage, Uncounted
  <2>5. QED
    BY <2>1, <2>3, <2>4
<1>13. CASE Stream(c)
  <2> DEFINE o == Head(k.owed)
  <2>1. k.st = "streaming" /\ k.owed # <<>> /\ Quiet /\ k.resp = "open" /\ Tail(k.owed) \in Seq(Outcome)
    BY <1>2, <1>13, HeadTailProperties DEF Stream, At
  <2>2. Written("open", "chunk") = "open" /\ Written("open", "last") = "complete"
    BY DEF Written
  <2>3. \/ Goes(c, [k EXCEPT !.owed = Tail(@)])
        \/ Goes(c, [[k EXCEPT !.owed = Tail(@)] EXCEPT !.st = "ended"])
        \/ Goes(c, [[k EXCEPT !.owed = Tail(@)] EXCEPT !.st = "closing"])
        \/ Goes(c, [[k EXCEPT !.owed = Tail(@)] EXCEPT !.resp = "open", !.st = "streaming"])
        \/ Goes(c, [[k EXCEPT !.owed = Tail(@)] EXCEPT !.resp = "complete", !.st = "ended"])
    <3>1. ASSUME o \in {"chunk", "last"},
                 Goes(c, [[k EXCEPT !.owed = Tail(@)] EXCEPT !.resp = Written(@, o), !.st = IF o = "last" THEN "ended" ELSE @])
          PROVE  \/ Goes(c, [[k EXCEPT !.owed = Tail(@)] EXCEPT !.resp = "open", !.st = "streaming"])
                 \/ Goes(c, [[k EXCEPT !.owed = Tail(@)] EXCEPT !.resp = "complete", !.st = "ended"])
      <4>1. [k EXCEPT !.owed = Tail(@)].resp = "open" /\ [k EXCEPT !.owed = Tail(@)].st = "streaming"
        BY <1>1, <2>1 DEF Record
      <4>2. CASE o = "last"
        BY <2>2, <3>1, <4>1, <4>2
      <4>3. CASE o = "chunk"
        BY <2>2, <3>1, <4>1, <4>3
      <4>4. QED
        BY <3>1, <4>2, <4>3
    <3>2. QED
      BY <1>13, <3>1 DEF Stream
  <2>4. \/ Turned("streaming", k.reg, Tail(k.owed), "open")
        \/ Turned("ended", k.reg, Tail(k.owed), "open")
        \/ Turned("closing", k.reg, Tail(k.owed), "open")
        \/ Turned("ended", k.reg, Tail(k.owed), "complete")
    <3> DEFINE t == [k EXCEPT !.owed = Tail(@)]
    <3>1. /\ t = [k EXCEPT !.st = "streaming", !.reg = k.reg, !.owed = Tail(k.owed), !.resp = "open"]
          /\ [t EXCEPT !.st = "ended"] = [k EXCEPT !.st = "ended", !.reg = k.reg, !.owed = Tail(k.owed), !.resp = "open"]
      BY <1>1, <2>1 DEF Record
    <3>2. /\ [t EXCEPT !.st = "closing"] = [k EXCEPT !.st = "closing", !.reg = k.reg, !.owed = Tail(k.owed), !.resp = "open"]
          /\ [t EXCEPT !.resp = "open", !.st = "streaming"]
             = [k EXCEPT !.st = "streaming", !.reg = k.reg, !.owed = Tail(k.owed), !.resp = "open"]
          /\ [t EXCEPT !.resp = "complete", !.st = "ended"]
             = [k EXCEPT !.st = "ended", !.reg = k.reg, !.owed = Tail(k.owed), !.resp = "complete"]
      BY <1>1, <2>1 DEF Record
    <3>3. QED
      BY <2>3, <3>1, <3>2 DEF Goes
  <2>5. QED
    BY <1>2, <2>1, <2>4, ThreadTurns DEF Stage, Uncounted
<1>14. CASE Unregister(c)
  <2>1. \/ k.st = "ended" /\ Turned("done", FALSE, k.owed, k.resp) /\ Quiet
        \/ k.st = "closing" /\ Turned("telling", FALSE, k.owed, k.resp) /\ Quiet
    BY <1>1, <1>14 DEF Unregister, At, Goes, Record
  <2>2. QED
    BY <1>2, <2>1, ThreadTurns DEF Stage, Uncounted
<1>15. CASE Tell(c)
  <2>1. k.st = "telling" /\ Turned("done", k.reg, k.owed, k.resp) /\ ~k.reg /\ (Quiet \/ Arrives(c, "closed"))
    BY <1>3, <1>6, <1>15 DEF Tell, At, Stage
  <2>2. QED
    BY <1>2, <2>1, ThreadTurns, ZenonT(30) DEF Stage, Uncounted
<1>16. QED
  BY <1>7, <1>8, <1>9, <1>10, <1>11, <1>12, <1>13, <1>14, <1>15 DEF Thread

(* One owed outcome is written: the rest is still the rest of a response.  *)
LEMMA RestWritten ==
    ASSUME NEW r \in Record, PolledSound(r), r.st = "streaming", r.owed # <<>>
    PROVE  LET s == [r EXCEPT !.owed = Tail(@), !.resp = Written(@, Head(r.owed))]
           IN  s \in Record /\ PolledSound(s) /\ s.resp # "garbled" /\ s.prog = r.prog /\ s.st = "streaming"
<1> DEFINE q == r.owed
           t == Tail(q)
           w == Written(r.resp, Head(q))
           s == [r EXCEPT !.owed = t, !.resp = w]
<1>1. q \in Seq(Outcome) /\ r.reg \in BOOLEAN
  BY DEF Record
<1>2. /\ t \in Seq(Outcome) /\ Head(q) = q[1] /\ Len(q) \in Nat \ {0} /\ Len(t) = Len(q) - 1
      /\ \A i \in 1..Len(t) : t[i] = q[i + 1]
  BY <1>1, HeadTailProperties, LenProperties
<1>3. /\ \A i \in 1..Len(q) : /\ q[i] \in {"head", "chunk", "last"} /\ (q[i] = "head" => i = 1 /\ r.resp = "none")
                              /\ q[i] = "last" => i = Len(q) /\ ~r.reg
      /\ r.resp = "none" => q[1] = "head"
      /\ r.resp \in {"none", "open", "complete"} /\ r.resp # "complete"
  BY DEF PolledSound
<1>4. \/ r.resp = "none" /\ q[1] = "head" /\ w = "open"
      \/ r.resp = "open" /\ q[1] = "chunk" /\ w = "open"
      \/ r.resp = "open" /\ q[1] = "last" /\ w = "complete"
  <2>1. 1 \in 1..Len(q)
    BY <1>2
  <2>2. QED
    BY <1>2, <1>3, <2>1 DEF Written
<1> HIDE DEF q, t, w
<1>5. s \in Record /\ s.st = "streaming" /\ s.owed = t /\ s.resp = w /\ s.reg = r.reg /\ s.prog = r.prog
  BY <1>2, <1>4 DEF Record, q
<1>6. w = "complete" => t = <<>> /\ ~r.reg
  <2>1. ASSUME w = "complete" PROVE Len(q) = 1 /\ ~r.reg
    BY <1>2, <1>3, <1>4, <2>1
  <2>2. ASSUME w = "complete" PROVE Len(t) = 0
    <3>1. Len(q) = 1 /\ Len(t) = Len(q) - 1
      BY <1>2, <2>1, <2>2
    <3>2. QED
      BY <3>1
  <2>3. QED
    BY <1>2, <2>1, <2>2, EmptySeq
<1>7. ASSUME NEW i \in 1..Len(t)
      PROVE  /\ t[i] \in {"head", "chunk", "last"} /\ t[i] # "head"
             /\ t[i] = "last" => i = Len(t) /\ ~r.reg
  <2>1. t[i] = q[i + 1] /\ i + 1 \in 1..Len(q) /\ i + 1 # 1
    BY <1>2
  <2>2. QED
    BY <1>2, <1>3, <2>1
<1>8. PolledSound(s)
  BY <1>4, <1>5, <1>6, <1>7 DEF PolledSound
<1>9. QED
  BY <1>4, <1>5, <1>8 DEF q, t, w

(* A step of the polling pass.                                             *)
LEMMA PollStep ==
    ASSUME Types, Limit, Conns, rt.kind = "polled", NEW c \in Conn, PollAccept(c) \/ Poll(c)
    PROVE  \E r \in Record : Became(c, r) /\ Says(c, r)
<1> DEFINE k == conn[c]
<1>1. k \in Record /\ PolledSound(k) /\ k.resp # "garbled"
  BY DEF Types, Conns, Sound
<1>2. k.st \in Stage /\ k.owed \in Seq(Outcome) /\ k.resp \in {"none", "whole", "open", "complete"}
  BY <1>1 DEF Record
<1>3. ASSUME NEW r \in Record, conn' = [conn EXCEPT ![c] = r], r.prog = k.prog, PolledSound(r), r.resp # "garbled",
             ~Over(k) \/ Over(r), Says(c, r),
             r.st \in Uncounted \/ k.st \notin Uncounted \/ Cardinality(Counted) < rt.maxConns
      PROVE  \E s \in Record : Became(c, s) /\ Says(c, s)
  BY <1>3 DEF Became, Sound
<1> HIDE DEF k
<1>4. ASSUME NEW st \in Stage, Moves(c, st)
      PROVE  /\ [k EXCEPT !.st = st] \in Record /\ conn' = [conn EXCEPT ![c] = [k EXCEPT !.st = st]]
             /\ [k EXCEPT !.st = st].prog = k.prog /\ [k EXCEPT !.st = st].st = st
             /\ [k EXCEPT !.st = st].owed = k.owed /\ [k EXCEPT !.st = st].resp = k.resp
  BY <1>1, <1>4 DEF Moves, Goes, Record, k
<1>5. ASSUME NEW st \in Stage PROVE [k EXCEPT !.st = st].reg = k.reg
  BY <1>1 DEF Record
<1>6. k.reg => k.st \in {"waiting", "streaming"}
  BY <1>1 DEF PolledSound
<1>7. CASE PollAccept(c)
  <2>1. k.st = "idle" /\ Quiet /\ ~k.reg /\ k.resp = "none"
    BY <1>1, <1>6, <1>7 DEF PollAccept, At, k, PolledSound
  <2>2. PICK st \in {"refusing", "reading"} : Moves(c, st) /\ (st = "refusing" \/ Cardinality(Counted) < rt.maxConns)
    BY <1>7, FS_CardinalityType, Kinds DEF PollAccept, Limit
  <2> DEFINE r == [k EXCEPT !.st = st]
  <2>3. PolledSound(r)
    BY <1>4, <1>5, <2>1, <2>2 DEF PolledSound, Stage
  <2>4. ~Over(k)
    BY <2>1 DEF Over
  <2>5. QED
    BY <1>3, <1>4, <2>1, <2>2, <2>3, <2>4 DEF Stage, Says, Uncounted
<1>8. CASE PollRead(c)
  <2> DEFINE r == [k EXCEPT !.st = "waiting", !.reg = TRUE]
  <2>1. k.st = "reading" /\ k.resp = "none" /\ conn' = [conn EXCEPT ![c] = r] /\ Arrives(c, "request")
    BY <1>1, <1>8 DEF PollRead, At, Goes, k, PolledSound
  <2>2. r \in Record /\ r.st = "waiting" /\ r.resp = k.resp /\ r.prog = k.prog /\ r.owed = k.owed
    BY <1>1 DEF Record, Stage
  <2>3. PolledSound(r) /\ ~Over(k)
    BY <2>1, <2>2 DEF PolledSound, Over
  <2>4. QED
    BY <1>2, <1>3, <2>1, <2>2, <2>3 DEF Says, Uncounted
<1>9. CASE PollRefuse(c)
  <2>1. CASE Moves(c, "done") /\ k.st = "reading" /\ Quiet
    <3>1. PolledSound([k EXCEPT !.st = "done"])
      BY <1>4, <1>5, <1>6, <2>1 DEF PolledSound, Stage
    <3>2. QED
      BY <1>2, <1>3, <1>4, <2>1, <3>1 DEF Stage, Says, Uncounted, Over
  <2>2. CASE k.st \in {"reading", "waiting"} /\ ToWrite(c, <<"whole">>)
    <3> DEFINE r == [k EXCEPT !.st = "writing", !.reg = FALSE, !.owed = <<"whole">>]
    <3>1. conn' = [conn EXCEPT ![c] = r] /\ Quiet /\ k.resp = "none"
      BY <1>1, <2>2 DEF ToWrite, Goes, k, PolledSound
    <3>2. r \in Record /\ r.st = "writing" /\ r.resp = k.resp /\ r.prog = k.prog
      <4>1. <<"whole">> \in Seq(Outcome)
        BY DEF Outcome
      <4>2. QED
        BY <1>1, <4>1 DEF Record, Stage
    <3>3. r.reg = FALSE
      BY <1>1 DEF Record
    <3>4. PolledSound(r) /\ ~Over(k)
      BY <2>2, <3>1, <3>2, <3>3 DEF PolledSound, Over
    <3>5. QED
      BY <1>2, <1>3, <2>2, <3>1, <3>2, <3>4 DEF Says, Uncounted
  <2>3. QED
    BY <1>9, <2>1, <2>2 DEF PollRefuse, At, k
<1>10. CASE PollStream(c)
  <2>1. k.st = "streaming" /\ Quiet
    BY <1>10 DEF PollStream, At, k
  <2>2. CASE k.owed # <<>>
    <3> DEFINE r == [k EXCEPT !.owed = Tail(@), !.resp = Written(@, Head(k.owed))]
    <3>1. conn' = [conn EXCEPT ![c] = r]
      BY <1>10, <2>2 DEF PollStream, Goes, k
    <3>2. r \in Record /\ PolledSound(r) /\ r.resp # "garbled" /\ r.prog = k.prog
      BY <1>1, <2>1, <2>2, RestWritten
    <3>3. QED
      BY <1>3, <2>1, <3>1, <3>2 DEF Says, Over, Uncounted
  <2>3. CASE k.owed = <<>>
    <3>1. Moves(c, "done") /\ ~k.reg
      BY <1>10, <2>3 DEF PollStream, k
    <3>2. PolledSound([k EXCEPT !.st = "done"])
      BY <1>4, <1>5, <3>1 DEF PolledSound, Stage
    <3>3. QED
      BY <1>2, <1>3, <1>4, <2>1, <3>1, <3>2 DEF Stage, Says, Uncounted, Over
  <2>4. QED
    BY <2>2, <2>3
<1>11. CASE PollClosed(c)
  <2> DEFINE r == [k EXCEPT !.st = "done", !.reg = FALSE]
  <2>1. k.st = "streaming" /\ (k.owed # <<>> \/ k.reg) /\ conn' = [conn EXCEPT ![c] = r] /\ Arrives(c, "closed")
    BY <1>11 DEF PollClosed, At, Goes, k
  <2>2. r \in Record /\ r.st = "done" /\ r.resp = k.resp /\ r.prog = k.prog
    BY <1>1 DEF Record, Stage
  <2>3. r.reg = FALSE
    BY <1>1 DEF Record
  <2>4. k.resp \in {"none", "open"}
    BY <1>1, <2>1 DEF PolledSound
  <2>5. PolledSound(r) /\ ~Over(k) /\ Over(r)
    BY <2>1, <2>2, <2>3, <2>4 DEF PolledSound, Over
  <2>6. Says(c, r) /\ r.st \in Uncounted /\ r.resp # "garbled"
    BY <2>1, <2>2, <2>4, <2>5 DEF Says, Uncounted, k
  <2>7. QED
    BY <1>3, <2>1, <2>2, <2>5, <2>6
<1>12. CASE PollWrite(c)
  <2>1. k.st \in {"writing", "refusing"} /\ Quiet /\ ~k.reg
    BY <1>6, <1>12 DEF PollWrite, At, k
  <2>2. CASE Moves(c, "done")
    <3>1. PolledSound([k EXCEPT !.st = "done"])
      BY <1>4, <1>5, <2>1, <2>2 DEF PolledSound, Stage
    <3>2. Over(k) => Over([k EXCEPT !.st = "done"])
      BY <1>4, <1>5, <2>1, <2>2 DEF Over, Stage
    <3>3. QED
      BY <1>2, <1>3, <1>4, <2>1, <2>2, <3>1, <3>2 DEF Stage, Says, Uncounted
  <2>3. CASE ~Moves(c, "done")
    <3> DEFINE r == [k EXCEPT !.st = "done", !.owed = <<>>, !.resp = "whole"]
    <3>1. k.st = "refusing" \/ k.owed # <<>>
      BY <1>12, <2>3 DEF PollWrite, At, k
    <3>2. k.resp = "none"
      BY <1>1, <2>1, <3>1 DEF PolledSound
    <3>3. Written(k.resp, "whole") = "whole"
      BY <3>2 DEF Written
    <3>4. conn' = [conn EXCEPT ![c] = r]
      BY <1>1, <1>12, <2>3, <3>3 DEF PollWrite, Goes, k, Record
    <3>5. r \in Record /\ r.st = "done" /\ r.resp = "whole" /\ r.prog = k.prog
      <4>1. <<>> \in Seq(Outcome)
        OBVIOUS
      <4>2. QED
        BY <1>1, <4>1 DEF Record, Stage
    <3>6. r.reg = k.reg
      BY <1>1 DEF Record
    <3>7. PolledSound(r) /\ ~Over(k)
      BY <2>1, <3>1, <3>5, <3>6 DEF PolledSound, Over
    <3>8. QED
      BY <1>3, <2>1, <3>4, <3>5, <3>7 DEF Says, Uncounted
  <2>4. QED
    BY <2>2, <2>3
<1>13. QED
  BY <1>7, <1>8, <1>9, <1>10, <1>11, <1>12 DEF Poll

(* An outcome sent to a connection, by the program or by the host.         *)
LEMMA AnswerSound ==
    ASSUME Types, Conns, NEW c \in Conn, NEW o \in Outcome
    PROVE  LET r == Answered(c, o)
           IN  /\ r \in Record /\ r.prog = conn[c].prog /\ Sound(r, rt.kind)
               /\ Over(conn[c]) => Over(r)
               /\ conn[c].st \in Uncounted => r.st \in Uncounted
               /\ Overflows(c, o) => ~Over(conn[c]) /\ Over(r)
<1> DEFINE k == conn[c]
           r == Answered(c, o)
<1>1. k \in Record /\ Sound(k, rt.kind) /\ rt.kind \in {"threaded", "polled"}
  BY Kinds DEF Types, Conns
<1>2. k.st \in Stage /\ k.owed \in Seq(Outcome) /\ Len(k.owed) \in Nat
  BY <1>1, LenProperties DEF Record
<1>3. CASE ~k.reg
  BY <1>1, <1>3 DEF Answered, Overflows
<1>4. CASE k.reg /\ rt.kind = "threaded"
  <2>1. r = ThreadedAnswer(k, o) /\ ~Overflows(c, o) /\ ~Over(k)
    BY <1>4 DEF Answered, Overflows, Over
  <2>2. ThreadedSound(k) /\ k.resp # "garbled"
    BY <1>1, <1>4 DEF Sound
  <2>3. Append(k.owed, o) \in Seq(Outcome)
    BY <1>2
  <2>4. r \in Record /\ r.st = k.st /\ r.resp = k.resp /\ r.prog = k.prog
    <3>1. CASE o = "chunk" /\ Chunks(k.owed) >= STREAM_BACKLOG
      BY <1>1, <2>1, <3>1 DEF ThreadedAnswer, Record
    <3>2. CASE ~(o = "chunk" /\ Chunks(k.owed) >= STREAM_BACKLOG)
      <4>1. CASE o \in {"head", "chunk"}
        BY <1>1, <2>1, <2>3, <3>2, <4>1 DEF ThreadedAnswer, Record
      <4>2. CASE o \notin {"head", "chunk"}
        BY <1>1, <2>1, <2>3, <3>2, <4>2 DEF ThreadedAnswer, Record
      <4>3. QED
        BY <4>1, <4>2
    <3>3. QED
      BY <3>1, <3>2
  <2>5. ThreadedSound(r)
    BY <1>4, <2>2, <2>4 DEF ThreadedSound
  <2>6. QED
    BY <1>4, <2>1, <2>2, <2>4, <2>5 DEF Sound
<1>5. CASE k.reg /\ rt.kind = "polled"
  <2>1. r = PolledAnswer(k, o) /\ ~Over(k)
    BY <1>4, <1>5 DEF Answered, Over
  <2>2. PolledSound(k) /\ k.resp # "garbled" /\ k.st \in {"waiting", "streaming"}
    BY <1>1, <1>5 DEF Sound, PolledSound
  <2>3. SUFFICES /\ r \in Record /\ r.prog = k.prog /\ PolledSound(r) /\ r.resp # "garbled"
                 /\ Overflows(c, o) => Over(r)
    BY <1>5, <2>1, <2>2, <2>3 DEF Sound, Uncounted
  <2>4. CASE k.st = "waiting"
    <3>1. k.resp = "none" /\ ~Overflows(c, o)
      BY <2>2, <2>4 DEF PolledSound, Overflows, At
    <3>2. CASE o = "head"
      <4>1. r = [k EXCEPT !.st = "streaming", !.owed = <<"head">>]
        BY <2>1, <2>4, <3>2 DEF PolledAnswer
      <4>2. <<"head">> \in Seq(Outcome) /\ Len(<<"head">>) = 1 /\ <<"head">>[1] = "head"
        BY DEF Outcome
      <4>3. r \in Record /\ r.prog = k.prog /\ r.st = "streaming" /\ r.owed = <<"head">> /\ r.resp = "none"
        BY <1>1, <3>1, <4>1, <4>2 DEF Record, Stage
      <4>4. PolledSound(r)
        BY <4>2, <4>3 DEF PolledSound
      <4>5. QED
        BY <3>1, <4>3, <4>4
    <3>3. CASE o # "head"
      <4>1. r = [k EXCEPT !.st = "writing", !.owed = <<"whole">>, !.reg = FALSE]
        BY <2>1, <2>4, <3>3 DEF PolledAnswer
      <4>2. <<"whole">> \in Seq(Outcome)
        BY DEF Outcome
      <4>3. r \in Record /\ r.prog = k.prog /\ r.st = "writing" /\ r.resp = "none"
        BY <1>1, <3>1, <4>1, <4>2 DEF Record, Stage
      <4>4. r.reg = FALSE
        BY <1>1, <4>1 DEF Record
      <4>5. PolledSound(r)
        BY <4>3, <4>4 DEF PolledSound
      <4>6. QED
        BY <3>1, <4>3, <4>5
    <3>4. QED
      BY <3>2, <3>3
  <2>5. CASE k.st = "streaming"
    <3> DEFINE q == k.owed
    <3>1. /\ k.resp \in {"none", "open"}
          /\ k.resp = "none" => q # <<>> /\ q[1] = "head"
          /\ \A i \in 1..Len(q) : /\ q[i] \in {"head", "chunk", "last"}
                                  /\ q[i] = "head" => i = 1 /\ k.resp = "none"
                                  /\ q[i] # "last"
      BY <1>5, <2>2, <2>5 DEF PolledSound
    <3>2. CASE o = "chunk" /\ Len(q) >= STREAM_BACKLOG
      <4>1. r = [k EXCEPT !.st = "writing", !.owed = <<>>, !.reg = FALSE]
        BY <1>2, <2>1, <2>5, <3>2, ListenAssumption DEF PolledAnswer
      <4>2. <<>> \in Seq(Outcome)
        OBVIOUS
      <4>3. r \in Record /\ r.prog = k.prog /\ r.st = "writing" /\ r.resp = k.resp /\ r.owed = <<>>
        BY <1>1, <4>1, <4>2 DEF Record, Stage
      <4>4. r.reg = FALSE
        BY <1>1, <4>1 DEF Record
      <4>5. PolledSound(r) /\ Over(r)
        BY <3>1, <4>3, <4>4 DEF PolledSound, Over
      <4>6. QED
        BY <3>1, <4>3, <4>5
    <3>3. CASE o = "last" \/ (o = "chunk" /\ ~(Len(q) >= STREAM_BACKLOG))
      <4> DEFINE p == Append(q, o)
      <4>1. PICK reg \in BOOLEAN : r = [k EXCEPT !.owed = p, !.reg = reg] /\ (o = "last" => ~reg)
        <5>1. CASE o = "last"
          BY <2>1, <2>5, <5>1 DEF PolledAnswer
        <5>2. CASE o = "chunk"
          <6>1. r = [k EXCEPT !.owed = p]
            BY <1>2, <2>1, <2>5, <3>3, <5>2, ListenAssumption DEF PolledAnswer
          <6>2. [k EXCEPT !.owed = p] = [k EXCEPT !.owed = p, !.reg = k.reg] /\ k.reg \in BOOLEAN
            BY <1>1 DEF Record
          <6>3. QED
            BY <5>2, <6>1, <6>2
        <5>3. QED
          BY <3>3, <5>1, <5>2
      <4>2. /\ p \in Seq(Outcome) /\ Len(p) = Len(q) + 1 /\ p[Len(q) + 1] = o
            /\ \A i \in 1..Len(q) : p[i] = q[i]
        BY <1>2, AppendProperties
      <4> HIDE DEF p
      <4>3. r \in Record /\ r.prog = k.prog /\ r.st = "streaming" /\ r.resp = k.resp /\ r.owed = p
        BY <1>1, <2>5, <4>1, <4>2 DEF Record
      <4>4. r.reg = reg
        BY <1>1, <4>1 DEF Record
      <4>5. p # <<>> /\ (k.resp = "none" => p[1] = "head")
        <5>1. Len(p) # 0 /\ (q # <<>> => 1 \in 1..Len(q))
          BY <1>2, <4>2, EmptySeq
        <5>2. QED
          BY <3>1, <4>2, <5>1, EmptySeq
      <4>6. ASSUME NEW i \in 1..Len(p)
            PROVE  /\ p[i] \in {"head", "chunk", "last"} /\ (p[i] = "head" => i = 1 /\ k.resp = "none")
                   /\ p[i] = "last" => i = Len(p) /\ ~reg
        <5>1. CASE i \in 1..Len(q)
          BY <3>1, <4>2, <5>1
        <5>2. CASE i = Len(q) + 1
          BY <3>3, <4>1, <4>2, <5>2
        <5>3. QED
          BY <1>2, <4>2, <5>1, <5>2
      <4>7. PolledSound(r)
        BY <3>1, <4>3, <4>4, <4>5, <4>6 DEF PolledSound
      <4>8. ~Overflows(c, o)
        BY <3>3 DEF Overflows
      <4>9. QED
        BY <3>1, <4>3, <4>7, <4>8
    <3>4. CASE o = "whole"
      <4>1. r = [k EXCEPT !.reg = FALSE]
        BY <2>1, <2>5, <3>4 DEF PolledAnswer
      <4>2. r \in Record /\ r.prog = k.prog /\ r.st = "streaming" /\ r.resp = k.resp /\ r.owed = q
        BY <1>1, <2>5, <4>1 DEF Record
      <4>3. r.reg = FALSE
        BY <1>1, <4>1 DEF Record
      <4>4. PolledSound(r)
        BY <3>1, <4>2, <4>3 DEF PolledSound
      <4>5. QED
        BY <3>1, <3>4, <4>2, <4>4 DEF Overflows
    <3>5. CASE o = "head"
      <4>1. r = k
        BY <2>1, <2>5, <3>5 DEF PolledAnswer
      <4>2. QED
        BY <1>1, <2>2, <3>5, <4>1 DEF Overflows
    <3>6. QED
      BY <3>2, <3>3, <3>4, <3>5 DEF Outcome
  <2>6. QED
    BY <2>2, <2>4, <2>5
<1>6. QED
  BY <1>1, <1>3, <1>4, <1>5
-----------------------------------------------------------------------------
(* Messages on their way: g of ingress, h of what is held, q of the queue; *)
(* n of those held are still to be looked at in this pass, and come first. *)

In(s, c)   == \E i \in 1..Len(s) : Notice(s[i], c)
Uniq(s, c) == \A i, j \in 1..Len(s) : Notice(s[i], c) /\ Notice(s[j], c) => i = j

(* The notice of c is in one place, p being what the program has read last,*)
(* and is there once.                                                      *)
Lone(g, h, q, p, c) ==
    /\ Uniq(g, c) /\ Uniq(h, c) /\ Uniq(q, c)
    /\ ~(In(g, c) /\ In(h, c)) /\ ~(In(g, c) /\ In(q, c)) /\ ~(In(h, c) /\ In(q, c))
    /\ p = "told" => ~In(g, c) /\ ~In(h, c) /\ ~In(q, c)

Somewhere(g, h, q, p, c) == In(g, c) \/ In(h, c) \/ In(q, c) \/ p = "told"

Rises(s)      == \A i, j \in 1..Len(s) : i < j => s[i].at < s[j].at
Earlier(s, t) == \A i \in 1..Len(s), j \in 1..Len(t) : s[i].at < t[j].at
Before(s, k)  == \A i \in 1..Len(s) : s[i].at < k

(* Oldest first, the n first of them after the others.                     *)
Rotated(s, n) ==
    \A i, j \in 1..Len(s) : i < j => IF i <= n /\ n < j THEN s[j].at < s[i].at ELSE s[i].at < s[j].at

Order(g, h, n, q, k) ==
    /\ Rises(g) /\ Rises(q) /\ Rotated(h, n)
    /\ Earlier(q, h) /\ Earlier(h, g) /\ Earlier(q, g)
    /\ Before(g, k) /\ Before(h, k) /\ Before(q, k)

(* Messages carry the time they arrived.                                   *)
LEMMA Timed == ASSUME NEW s \in Seq(Msg) PROVE \A i \in 1..Len(s) : s[i].at \in Nat
<1>1. \A i \in 1..Len(s) : s[i] \in Msg
  BY LenProperties
<1>2. QED
  BY <1>1 DEF Msg

(* A sequence without its first message.                                   *)
LEMMA TailFacts ==
    ASSUME NEW s \in Seq(Msg), s # <<>>
    PROVE  /\ Tail(s) \in Seq(Msg) /\ Head(s) \in Msg /\ Head(s) = s[1] /\ Len(s) \in Nat \ {0}
           /\ Len(Tail(s)) = Len(s) - 1 /\ \A i \in 1..Len(s) - 1 : Tail(s)[i] = s[i + 1]
BY HeadTailProperties, LenProperties

(* A sequence with one message more.                                       *)
LEMMA AppendFacts ==
    ASSUME NEW s \in Seq(Msg), NEW m \in Msg
    PROVE  /\ Append(s, m) \in Seq(Msg) /\ Len(s) \in Nat /\ Len(Append(s, m)) = Len(s) + 1
           /\ Append(s, m)[Len(s) + 1] = m /\ \A i \in 1..Len(s) : Append(s, m)[i] = s[i]
BY AppendProperties, LenProperties

(* A notice of c is the first message or among the rest, and not both.     *)
LEMMA NoticeTail ==
    ASSUME NEW s \in Seq(Msg), s # <<>>, NEW c
    PROVE  /\ In(s, c) <=> Notice(Head(s), c) \/ In(Tail(s), c)
           /\ Uniq(s, c) => Uniq(Tail(s), c) /\ (Notice(Head(s), c) => ~In(Tail(s), c))
<1> DEFINE t == Tail(s)
<1>1. /\ Head(s) = s[1] /\ Len(s) \in Nat \ {0} /\ Len(t) = Len(s) - 1 /\ \A i \in 1..Len(s) - 1 : t[i] = s[i + 1]
  BY TailFacts
<1> HIDE DEF t
<1>2. ASSUME In(s, c) PROVE Notice(Head(s), c) \/ In(t, c)
  <2>1. PICK i \in 1..Len(s) : Notice(s[i], c)
    BY <1>2 DEF In
  <2>2. CASE i = 1
    BY <1>1, <2>1, <2>2
  <2>3. CASE i # 1
    <3>1. i - 1 \in 1..Len(t) /\ t[i - 1] = s[i]
      BY <1>1, <2>3
    <3>2. QED
      BY <2>1, <3>1 DEF In
  <2>4. QED
    BY <2>2, <2>3
<1>3. ASSUME In(t, c) PROVE \E i \in 1..Len(s) : i # 1 /\ Notice(s[i], c)
  <2>1. PICK i \in 1..Len(t) : Notice(t[i], c)
    BY <1>3 DEF In
  <2>2. i + 1 \in 1..Len(s) /\ i + 1 # 1 /\ t[i] = s[i + 1]
    BY <1>1
  <2>3. QED
    BY <2>1, <2>2
<1>4. 1 \in 1..Len(s)
  BY <1>1
<1>5. In(s, c) <=> Notice(Head(s), c) \/ In(t, c)
  BY <1>1, <1>2, <1>3, <1>4 DEF In
<1>6. ASSUME Uniq(s, c), NEW i \in 1..Len(t), NEW j \in 1..Len(t), Notice(t[i], c), Notice(t[j], c) PROVE i = j
  <2>1. i + 1 \in 1..Len(s) /\ j + 1 \in 1..Len(s) /\ t[i] = s[i + 1] /\ t[j] = s[j + 1]
    BY <1>1
  <2>2. i + 1 = j + 1
    BY <1>6, <2>1 DEF Uniq
  <2>3. QED
    BY <2>2
<1>7. ASSUME Uniq(s, c), Notice(Head(s), c) PROVE ~In(t, c)
  BY <1>1, <1>3, <1>4, <1>7 DEF Uniq
<1>8. QED
  BY <1>5, <1>6, <1>7 DEF Uniq, t

(* A notice of c among the messages after one more is appended.            *)
LEMMA NoticeAppend ==
    ASSUME NEW s \in Seq(Msg), NEW m \in Msg, NEW c
    PROVE  /\ In(Append(s, m), c) <=> In(s, c) \/ Notice(m, c)
           /\ Uniq(s, c) /\ (Notice(m, c) => ~In(s, c)) => Uniq(Append(s, m), c)
<1> DEFINE t == Append(s, m)
<1>1. Len(s) \in Nat /\ Len(t) = Len(s) + 1 /\ t[Len(s) + 1] = m /\ \A i \in 1..Len(s) : t[i] = s[i]
  BY AppendFacts
<1> HIDE DEF t
<1>2. ASSUME NEW i \in 1..Len(t) PROVE i \in 1..Len(s) \/ i = Len(s) + 1
  BY <1>1
<1>3. Len(s) + 1 \in 1..Len(t) /\ \A i \in 1..Len(s) : i \in 1..Len(t)
  BY <1>1
<1>4. In(t, c) <=> In(s, c) \/ Notice(m, c)
  BY <1>1, <1>2, <1>3 DEF In
<1>5. ASSUME Uniq(s, c), Notice(m, c) => ~In(s, c), NEW i \in 1..Len(t), NEW j \in 1..Len(t),
             Notice(t[i], c), Notice(t[j], c)
      PROVE  i = j
  BY <1>1, <1>2, <1>5 DEF In, Uniq
<1>6. QED
  BY <1>4, <1>5 DEF Uniq, t

(* No message, no notice.                                                  *)
LEMMA NoticeNone == ASSUME NEW c PROVE ~In(<<>>, c) /\ Uniq(<<>>, c)
BY DEF In, Uniq
-----------------------------------------------------------------------------
(* The order, as messages move.                                            *)

(* A message arrives, the youngest of all.                                 *)
LEMMA OrderArrives ==
    ASSUME NEW g \in Seq(Msg), NEW h \in Seq(Msg), NEW q \in Seq(Msg), NEW n \in Nat, NEW k \in Nat,
           Order(g, h, n, q, k), NEW m \in Msg, m.at = k
    PROVE  Order(Append(g, m), h, n, q, k + 1)
<1> DEFINE t == Append(g, m)
<1>1. Len(g) \in Nat /\ Len(t) = Len(g) + 1 /\ t[Len(g) + 1] = m /\ \A i \in 1..Len(g) : t[i] = g[i]
  BY AppendFacts
<1>2. /\ \A i \in 1..Len(g) : g[i].at \in Nat
      /\ \A i \in 1..Len(h) : h[i].at \in Nat
      /\ \A i \in 1..Len(q) : q[i].at \in Nat
  BY Timed
<1> HIDE DEF t
<1>3. \A i \in 1..Len(t) : i \in 1..Len(g) \/ i = Len(g) + 1
  BY <1>1
<1>4. Rises(t)
  BY <1>1, <1>2, <1>3, SMTT(30) DEF Order, Rises, Before
<1>5. Earlier(h, t) /\ Earlier(q, t)
  BY <1>1, <1>2, <1>3 DEF Order, Earlier, Before
<1>6. Before(t, k + 1)
  <2>1. \A i \in 1..Len(g) : g[i].at < k
    BY DEF Order, Before
  <2>2. ASSUME NEW i \in 1..Len(t) PROVE t[i].at < k + 1
    <3>1. CASE i \in 1..Len(g)
      <4>1. t[i] = g[i] /\ g[i].at \in Nat /\ g[i].at < k
        BY <1>1, <1>2, <2>1, <3>1
      <4>2. QED
        BY <4>1
    <3>2. CASE i = Len(g) + 1
      BY <1>1, <3>2
    <3>3. QED
      BY <1>3, <3>1, <3>2
  <2>3. QED
    BY <2>2 DEF Before
<1>7. Before(h, k + 1) /\ Before(q, k + 1)
  BY <1>2 DEF Order, Before
<1>8. QED
  BY <1>4, <1>5, <1>6, <1>7 DEF Order, t

(* The oldest of ingress taken, and what becomes of it.                    *)
LEMMA OrderTaken ==
    ASSUME NEW g \in Seq(Msg), NEW h \in Seq(Msg), NEW q \in Seq(Msg), NEW n \in Nat, NEW k \in Nat,
           Order(g, h, n, q, k), g # <<>>
    PROVE  /\ Order(Tail(g), h, n, q, k)
           /\ n = 0 => Order(Tail(g), Append(h, Head(g)), n, q, k)
           /\ h = <<>> => Order(Tail(g), h, n, Append(q, Head(g)), k)
           /\ h = <<>> => Earlier(<<Head(g)>>, Tail(g)) /\ Earlier(q, <<Head(g)>>)
<1> DEFINE t == Tail(g)
           m == Head(g)
<1>1. /\ m \in Msg /\ m = g[1] /\ Len(g) \in Nat \ {0} /\ Len(t) = Len(g) - 1
      /\ \A i \in 1..Len(g) - 1 : t[i] = g[i + 1]
  BY TailFacts
<1>2. /\ \A i \in 1..Len(g) : g[i].at \in Nat
      /\ \A i \in 1..Len(h) : h[i].at \in Nat
      /\ \A i \in 1..Len(q) : q[i].at \in Nat
  BY Timed
<1> HIDE DEF t, m
<1>3. /\ 1 \in 1..Len(g) /\ \A i \in 1..Len(t) : i + 1 \in 1..Len(g) /\ t[i] = g[i + 1] /\ 1 < i + 1
  BY <1>1
<1>4. /\ Rises(t) /\ Earlier(h, t) /\ Earlier(q, t) /\ Before(t, k)
      /\ \A i \in 1..Len(t) : m.at < t[i].at
      /\ \A i \in 1..Len(h) : h[i].at < m.at
      /\ \A i \in 1..Len(q) : q[i].at < m.at
      /\ m.at < k
  <2>1. Rises(t)
    <3>1. ASSUME NEW i \in 1..Len(t), NEW j \in 1..Len(t), i < j PROVE t[i].at < t[j].at
      <4>1. i + 1 \in 1..Len(g) /\ j + 1 \in 1..Len(g) /\ i + 1 < j + 1 /\ t[i] = g[i + 1] /\ t[j] = g[j + 1]
        BY <1>1, <1>3, <3>1
      <4>2. QED
        BY <4>1 DEF Order, Rises
    <3>2. QED
      BY <3>1 DEF Rises
  <2>2. QED
    BY <1>1, <1>2, <1>3, <2>1 DEF Order, Rises, Earlier, Before
<1>5. Order(t, h, n, q, k)
  BY <1>4 DEF Order
<1>6. ASSUME NEW s \in Seq(Msg)
      PROVE  /\ Len(s) \in Nat /\ Len(Append(s, m)) = Len(s) + 1 /\ Append(s, m)[Len(s) + 1] = m
             /\ \A i \in 1..Len(s) : Append(s, m)[i] = s[i]
             /\ \A i \in 1..Len(Append(s, m)) : i \in 1..Len(s) \/ i = Len(s) + 1
  BY <1>1, AppendFacts
<1>7. ASSUME n = 0 PROVE Order(t, Append(h, m), n, q, k)
  <2> DEFINE u == Append(h, m)
  <2>1. /\ Len(h) \in Nat /\ Len(u) = Len(h) + 1 /\ u[Len(h) + 1] = m
        /\ \A i \in 1..Len(h) : u[i] = h[i]
        /\ \A i \in 1..Len(u) : i \in 1..Len(h) \/ i = Len(h) + 1
    BY <1>6
  <2> HIDE DEF u
  <2>2. Rotated(u, n)
    BY <1>2, <1>4, <1>7, <2>1 DEF Order, Rotated
  <2>3. Earlier(q, u) /\ Earlier(u, t) /\ Before(u, k)
    BY <1>2, <1>4, <2>1 DEF Order, Earlier, Before
  <2>4. QED
    BY <1>4, <2>2, <2>3 DEF Order, u
<1>8. ASSUME h = <<>> PROVE Order(t, h, n, Append(q, m), k)
  <2> DEFINE u == Append(q, m)
  <2>1. /\ Len(q) \in Nat /\ Len(u) = Len(q) + 1 /\ u[Len(q) + 1] = m
        /\ \A i \in 1..Len(q) : u[i] = q[i]
        /\ \A i \in 1..Len(u) : i \in 1..Len(q) \/ i = Len(q) + 1
    BY <1>6
  <2> HIDE DEF u
  <2>2. Rises(u)
    BY <1>2, <1>4, <2>1, SMTT(30) DEF Order, Rises
  <2>3. Earlier(u, t) /\ Before(u, k)
    BY <1>2, <1>4, <2>1 DEF Order, Earlier, Before
  <2>5. Earlier(u, <<>>)
    BY DEF Earlier
  <2>4. QED
    BY <1>4, <1>8, <2>2, <2>3, <2>5 DEF Order, u
<1>9. Earlier(<<m>>, t) /\ Earlier(q, <<m>>)
  BY <1>4 DEF Earlier
<1>10. QED
  BY <1>5, <1>7, <1>8, <1>9 DEF t, m

(* The oldest to be looked at again: gone, put back, or on the queue.      *)
LEMMA OrderRetried ==
    ASSUME NEW g \in Seq(Msg), NEW h \in Seq(Msg), NEW q \in Seq(Msg), NEW n \in Nat, NEW k \in Nat,
           Order(g, h, n, q, k), h # <<>>, 0 < n, n <= Len(h)
    PROVE  /\ Order(g, Tail(h), n - 1, q, k)
           /\ Order(g, Append(Tail(h), Head(h)), n - 1, q, k)
           /\ n = Len(h) => /\ Order(g, Tail(h), n - 1, Append(q, Head(h)), k)
                            /\ \A i \in 1..Len(Tail(h)) : Head(h).at < Tail(h)[i].at
                            /\ \A i \in 1..Len(g) : Head(h).at < g[i].at
                            /\ \A i \in 1..Len(q) : q[i].at < Head(h).at
<1> DEFINE t == Tail(h)
           m == Head(h)
           u == Append(t, m)
           v == Append(q, m)
<1>1. /\ m \in Msg /\ m = h[1] /\ Len(h) \in Nat \ {0} /\ Len(t) = Len(h) - 1 /\ t \in Seq(Msg)
      /\ \A i \in 1..Len(h) - 1 : t[i] = h[i + 1]
  BY TailFacts
<1>2. /\ \A i \in 1..Len(g) : g[i].at \in Nat
      /\ \A i \in 1..Len(h) : h[i].at \in Nat
      /\ \A i \in 1..Len(q) : q[i].at \in Nat
  BY Timed
<1>3. /\ Len(t) \in Nat /\ Len(u) = Len(t) + 1 /\ u[Len(t) + 1] = m /\ \A i \in 1..Len(t) : u[i] = t[i]
      /\ Len(q) \in Nat /\ Len(v) = Len(q) + 1 /\ v[Len(q) + 1] = m /\ \A i \in 1..Len(q) : v[i] = q[i]
  <2>1. m \in Msg /\ t \in Seq(Msg)
    BY <1>1
  <2> HIDE DEF t, m
  <2>2. QED
    BY <2>1, AppendFacts
<1> HIDE DEF t, m, u, v
<1>4. /\ 1 \in 1..Len(h) /\ \A i \in 1..Len(t) : i + 1 \in 1..Len(h) /\ t[i] = h[i + 1] /\ 1 < i + 1
  BY <1>1
<1>5. /\ \A i \in 1..Len(u) : i \in 1..Len(t) \/ i = Len(t) + 1
      /\ \A i \in 1..Len(v) : i \in 1..Len(q) \/ i = Len(q) + 1
  BY <1>3
<1>6. \A i \in 1..Len(t) : /\ i <= n - 1 => m.at < t[i].at
                           /\ ~(i <= n - 1) => t[i].at < m.at
  <2>1. ASSUME NEW i \in 1..Len(t) PROVE (i <= n - 1 => m.at < t[i].at) /\ (~(i <= n - 1) => t[i].at < m.at)
    <3>1. IF 1 <= n /\ n < i + 1 THEN h[i + 1].at < h[1].at ELSE h[1].at < h[i + 1].at
      BY <1>4 DEF Order, Rotated
    <3>2. i \in Nat /\ t[i] = h[i + 1] /\ m = h[1] /\ 1 <= n
      BY <1>1, <1>4
    <3>3. QED
      BY <3>1, <3>2
  <2>2. QED
    BY <2>1
<1>7. /\ \A i \in 1..Len(g) : m.at < g[i].at
      /\ \A i \in 1..Len(q) : q[i].at < m.at
      /\ m.at < k /\ m.at \in Nat
      /\ \A i \in 1..Len(t) : t[i].at \in Nat
  BY <1>1, <1>2, <1>4 DEF Order, Earlier, Before
<1>8. Rotated(t, n - 1)
  <2>1. ASSUME NEW i \in 1..Len(t), NEW j \in 1..Len(t), i < j
        PROVE  IF i <= n - 1 /\ n - 1 < j THEN t[j].at < t[i].at ELSE t[i].at < t[j].at
    <3>1. i + 1 \in 1..Len(h) /\ j + 1 \in 1..Len(h) /\ i + 1 < j + 1 /\ t[i] = h[i + 1] /\ t[j] = h[j + 1]
      BY <1>1, <1>4, <2>1
    <3>2. IF i + 1 <= n /\ n < j + 1 THEN h[j + 1].at < h[i + 1].at ELSE h[i + 1].at < h[j + 1].at
      BY <3>1 DEF Order, Rotated
    <3>3. (i + 1 <= n /\ n < j + 1) <=> (i <= n - 1 /\ n - 1 < j)
      BY <1>1
    <3>4. QED
      BY <3>1, <3>2, <3>3
  <2>2. QED
    BY <2>1 DEF Rotated
<1>9. Earlier(q, t) /\ Earlier(t, g) /\ Before(t, k)
  BY <1>4 DEF Order, Earlier, Before
<1>10. Order(g, t, n - 1, q, k)
  BY <1>8, <1>9 DEF Order
<1>11. Rotated(u, n - 1)
  <2>1. ASSUME NEW i \in 1..Len(u), NEW j \in 1..Len(u), i < j
        PROVE  IF i <= n - 1 /\ n - 1 < j THEN u[j].at < u[i].at ELSE u[i].at < u[j].at
    <3>1. i \in 1..Len(t) /\ u[i] = t[i]
      BY <1>3, <2>1
    <3>2. CASE j \in 1..Len(t)
      BY <1>3, <1>8, <2>1, <3>1, <3>2 DEF Rotated
    <3>3. CASE j = Len(t) + 1
      <4>1. n - 1 < j /\ u[j] = m
        BY <1>1, <1>3, <3>3
      <4>2. QED
        BY <1>6, <3>1, <4>1
    <3>4. QED
      BY <1>5, <3>2, <3>3
  <2>2. QED
    BY <2>1 DEF Rotated
<1>12. Earlier(q, u) /\ Earlier(u, g) /\ Before(u, k)
  BY <1>3, <1>5, <1>7, <1>9 DEF Earlier, Before
<1>13. Order(g, u, n - 1, q, k)
  BY <1>11, <1>12 DEF Order
<1>14. ASSUME n = Len(h) PROVE Order(g, t, n - 1, v, k) /\ \A i \in 1..Len(t) : m.at < t[i].at
  <2>1. \A i \in 1..Len(t) : m.at < t[i].at
    <3>1. \A i \in 1..Len(t) : i <= n - 1
      BY <1>1, <1>14
    <3>2. QED
      BY <1>6, <3>1
  <2>2. Rises(v)
    <3>1. ASSUME NEW i \in 1..Len(v), NEW j \in 1..Len(v), i < j PROVE v[i].at < v[j].at
      <4>1. i \in 1..Len(q) /\ v[i] = q[i]
        BY <1>3, <3>1
      <4>2. CASE j \in 1..Len(q)
        BY <1>3, <3>1, <4>1, <4>2 DEF Order, Rises
      <4>3. CASE j = Len(q) + 1
        BY <1>3, <1>7, <4>1, <4>3
      <4>4. QED
        BY <1>5, <4>2, <4>3
    <3>2. QED
      BY <3>1 DEF Rises
  <2>3. Earlier(v, t)
    BY <1>3, <1>5, <1>9, <2>1 DEF Earlier
  <2>4. Earlier(v, g) /\ Before(v, k)
    BY <1>3, <1>5, <1>7 DEF Order, Earlier, Before
  <2>5. QED
    BY <1>10, <2>1, <2>2, <2>3, <2>4 DEF Order
<1>15. QED
  BY <1>7, <1>10, <1>13, <1>14 DEF t, m, u, v

(* The program reads, ends, or a pass begins.                              *)
LEMMA OrderLess ==
    ASSUME NEW g \in Seq(Msg), NEW h \in Seq(Msg), NEW q \in Seq(Msg), NEW n \in Nat, NEW k \in Nat,
           Order(g, h, n, q, k)
    PROVE  /\ q # <<>> => Order(g, h, n, Tail(q), k)
           /\ Order(g, h, n, <<>>, k)
           /\ \A i \in Nat : Order(g, <<>>, i, q, k)
           /\ n = 0 => Order(g, h, Len(h), q, k)
<1>1. ASSUME q # <<>> PROVE Order(g, h, n, Tail(q), k)
  <2> DEFINE t == Tail(q)
  <2>1. Len(q) \in Nat \ {0} /\ Len(t) = Len(q) - 1 /\ \A i \in 1..Len(q) - 1 : t[i] = q[i + 1]
    BY <1>1, TailFacts
  <2> HIDE DEF t
  <2>2. \A i \in 1..Len(t) : i + 1 \in 1..Len(q) /\ t[i] = q[i + 1]
    BY <2>1
  <2>3. \A i, j \in 1..Len(t) : i < j => i + 1 < j + 1
    OBVIOUS
  <2>4. Rises(t)
    BY <2>2, <2>3 DEF Order, Rises
  <2>5. Earlier(t, h) /\ Earlier(t, g) /\ Before(t, k)
    BY <2>2 DEF Order, Earlier, Before
  <2>6. QED
    BY <2>4, <2>5 DEF Order, t
<1>2. /\ Rises(<<>>) /\ Earlier(<<>>, h) /\ Earlier(<<>>, g) /\ Before(<<>>, k) /\ Earlier(q, <<>>)
      /\ \A i \in Nat : Rotated(<<>>, i)
  BY DEF Rises, Earlier, Before, Rotated
<1>3. Order(g, h, n, <<>>, k) /\ \A i \in Nat : Order(g, <<>>, i, q, k)
  BY <1>2 DEF Order
<1>4. ASSUME n = 0 PROVE Order(g, h, Len(h), q, k)
  <2>1. Rotated(h, Len(h))
    BY <1>4, LenProperties DEF Order, Rotated
  <2>2. QED
    BY <2>1 DEF Order
<1>5. QED
  BY <1>1, <1>3, <1>4
-----------------------------------------------------------------------------
(* The messages of what is held.                                           *)

Ms(h) == [i \in 1..Len(h) |-> h[i].m]

(* What is held and its messages agree, place by place.                    *)
LEMMA Messages ==
    ASSUME NEW h \in Seq(Held)
    PROVE  /\ Ms(h) \in Seq(Msg) /\ Len(Ms(h)) = Len(h) /\ (Ms(h) = <<>> <=> h = <<>>)
           /\ \A i \in 1..Len(h) : Ms(h)[i] = h[i].m
<1>1. Len(h) \in Nat /\ \A i \in 1..Len(h) : h[i] \in Held
  BY LenProperties
<1>2. \A i \in 1..Len(h) : h[i].m \in Msg
  BY <1>1 DEF Held
<1>3. Ms(h) \in [1..Len(h) -> Msg]
  BY <1>2 DEF Ms
<1>4. Ms(h) \in Seq(Msg) /\ Len(Ms(h)) = Len(h)
  BY <1>1, <1>3
<1>5. Ms(h) = <<>> <=> h = <<>>
  BY <1>4, EmptySeq
<1>6. QED
  BY <1>4, <1>5 DEF Ms

(* Nothing held, no message.                                               *)
LEMMA NoMessages == Ms(<<>>) = <<>>
<1>1. <<>> \in Seq(Held)
  OBVIOUS
<1>2. QED
  BY <1>1, Messages

(* The first of what is held is taken out.                                 *)
LEMMA MessagesTail ==
    ASSUME NEW h \in Seq(Held), h # <<>>
    PROVE  /\ Tail(h) \in Seq(Held) /\ Len(Tail(h)) = Len(h) - 1 /\ Head(h) \in Held
           /\ Ms(Tail(h)) = Tail(Ms(h)) /\ Head(Ms(h)) = Head(h).m
<1> DEFINE t == Tail(h)
           a == Ms(h)
<1>1. t \in Seq(Held) /\ Len(t) = Len(h) - 1 /\ Head(h) \in Held /\ Head(h) = h[1] /\ Len(h) \in Nat \ {0}
      /\ \A i \in 1..Len(t) : t[i] = h[i + 1]
  BY HeadTailProperties, EmptySeq
<1>2. a \in Seq(Msg) /\ Len(a) = Len(h) /\ a # <<>> /\ \A i \in 1..Len(h) : a[i] = h[i].m
  BY Messages
<1>3. Ms(t) \in Seq(Msg) /\ Len(Ms(t)) = Len(t) /\ \A i \in 1..Len(t) : Ms(t)[i] = t[i].m
  BY <1>1, Messages
<1> HIDE DEF a, t
<1>4. Tail(a) \in Seq(Msg) /\ Len(Tail(a)) = Len(a) - 1 /\ Head(a) = a[1]
      /\ \A i \in 1..Len(a) - 1 : Tail(a)[i] = a[i + 1]
  BY <1>2, TailFacts
<1>5. ASSUME NEW i \in 1..Len(t) PROVE Ms(t)[i] = Tail(a)[i]
  <2>1. i \in 1..Len(a) - 1 /\ i + 1 \in 1..Len(h)
    BY <1>1, <1>2
  <2>2. Tail(a)[i] = a[i + 1] /\ a[i + 1] = h[i + 1].m /\ Ms(t)[i] = t[i].m /\ t[i] = h[i + 1]
    BY <1>1, <1>2, <1>3, <1>4, <2>1
  <2>3. QED
    BY <2>2
<1>6. Ms(t) = Tail(a)
  BY <1>1, <1>2, <1>3, <1>4, <1>5, SeqEqual
<1>7. Head(a) = Head(h).m
  BY <1>1, <1>2, <1>4
<1>8. QED
  BY <1>1, <1>6, <1>7 DEF a, t

(* One more is held.                                                       *)
LEMMA MessagesAppend ==
    ASSUME NEW h \in Seq(Held), NEW x \in Held
    PROVE  /\ Append(h, x) \in Seq(Held) /\ Len(Append(h, x)) = Len(h) + 1
           /\ Ms(Append(h, x)) = Append(Ms(h), x.m)
<1> DEFINE t == Append(h, x)
           a == Ms(h)
           b == Append(a, x.m)
<1>1. t \in Seq(Held) /\ Len(t) = Len(h) + 1 /\ t[Len(h) + 1] = x /\ Len(h) \in Nat
      /\ \A i \in 1..Len(h) : t[i] = h[i]
  BY AppendProperties, LenProperties
<1>2. a \in Seq(Msg) /\ Len(a) = Len(h) /\ \A i \in 1..Len(h) : a[i] = h[i].m
  BY Messages
<1>3. Ms(t) \in Seq(Msg) /\ Len(Ms(t)) = Len(t) /\ \A i \in 1..Len(t) : Ms(t)[i] = t[i].m
  BY <1>1, Messages
<1>4. x.m \in Msg
  BY DEF Held
<1> HIDE DEF a, t
<1>5. b \in Seq(Msg) /\ Len(b) = Len(a) + 1 /\ b[Len(a) + 1] = x.m /\ \A i \in 1..Len(a) : b[i] = a[i]
  BY <1>2, <1>4, AppendFacts
<1> HIDE DEF b
<1>6. ASSUME NEW i \in 1..Len(t) PROVE Ms(t)[i] = b[i]
  <2>1. CASE i \in 1..Len(h)
    BY <1>1, <1>2, <1>3, <1>5, <2>1
  <2>2. CASE i = Len(h) + 1
    BY <1>1, <1>2, <1>3, <1>5, <2>2
  <2>3. QED
    BY <1>1, <2>1, <2>2
<1>7. Ms(t) = b
  BY <1>1, <1>2, <1>3, <1>5, <1>6, SeqEqual
<1>8. QED
  BY <1>1, <1>7 DEF a, b, t
-----------------------------------------------------------------------------
(* The notices of c, a connection of record r.                             *)

Mail(g, h, q, r, c) == Lone(g, h, q, r.prog, c) /\ (Somewhere(g, h, q, r.prog, c) => Over(r))

(* The connection has moved on and nothing else; a message has arrived.    *)
LEMMA MailArrives ==
    ASSUME NEW g \in Seq(Msg), NEW h, NEW q, NEW r, NEW s, NEW c,
           Mail(g, h, q, r, c), s.prog = r.prog, Over(r) => Over(s)
    PROVE  /\ Mail(g, h, q, s, c)
           /\ \A m \in Msg : (Notice(m, c) => ~Over(r) /\ Over(s)) => Mail(Append(g, m), h, q, s, c)
<1>1. Mail(g, h, q, s, c)
  BY DEF Mail
<1>2. ASSUME NEW m \in Msg, Notice(m, c) => ~Over(r) /\ Over(s) PROVE Mail(Append(g, m), h, q, s, c)
  <2>1. CASE Notice(m, c)
    BY <1>1, <1>2, <2>1, NoticeAppend DEF Mail, Lone, Somewhere
  <2>2. CASE ~Notice(m, c)
    BY <1>1, <2>2, NoticeAppend DEF Mail, Lone, Somewhere
  <2>3. QED
    BY <2>1, <2>2
<1>3. QED
  BY <1>1, <1>2

(* The first of ingress is dropped, held, or put on the queue.             *)
LEMMA MailTaken ==
    ASSUME NEW g \in Seq(Msg), NEW h \in Seq(Msg), NEW q \in Seq(Msg), NEW r, NEW c,
           Mail(g, h, q, r, c), g # <<>>
    PROVE  /\ Mail(Tail(g), h, q, r, c)
           /\ Mail(Tail(g), Append(h, Head(g)), q, r, c)
           /\ Mail(Tail(g), h, Append(q, Head(g)), r, c)
<1>1. /\ Head(g) \in Msg /\ (In(g, c) <=> Notice(Head(g), c) \/ In(Tail(g), c))
      /\ Uniq(g, c) => Uniq(Tail(g), c) /\ (Notice(Head(g), c) => ~In(Tail(g), c))
  BY NoticeTail, TailFacts
<1>2. /\ In(Append(h, Head(g)), c) <=> In(h, c) \/ Notice(Head(g), c)
      /\ Uniq(h, c) /\ (Notice(Head(g), c) => ~In(h, c)) => Uniq(Append(h, Head(g)), c)
      /\ In(Append(q, Head(g)), c) <=> In(q, c) \/ Notice(Head(g), c)
      /\ Uniq(q, c) /\ (Notice(Head(g), c) => ~In(q, c)) => Uniq(Append(q, Head(g)), c)
  BY <1>1, NoticeAppend
<1>3. QED
  BY <1>1, <1>2 DEF Mail, Lone, Somewhere

(* The first of what is held is dropped, put back, or put on the queue.    *)
LEMMA MailRetried ==
    ASSUME NEW g \in Seq(Msg), NEW h \in Seq(Msg), NEW q \in Seq(Msg), NEW r, NEW c,
           Mail(g, h, q, r, c), h # <<>>
    PROVE  /\ Mail(g, Tail(h), q, r, c)
           /\ Mail(g, Append(Tail(h), Head(h)), q, r, c)
           /\ Mail(g, Tail(h), Append(q, Head(h)), r, c)
<1>1. /\ Head(h) \in Msg /\ Tail(h) \in Seq(Msg) /\ (In(h, c) <=> Notice(Head(h), c) \/ In(Tail(h), c))
      /\ Uniq(h, c) => Uniq(Tail(h), c) /\ (Notice(Head(h), c) => ~In(Tail(h), c))
  BY NoticeTail, TailFacts
<1>2. /\ In(Append(Tail(h), Head(h)), c) <=> In(Tail(h), c) \/ Notice(Head(h), c)
      /\ Uniq(Tail(h), c) /\ (Notice(Head(h), c) => ~In(Tail(h), c)) => Uniq(Append(Tail(h), Head(h)), c)
      /\ In(Append(q, Head(h)), c) <=> In(q, c) \/ Notice(Head(h), c)
      /\ Uniq(q, c) /\ (Notice(Head(h), c) => ~In(q, c)) => Uniq(Append(q, Head(h)), c)
  BY <1>1, NoticeAppend
<1>3. QED
  BY <1>1, <1>2 DEF Mail, Lone, Somewhere

(* The program has read the first of the queue.                            *)
LEMMA MailRead ==
    ASSUME NEW g \in Seq(Msg), NEW h \in Seq(Msg), NEW q \in Seq(Msg), NEW r, NEW s, NEW c,
           Mail(g, h, q, r, c), q # <<>>, Over(r) => Over(s),
           \/ ~Notice(Head(q), c) /\ s.prog # "told"
           \/ ~Notice(Head(q), c) /\ s.prog = r.prog
           \/ Notice(Head(q), c) /\ s.prog = "told"
    PROVE  Mail(g, h, Tail(q), s, c)
<1>1. /\ In(q, c) <=> Notice(Head(q), c) \/ In(Tail(q), c)
      /\ Uniq(q, c) => Uniq(Tail(q), c) /\ (Notice(Head(q), c) => ~In(Tail(q), c))
  BY NoticeTail
<1>2. QED
  BY <1>1 DEF Mail, Lone, Somewhere

(* The queue goes, or all that is held does.                               *)
LEMMA MailLess ==
    ASSUME NEW g, NEW h, NEW q, NEW r, NEW c, Mail(g, h, q, r, c)
    PROVE  Mail(g, h, <<>>, r, c) /\ Mail(g, <<>>, q, r, c)
BY NoticeNone DEF Mail, Lone, Somewhere
-----------------------------------------------------------------------------
(* The connections after a step.                                           *)

Kept ==
    /\ conn' \in [Conn -> Record] /\ Limit' /\ Conns'
    /\ \A c \in Conn : conn'[c].prog = conn[c].prog /\ (Over(conn[c]) => Over(conn'[c]))

(* No connection has moved.                                                *)
LEMMA ConnSame == ASSUME Types, Limit, Conns, UNCHANGED <<conn, rt>> PROVE Kept
BY DEF Kept, Types, Limit, Conns, Counted

(* Fewer connections are still within the limit.                           *)
LEMMA CountedLess == ASSUME Limit, rt' = rt, Counted' \subseteq Counted, Types PROVE Limit'
<1>1. IsFiniteSet(Counted') /\ Cardinality(Counted') <= Cardinality(Counted)
  BY FS_Subset DEF Limit
<1>2. Cardinality(Counted) \in Nat /\ Cardinality(Counted') \in Nat /\ rt.maxConns \in Nat
  BY <1>1, FS_CardinalityType, Kinds DEF Limit
<1>3. QED
  BY <1>1, <1>2 DEF Limit

(* One connection has moved: the others, the limit and what is over stay.  *)
LEMMA ConnBecame ==
    ASSUME Types, Limit, Conns, NEW c \in Conn, NEW r \in Record, Became(c, r), rt' = rt
    PROVE  Kept /\ conn'[c] = r
<1>1. conn \in [Conn -> Record] /\ conn' = [conn EXCEPT ![c] = r]
  BY DEF Types, Became
<1>2. conn' \in [Conn -> Record] /\ conn'[c] = r /\ \A d \in Conn : d # c => conn'[d] = conn[d]
  BY <1>1
<1>3. Conns'
  BY <1>2 DEF Conns, Became
<1>4. Limit'
  <2>1. CASE r.st \in Uncounted \/ conn[c].st \notin Uncounted
    <3>1. Counted' \subseteq Counted
      BY <1>2, <2>1 DEF Counted, Uncounted
    <3>2. QED
      BY <3>1, CountedLess
  <2>2. CASE Cardinality(Counted) < rt.maxConns
    <3>1. Counted' \subseteq Counted \cup {c}
      BY <1>2 DEF Counted
    <3>2. /\ IsFiniteSet(Counted \cup {c}) /\ Cardinality(Counted) \in Nat
          /\ Cardinality(Counted \cup {c}) \in {Cardinality(Counted), Cardinality(Counted) + 1}
      BY FS_AddElement, FS_CardinalityType DEF Limit
    <3>3. IsFiniteSet(Counted') /\ Cardinality(Counted') <= Cardinality(Counted \cup {c}) /\ Cardinality(Counted') \in Nat
      BY <3>1, <3>2, FS_Subset, FS_CardinalityType
    <3>4. rt'.maxConns = rt.maxConns /\ rt.maxConns \in Nat
      BY Kinds
    <3>5. QED
      BY <2>2, <3>2, <3>3, <3>4 DEF Limit
  <2>3. QED
    BY <2>1, <2>2 DEF Became
<1>5. \A d \in Conn : conn'[d].prog = conn[d].prog /\ (Over(conn[d]) => Over(conn'[d]))
  BY <1>2 DEF Became
<1>6. QED
  BY <1>2, <1>3, <1>4, <1>5 DEF Kept

(* The host, or the program, answers c.                                    *)
LEMMA AnswerBecame ==
    ASSUME Types, Conns, NEW c \in Conn, NEW o \in Outcome, Goes(c, Answered(c, o))
    PROVE  Became(c, Answered(c, o)) /\ Answered(c, o) \in Record
<1> DEFINE r == Answered(c, o)
<1>1. /\ r \in Record /\ r.prog = conn[c].prog /\ Sound(r, rt.kind)
      /\ Over(conn[c]) => Over(r)
      /\ conn[c].st \in Uncounted => r.st \in Uncounted
  BY AnswerSound
<1> HIDE DEF r
<1>2. QED
  BY <1>1 DEF Became, Goes, r

(* A request is refused on the program's behalf.                           *)
LEMMA RefuseKeeps ==
    ASSUME Types, Limit, Conns, NEW c \in Conn, Goes(c, Answered(c, "whole")), rt' = rt
    PROVE  Kept
BY AnswerBecame, ConnBecame DEF Outcome
-----------------------------------------------------------------------------
(* The loop: a pass over what is held is over before it looks for more, and*)
(* while the queue exists such a pass puts nothing back.                   *)
Looped ==
    /\ pc # "held" => left = 0
    /\ root # "booting" /\ pc = "held" => left = Len(held)
    /\ root # "booting" /\ pc \in {"orders", "wait", "more"} => held = <<>>

Ordered == Order(ingress, Ms(held), left, queue, clock)
Mailed  == \A c \in Conn : Mail(ingress, Ms(held), queue, conn[c], c)

IInv == Types /\ Limit /\ Conns /\ Looped /\ Ordered /\ Mailed

(* It holds when the loop starts.                                          *)
LEMMA InitHolds == ASSUME Init PROVE IInv
<1>1. \A c \in Conn : conn[c] = Idle
  BY DEF Init, ListenInit
<1>2. Idle \in Record
  <2>1. <<>> \in Seq(Outcome)
    OBVIOUS
  <2>2. QED
    BY <2>1 DEF Idle, Record, Stage
<1>3. Types
  BY <1>2, ServeAssumption DEF Init, ListenInit, Types
<1>4. Limit
  <2>1. Counted = {}
    BY <1>1 DEF Counted, Idle
  <2>2. QED
    BY <1>3, <2>1, FS_EmptySet, Kinds DEF Limit
<1>5. Conns
  BY <1>1 DEF Conns, Sound, ThreadedSound, PolledSound, Idle
<1>6. Looped
  BY DEF Looped, Init
<1>7. Ms(<<>>) = <<>>
  BY NoMessages
<1>8. Ordered
  BY <1>7 DEF Init, ListenInit, Ordered, Order, Rises, Earlier, Before, Rotated
<1>9. Mailed
  <2>1. \A c \in Conn : conn[c].prog = "new"
    BY <1>1 DEF Idle
  <2>2. QED
    BY <1>7, <2>1, NoticeNone DEF Init, ListenInit, Mailed, Mail, Lone, Somewhere
<1>10. QED
  BY <1>3, <1>4, <1>5, <1>6, <1>8, <1>9 DEF IInv

(* A step that moves no message.                                           *)
LEMMA NothingMoves ==
    ASSUME IInv, Kept, UNCHANGED <<ingress, clock, queue>>, Ms(held') = Ms(held),
           left' = left \/ (left = 0 /\ left' = Len(held))
    PROVE  Ordered' /\ Mailed'
<1>1. /\ ingress \in Seq(Msg) /\ Ms(held) \in Seq(Msg) /\ queue \in Seq(Msg) /\ left \in Nat /\ clock \in Nat
      /\ Len(Ms(held)) = Len(held)
  BY Messages DEF IInv, Types
<1>2. Order(ingress, Ms(held), left', queue, clock)
  BY <1>1, OrderLess DEF IInv, Ordered
<1>3. \A c \in Conn : Mail(ingress, Ms(held), queue, conn'[c], c)
  BY <1>1, MailArrives DEF IInv, Mailed, Kept
<1>4. QED
  BY <1>2, <1>3 DEF Ordered, Mailed

(* What a connection does, or is answered.                                 *)
LEMMA Spoken ==
    ASSUME IInv, NEW c \in Conn, NEW r \in Record, Became(c, r), Says(c, r), rt' = rt, UNCHANGED <<held, left, queue>>
    PROVE  Kept /\ Ordered' /\ Mailed' /\ ingress' \in Seq(Msg) /\ clock' \in Nat
<1>1. Kept /\ conn'[c] = r
  BY ConnBecame DEF IInv
<1>2. /\ ingress \in Seq(Msg) /\ Ms(held) \in Seq(Msg) /\ queue \in Seq(Msg) /\ left \in Nat /\ clock \in Nat
  BY Messages DEF IInv, Types
<1>3. CASE Quiet
  <2>1. Ordered' /\ Mailed'
    BY <1>1, <1>3, NothingMoves DEF Quiet
  <2>2. QED
    BY <1>1, <1>2, <1>3, <2>1 DEF Quiet
<1>4. ASSUME NEW what \in {"request", "closed"}, Arrives(c, what), what = "closed" => ~Over(conn[c]) /\ Over(r)
      PROVE  Ordered' /\ Mailed' /\ ingress' \in Seq(Msg) /\ clock' \in Nat
  <2> DEFINE m == [conn |-> c, what |-> what, at |-> clock]
  <2>1. m \in Msg /\ m.at = clock /\ m.conn = c /\ m.what = what
    BY <1>2 DEF Msg
  <2>2. ingress' = Append(ingress, m) /\ clock' = clock + 1
    BY <1>4 DEF Arrives
  <2> HIDE DEF m
  <2>3. Order(ingress', Ms(held), left, queue, clock')
    BY <1>2, <2>1, <2>2, OrderArrives DEF IInv, Ordered
  <2>4. ASSUME NEW d \in Conn PROVE Mail(ingress', Ms(held), queue, conn'[d], d)
    <3>1. Mail(ingress, Ms(held), queue, conn[d], d) /\ conn'[d].prog = conn[d].prog /\ (Over(conn[d]) => Over(conn'[d]))
      BY <1>1 DEF IInv, Mailed, Kept
    <3>2. Notice(m, d) => ~Over(conn[d]) /\ Over(conn'[d])
      BY <1>1, <1>4, <2>1 DEF Notice
    <3>3. QED
      BY <1>2, <2>1, <2>2, <3>1, <3>2, MailArrives
  <2>5. ingress' \in Seq(Msg) /\ clock' \in Nat
    BY <1>2, <2>1, <2>2, AppendFacts
  <2>6. QED
    BY <2>3, <2>4, <2>5 DEF Ordered, Mailed
<1>5. QED
  BY <1>1, <1>3, <1>4 DEF Says

(* Steps of the program, of the loop and of time that move no message.     *)
LEMMA StillSteps ==
    ASSUME IInv, rt' = rt,
           \/ Declare \/ (\E c \in Conn, o \in Outcome : Reply(c, o))
           \/ StepDone \/ Pumped \/ Retried \/ Orders \/ Waited
    PROVE  IInv'
<1>1. /\ UNCHANGED <<conn, rt, ingress, clock, queue, held>>
      /\ left' = left \/ (left = 0 /\ left' = Len(held))
      /\ Looped'
  BY DEF IInv, Looped, Declare, Reply, InStep, StepDone, Pumped, Retried, Orders, Waited, Goto, loopVars, rootVars, connVars
<1>2. Kept
  BY <1>1, ConnSame DEF IInv
<1>3. Ordered' /\ Mailed'
  BY <1>1, <1>2, NothingMoves
<1>4. replies' \in Seq(Conn \X Outcome)
  <2>1. ASSUME NEW c \in Conn, NEW o \in Outcome, Reply(c, o) PROVE replies' \in Seq(Conn \X Outcome)
    BY <2>1 DEF IInv, Types, Reply
  <2>2. ASSUME Declare \/ StepDone \/ Pumped \/ Retried \/ Orders \/ Waited PROVE replies' = replies
    BY <2>2 DEF Declare, StepDone, Pumped, Retried, Orders, Waited, rootVars
  <2>3. QED
    BY <2>1, <2>2 DEF IInv, Types
<1>5. /\ root' \in {"booting", "serving", "gone"}
      /\ pc' \in {"step", "replies", "held", "orders", "wait", "more", "down"}
  BY DEF IInv, Types, Declare, Reply, InStep, StepDone, Pumped, Retried, Orders, Waited, Goto, loopVars, rootVars
<1>6. left' \in Nat /\ left' <= Len(held')
  BY <1>1, LenProperties DEF IInv, Types
<1>7. Types'
  BY <1>1, <1>4, <1>5, <1>6 DEF IInv, Types
<1>8. QED
  BY <1>1, <1>2, <1>3, <1>7 DEF IInv, Kept

(* The grace of a held request runs out.                                   *)
LEMMA GraceStep == ASSUME IInv, rt' = rt, NEW i \in DOMAIN held, GraceOver(i) PROVE IInv'
<1>1. /\ UNCHANGED <<conn, rt, ingress, clock, queue, left, root, pc, replies>>
      /\ held' = [held EXCEPT ![i].due = TRUE]
  BY DEF GraceOver, rootVars, connVars
<1>2. held \in Seq(Held) /\ Len(held) \in Nat /\ DOMAIN held = 1..Len(held) /\ \A j \in 1..Len(held) : held[j] \in Held
  BY LenProperties DEF IInv, Types
<1>3. held' \in Seq(Held) /\ Len(held') = Len(held) /\ \A j \in 1..Len(held) : held'[j].m = held[j].m
  <2>1. [held[i] EXCEPT !.due = TRUE] \in Held /\ [held[i] EXCEPT !.due = TRUE].m = held[i].m
    BY <1>2 DEF Held
  <2>2. held' \in [1..Len(held) -> Held]
    BY <1>1, <1>2, <2>1
  <2>3. \A j \in 1..Len(held) : held'[j].m = held[j].m
    BY <1>1, <1>2, <2>1
  <2>4. QED
    BY <1>2, <2>2, <2>3
<1>4. Ms(held') = Ms(held)
  BY <1>3 DEF Ms
<1>5. Kept
  BY <1>1, ConnSame DEF IInv
<1>6. Ordered' /\ Mailed'
  BY <1>1, <1>4, <1>5, NothingMoves
<1>7. Types'
  BY <1>1, <1>3 DEF IInv, Types
<1>8. Looped'
  <2>1. held = <<>> => held' = <<>>
    BY <1>2, <1>3, EmptySeq
  <2>2. QED
    BY <1>1, <1>3, <2>1 DEF IInv, Looped
<1>9. QED
  BY <1>5, <1>6, <1>7, <1>8 DEF IInv, Kept

(* A connection moves of itself.                                           *)
LEMMA ConnectionStep ==
    ASSUME IInv, rt' = rt, Connections(pc \in {"wait", "more"}), UNCHANGED <<loopVars, rootVars, down>>
    PROVE  IInv'
<1>1. PICK c \in Conn : \/ rt.kind = "threaded" /\ (Accept(c) \/ Thread(c))
                        \/ rt.kind = "polled" /\ (PollAccept(c) \/ Poll(c))
  BY DEF Connections
<1>2. \E r \in Record : Became(c, r) /\ Says(c, r)
  BY <1>1, ThreadStep, PollStep DEF IInv
<1>3. Kept /\ Ordered' /\ Mailed' /\ ingress' \in Seq(Msg) /\ clock' \in Nat
  BY <1>2, Spoken DEF loopVars, rootVars
<1>4. Types' /\ Looped'
  BY <1>3 DEF IInv, Types, Looped, Kept, loopVars, rootVars
<1>5. QED
  BY <1>3, <1>4 DEF IInv, Kept

(* A reply of the program is pumped to the connection it names.            *)
LEMMA PumpReplyStep == ASSUME IInv, rt' = rt, PumpReply PROVE IInv'
<1> DEFINE c == Head(replies)[1]
           o == Head(replies)[2]
<1>1. /\ replies \in Seq(Conn \X Outcome) /\ replies # <<>> /\ replies' = Tail(replies)
      /\ UNCHANGED <<pc, left, held, root, queue>>
  BY DEF PumpReply, IInv, Types, loopVars
<1>2. Head(replies) \in Conn \X Outcome /\ Tail(replies) \in Seq(Conn \X Outcome)
  BY <1>1, HeadTailProperties
<1>3. c \in Conn /\ o \in Outcome /\ Goes(c, Answered(c, o)) /\ (Quiet \/ (Overflows(c, o) /\ Arrives(c, "closed")))
  BY <1>2 DEF PumpReply, Answer
<1> HIDE DEF c, o
<1>4. Became(c, Answered(c, o)) /\ Answered(c, o) \in Record
  BY <1>3, AnswerBecame DEF IInv
<1>5. Overflows(c, o) => ~Over(conn[c]) /\ Over(Answered(c, o))
  BY <1>3, AnswerSound DEF IInv
<1>6. Says(c, Answered(c, o))
  BY <1>3, <1>5 DEF Says
<1>7. Kept /\ Ordered' /\ Mailed' /\ ingress' \in Seq(Msg) /\ clock' \in Nat
  BY <1>1, <1>3, <1>4, <1>6, Spoken
<1>8. Types' /\ Looped'
  BY <1>1, <1>2, <1>7 DEF IInv, Types, Looped, Kept
<1>9. QED
  BY <1>7, <1>8 DEF IInv, Kept

(* The program reads the oldest message of its queue.                      *)
LEMMA PopStep == ASSUME IInv, rt' = rt, Pop PROVE IInv'
<1> DEFINE m == Head(queue)
           c == m.conn
           p == IF m.what = "closed" THEN "told" ELSE "asked"
           r == [conn[c] EXCEPT !.prog = p]
<1>1. /\ queue \in Seq(Msg) /\ queue # <<>> /\ ingress \in Seq(Msg) /\ Ms(held) \in Seq(Msg)
      /\ left \in Nat /\ clock \in Nat
  BY Messages DEF Pop, IInv, Types
<1>2. /\ UNCHANGED <<pc, left, held, root, replies, ingress, clock>> /\ queue' = Tail(queue)
      /\ conn' = [conn EXCEPT ![c] = r]
  BY DEF Pop, Goes, loopVars
<1>3. m \in Msg /\ Tail(queue) \in Seq(Msg) /\ Len(Tail(queue)) = Len(queue) - 1 /\ Len(queue) \in Nat
  BY <1>1, TailFacts
<1>4. c \in Conn /\ conn[c] \in Record /\ Sound(conn[c], rt.kind) /\ p \in {"told", "asked"}
  BY <1>3 DEF Msg, IInv, Types, Conns
<1>5. /\ r \in Record /\ r.st = conn[c].st /\ r.reg = conn[c].reg /\ r.owed = conn[c].owed /\ r.resp = conn[c].resp
      /\ r.prog = p
  <2> HIDE DEF c, p
  <2>1. QED
    BY <1>4 DEF Record
<1>6. p = "told" <=> m.what = "closed"
  OBVIOUS
<1>7. Notice(m, c) <=> m.what = "closed"
  BY DEF Notice
<1>8. \A d \in Conn : d # c => ~Notice(m, d)
  BY DEF Notice
<1> HIDE DEF r, p, c, m
<1>9. Sound(r, rt.kind) /\ (Over(conn[c]) => Over(r))
  BY <1>4, <1>5 DEF Sound, ThreadedSound, PolledSound, Over
<1>10. conn' \in [Conn -> Record] /\ conn'[c] = r /\ \A d \in Conn : d # c => conn'[d] = conn[d]
  BY <1>2, <1>4, <1>5 DEF IInv, Types
<1>11. Conns'
  BY <1>9, <1>10 DEF IInv, Conns
<1>12. Limit'
  <2>1. Counted' \subseteq Counted
    BY <1>5, <1>10 DEF Counted
  <2>2. QED
    BY <2>1, CountedLess DEF IInv
<1>13. Order(ingress, Ms(held), left, Tail(queue), clock)
  BY <1>1, OrderLess DEF IInv, Ordered
<1>14. ASSUME NEW d \in Conn PROVE Mail(ingress, Ms(held), Tail(queue), conn'[d], d)
  <2>1. Mail(ingress, Ms(held), queue, conn[d], d)
    BY DEF IInv, Mailed
  <2>2. CASE d = c
    <3>1. \/ ~Notice(m, d) /\ conn'[d].prog # "told"
          \/ Notice(m, d) /\ conn'[d].prog = "told"
      BY <1>5, <1>6, <1>7, <1>10, <2>2
    <3>2. QED
      BY <1>1, <1>9, <1>10, <2>1, <2>2, <3>1, MailRead DEF m
  <2>3. CASE d # c
    BY <1>1, <1>8, <1>10, <2>1, <2>3, MailRead DEF m
  <2>4. QED
    BY <2>2, <2>3
<1>15. Types' /\ Looped'
  BY <1>2, <1>3, <1>10, ServeAssumption DEF IInv, Types, Looped
<1>16. Ordered' /\ Mailed'
  BY <1>2, <1>13, <1>14 DEF Ordered, Mailed
<1>17. QED
  BY <1>11, <1>12, <1>15, <1>16 DEF IInv

(* The program ends.                                                       *)
LEMMA ExitStep == ASSUME IInv, rt' = rt, Exit PROVE IInv'
<1>1. /\ UNCHANGED <<conn, ingress, clock, pc, left, held>> /\ pc = "step"
      /\ queue' = <<>> /\ replies' = <<>> /\ root' = "gone"
  BY DEF Exit, InStep, loopVars, connVars
<1>2. Kept
  BY <1>1, ConnSame DEF IInv
<1>3. /\ ingress \in Seq(Msg) /\ Ms(held) \in Seq(Msg) /\ queue \in Seq(Msg) /\ left \in Nat /\ clock \in Nat
  BY Messages DEF IInv, Types
<1>4. Order(ingress, Ms(held), left, <<>>, clock)
  BY <1>3, OrderLess DEF IInv, Ordered
<1>5. \A c \in Conn : Mail(ingress, Ms(held), <<>>, conn[c], c)
  BY MailLess DEF IInv, Mailed
<1>6. Ordered' /\ Mailed'
  BY <1>1, <1>4, <1>5 DEF Ordered, Mailed
<1>7. Types'
  <2>1. Len(<<>>) <= QueueCap
    BY ServeAssumption
  <2>2. QED
    BY <1>1, <2>1 DEF IInv, Types
<1>8. Looped'
  BY <1>1 DEF IInv, Looped
<1>9. QED
  BY <1>2, <1>6, <1>7, <1>8 DEF IInv, Kept
-----------------------------------------------------------------------------
(* What is put on the queue is the oldest there is, and younger than all   *)
(* that is on it: the step InOrder speaks of.                              *)
Landing ==
    Len(queue') > Len(queue) =>
         /\ \A i \in DOMAIN held' : held'[i].m.at > queue'[Len(queue')].at
         /\ \A i \in DOMAIN ingress' : ingress'[i].at > queue'[Len(queue')].at
         /\ \A i \in DOMAIN queue : queue[i].at < queue'[Len(queue')].at

(* A message older than all that is left behind, younger than the queue's. *)
LEMMA Lands ==
    ASSUME NEW m \in Msg, queue \in Seq(Msg), ingress' \in Seq(Msg), held' \in Seq(Held), queue' = Append(queue, m),
           \A i \in 1..Len(held') : m.at < Ms(held')[i].at,
           \A i \in 1..Len(ingress') : m.at < ingress'[i].at,
           \A i \in 1..Len(queue) : queue[i].at < m.at
    PROVE  Landing
<1>1. queue'[Len(queue')] = m
  BY AppendFacts
<1>2. DOMAIN queue = 1..Len(queue) /\ DOMAIN ingress' = 1..Len(ingress') /\ DOMAIN held' = 1..Len(held')
  BY LenProperties
<1>3. \A i \in 1..Len(held') : Ms(held')[i] = held'[i].m
  BY Messages
<1>4. m.at \in Nat /\ (\A i \in 1..Len(ingress') : ingress'[i].at \in Nat)
  BY Timed DEF Msg
<1>5. \A i \in 1..Len(held') : held'[i].m.at \in Nat
  <2>1. Ms(held') \in Seq(Msg) /\ Len(Ms(held')) = Len(held')
    BY Messages
  <2>2. QED
    BY <1>3, <2>1, Timed
<1>6. \A x, y \in Nat : x < y => y > x
  OBVIOUS
<1>7. QED
  BY <1>1, <1>2, <1>3, <1>4, <1>5, <1>6 DEF Landing

(* The queue has not grown.                                                *)
LEMMA NoLanding == ASSUME queue \in Seq(Msg), UNCHANGED queue \/ queue' = <<>> \/ (queue # <<>> /\ queue' = Tail(queue)) PROVE Landing
<1>1. Len(queue) \in Nat /\ ~(Len(queue') > Len(queue))
  <2>1. Len(queue) \in Nat
    BY LenProperties
  <2>2. CASE UNCHANGED queue \/ queue' = <<>>
    BY <2>1, <2>2
  <2>3. CASE queue # <<>> /\ queue' = Tail(queue)
    BY <2>1, <2>3, TailFacts
  <2>4. QED
    BY <2>1, <2>2, <2>3
<1>2. QED
  BY <1>1 DEF Landing

(* What becomes of a message for the program that is not held any longer.  *)
LEMMA Delivered ==
    ASSUME IInv, rt' = rt, NEW m \in Msg, Deliver(m)
    PROVE  /\ Kept /\ UNCHANGED <<root, replies>>
           /\ \/ queue' = queue
              \/ root = "serving" /\ queue' = Append(queue, m) /\ Len(queue) < QueueCap /\ UNCHANGED conn
<1>1. CASE root = "serving" /\ Len(queue) < QueueCap
  BY <1>1, ConnSame DEF Deliver, IInv
<1>2. CASE ~(root = "serving" /\ Len(queue) < QueueCap)
  <2>1. m.conn \in Conn
    BY DEF Msg
  <2>2. Goes(m.conn, Answered(m.conn, "whole")) /\ UNCHANGED rootVars
    BY <1>2 DEF Deliver, Refuse
  <2>3. QED
    BY <2>1, <2>2, RefuseKeeps DEF IInv, rootVars
<1>3. QED
  BY <1>1, <1>2

(* One held request is tried again.                                        *)
LEMMA RetryStep == ASSUME IInv, rt' = rt, Retry PROVE IInv' /\ Landing
<1> DEFINE x == Head(held)
           n == left
           a == Ms(held)
<1>1. /\ ingress \in Seq(Msg) /\ a \in Seq(Msg) /\ queue \in Seq(Msg) /\ n \in Nat /\ clock \in Nat
      /\ held \in Seq(Held) /\ Len(a) = Len(held) /\ n <= Len(held) /\ Len(queue) <= QueueCap
      /\ Len(queue) \in Nat /\ Len(held) \in Nat
  BY Messages, LenProperties DEF IInv, Types
<1>2. /\ pc = "held" /\ 0 < n /\ left' = n - 1 /\ RetryOne(x) /\ UNCHANGED <<pc, ingress, clock>>
  BY <1>1 DEF Retry, Quiet
<1>3. held # <<>> /\ a # <<>>
  BY <1>1, <1>2, Messages
<1>4. /\ Tail(held) \in Seq(Held) /\ Len(Tail(held)) = Len(held) - 1 /\ x \in Held
      /\ Ms(Tail(held)) = Tail(a) /\ Head(a) = x.m
  BY <1>1, <1>3, MessagesTail
<1>5. x.m \in Msg /\ x.m.conn \in Conn
  BY <1>4 DEF Held, Msg
<1>6. /\ Order(ingress, Tail(a), n - 1, queue, clock)
      /\ Order(ingress, Append(Tail(a), Head(a)), n - 1, queue, clock)
      /\ n = Len(a) => /\ Order(ingress, Tail(a), n - 1, Append(queue, Head(a)), clock)
                       /\ \A i \in 1..Len(Tail(a)) : Head(a).at < Tail(a)[i].at
                       /\ \A i \in 1..Len(ingress) : Head(a).at < ingress[i].at
                       /\ \A i \in 1..Len(queue) : queue[i].at < Head(a).at
  BY <1>1, <1>2, <1>3, OrderRetried DEF IInv, Ordered
<1>7. ASSUME Kept, NEW c \in Conn
      PROVE  /\ Mail(ingress, Tail(a), queue, conn'[c], c)
             /\ Mail(ingress, Append(Tail(a), Head(a)), queue, conn'[c], c)
             /\ Mail(ingress, Tail(a), Append(queue, Head(a)), conn'[c], c)
  <2>1. Mail(ingress, a, queue, conn'[c], c)
    BY <1>1, <1>7, MailArrives DEF IInv, Mailed, Kept
  <2>2. QED
    BY <1>1, <1>3, <2>1, MailRetried
<1> HIDE DEF a, x, n
<1>8. \/ held' = Tail(held) /\ Kept /\ UNCHANGED <<root, replies, queue>>
      \/ held' = Tail(held) /\ Kept /\ UNCHANGED <<root, replies>> /\ root = "serving" /\ queue' = Append(queue, x.m)
         /\ Len(queue) < QueueCap
      \/ held' = Append(Tail(held), x) /\ Kept /\ UNCHANGED <<root, replies, queue>> /\ root = "booting"
  <2>1. CASE ~Reg(x) /\ held' = Tail(held) /\ UNCHANGED <<rootVars, conn>>
    BY <2>1, ConnSame DEF rootVars, IInv
  <2>2. CASE Reg(x) /\ ~Unknown /\ held' = Tail(held) /\ Deliver(x.m)
    BY <1>5, <2>2, Delivered
  <2>3. CASE Reg(x) /\ Unknown /\ x.due /\ held' = Tail(held) /\ Refuse(x.m.conn)
    BY <1>5, <2>3, RefuseKeeps DEF Refuse, rootVars, IInv
  <2>4. CASE Reg(x) /\ Unknown /\ ~x.due /\ held' = Append(Tail(held), x) /\ UNCHANGED <<rootVars, conn>>
    BY <2>4, ConnSame DEF rootVars, IInv, Unknown
  <2>5. QED
    BY <1>2, <2>1, <2>2, <2>3, <2>4 DEF RetryOne
<1>9. left' \in Nat /\ left' <= Len(held) - 1
  BY <1>1, <1>2
<1>10. CASE held' = Tail(held) /\ Kept /\ UNCHANGED <<root, replies, queue>>
  <2>1. Ms(held') = Tail(a)
    BY <1>4, <1>10
  <2>2. Ordered' /\ Mailed'
    BY <1>2, <1>6, <1>7, <1>10, <2>1 DEF Ordered, Mailed
  <2>3. Types'
    BY <1>1, <1>2, <1>4, <1>9, <1>10 DEF IInv, Types, Kept
  <2>4. Looped'
    BY <1>1, <1>2, <1>4, <1>10 DEF IInv, Looped, n
  <2>5. Landing
    BY <1>1, <1>10, NoLanding
  <2>6. QED
    BY <1>10, <2>2, <2>3, <2>4, <2>5 DEF IInv, Kept
<1>11. CASE /\ held' = Tail(held) /\ Kept /\ UNCHANGED <<root, replies>> /\ root = "serving" /\ queue' = Append(queue, x.m)
            /\ Len(queue) < QueueCap
  <2>1. Ms(held') = Tail(a) /\ n = Len(a) /\ Len(a) = Len(held)
    BY <1>1, <1>2, <1>4, <1>11 DEF IInv, Looped, n
  <2>2. queue' = Append(queue, Head(a)) /\ queue' \in Seq(Msg) /\ Len(queue') = Len(queue) + 1
    BY <1>1, <1>4, <1>5, <1>11, AppendFacts
  <2>3. Ordered' /\ Mailed'
    BY <1>2, <1>6, <1>7, <1>11, <2>1, <2>2 DEF Ordered, Mailed
  <2>4. Types'
    <3>1. Len(queue') <= QueueCap
      BY <1>1, <1>11, <2>2, ServeAssumption
    <3>2. QED
      BY <1>1, <1>2, <1>4, <1>9, <1>11, <2>2, <3>1 DEF IInv, Types, Kept
  <2>5. Looped'
    BY <1>1, <1>2, <1>4, <1>11, <2>1 DEF IInv, Looped
  <2>6. Landing
    <3>1. Len(Tail(a)) = Len(held')
      BY <1>1, <1>3, <1>4, <1>11, TailFacts
    <3>2. QED
      BY <1>1, <1>2, <1>4, <1>5, <1>6, <1>11, <2>1, <2>2, <3>1, Lands
  <2>7. QED
    BY <1>11, <2>3, <2>4, <2>5, <2>6 DEF IInv, Kept
<1>12. CASE held' = Append(Tail(held), x) /\ Kept /\ UNCHANGED <<root, replies, queue>> /\ root = "booting"
  <2>1. Ms(held') = Append(Tail(a), Head(a)) /\ held' \in Seq(Held) /\ Len(held') = Len(held)
    <3>1. Len(Tail(held)) + 1 = Len(held)
      BY <1>1, <1>4
    <3>2. QED
      BY <1>4, <1>12, <3>1, MessagesAppend
  <2>2. Ordered' /\ Mailed'
    BY <1>2, <1>6, <1>7, <1>12, <2>1 DEF Ordered, Mailed
  <2>3. Types'
    BY <1>1, <1>2, <1>9, <1>12, <2>1 DEF IInv, Types, Kept
  <2>4. Looped'
    BY <1>2, <1>12 DEF IInv, Looped
  <2>5. Landing
    BY <1>1, <1>12, NoLanding
  <2>6. QED
    BY <1>12, <2>2, <2>3, <2>4, <2>5 DEF IInv, Kept
<1>13. QED
  BY <1>8, <1>10, <1>11, <1>12

(* The oldest of ingress: held, refused, or on the queue.                  *)
LEMMA AdmitStep == ASSUME IInv, rt' = rt, Admit PROVE IInv' /\ Landing
<1> DEFINE m == Head(ingress)
           t == Tail(ingress)
           a == Ms(held)
<1>1. /\ ingress \in Seq(Msg) /\ a \in Seq(Msg) /\ queue \in Seq(Msg) /\ left \in Nat /\ clock \in Nat
      /\ held \in Seq(Held) /\ Len(a) = Len(held) /\ left <= Len(held) /\ Len(queue) <= QueueCap
      /\ Len(queue) \in Nat /\ Len(held) \in Nat /\ (a = <<>> <=> held = <<>>)
  BY Messages, LenProperties DEF IInv, Types
<1>2. /\ pc \in {"wait", "more"} /\ ingress # <<>> /\ pc' = "more" /\ ingress' = t /\ UNCHANGED <<left, clock>>
      /\ IF Unknown THEN Hold(m) ELSE UNCHANGED held /\ Deliver(m)
  BY DEF Admit, Goto
<1>3. /\ left = 0 /\ (root # "booting" => held = <<>>)
  BY <1>2 DEF IInv, Looped
<1>4. m \in Msg /\ t \in Seq(Msg) /\ m.conn \in Conn
  <2>1. m \in Msg /\ t \in Seq(Msg)
    BY <1>1, <1>2, TailFacts
  <2>2. QED
    BY <2>1 DEF Msg
<1>5. /\ Order(t, a, left, queue, clock)
      /\ Order(t, Append(a, m), left, queue, clock)
      /\ a = <<>> => /\ Order(t, a, left, Append(queue, m), clock)
                     /\ Earlier(<<m>>, t) /\ Earlier(queue, <<m>>)
  BY <1>1, <1>2, <1>3, OrderTaken DEF IInv, Ordered
<1>6. ASSUME Kept, NEW c \in Conn
      PROVE  /\ Mail(t, a, queue, conn'[c], c)
             /\ Mail(t, Append(a, m), queue, conn'[c], c)
             /\ Mail(t, a, Append(queue, m), conn'[c], c)
  <2>1. Mail(ingress, a, queue, conn'[c], c)
    BY <1>1, <1>6, MailArrives DEF IInv, Mailed, Kept
  <2>2. QED
    BY <1>1, <1>2, <2>1, MailTaken
<1> HIDE DEF a, m, t
<1>7. \/ Kept /\ UNCHANGED <<root, replies, queue, held>>
      \/ Kept /\ UNCHANGED <<root, replies, held>> /\ root = "serving" /\ queue' = Append(queue, m) /\ Len(queue) < QueueCap
      \/ held' = Append(held, [m |-> m, due |-> FALSE]) /\ Kept /\ UNCHANGED <<root, replies, queue>> /\ root = "booting"
  <2>1. CASE ~Unknown
    BY <1>2, <1>4, <2>1, Delivered
  <2>2. CASE Unknown /\ rt.grace
    BY <1>2, <2>2, ConnSame DEF Hold, Unknown, rootVars, IInv
  <2>3. CASE Unknown /\ ~rt.grace
    BY <1>2, <1>4, <2>3, RefuseKeeps DEF Hold, Refuse, rootVars, IInv
  <2>4. QED
    BY <2>1, <2>2, <2>3
<1>8. CASE Kept /\ UNCHANGED <<root, replies, queue, held>>
  <2>1. Ordered' /\ Mailed'
    BY <1>2, <1>5, <1>6, <1>8 DEF Ordered, Mailed, a
  <2>2. Types' /\ Looped'
    BY <1>1, <1>2, <1>3, <1>4, <1>8 DEF IInv, Types, Looped, Kept
  <2>3. Landing
    BY <1>1, <1>8, NoLanding
  <2>4. QED
    BY <1>8, <2>1, <2>2, <2>3 DEF IInv, Kept
<1>9. CASE Kept /\ UNCHANGED <<root, replies, held>> /\ root = "serving" /\ queue' = Append(queue, m) /\ Len(queue) < QueueCap
  <2>1. a = <<>> /\ held = <<>>
    BY <1>1, <1>3, <1>9
  <2>2. queue' \in Seq(Msg) /\ Len(queue') = Len(queue) + 1
    BY <1>1, <1>4, <1>9, AppendFacts
  <2>3. Ordered' /\ Mailed'
    BY <1>2, <1>5, <1>6, <1>9, <2>1 DEF Ordered, Mailed, a
  <2>4. Types'
    <3>1. Len(queue') <= QueueCap
      BY <1>1, <1>9, <2>2, ServeAssumption
    <3>2. QED
      BY <1>1, <1>2, <1>4, <1>9, <2>2, <3>1 DEF IInv, Types, Kept
  <2>5. Looped'
    BY <1>2, <1>3, <1>9 DEF Looped
  <2>6. Landing
    <3>1. /\ \A i \in 1..Len(t) : m.at < t[i].at
          /\ \A i \in 1..Len(queue) : queue[i].at < m.at
      <4>1. Len(<<m>>) = 1 /\ <<m>>[1] = m /\ 1 \in 1..1
        OBVIOUS
      <4>2. QED
        BY <1>5, <2>1, <4>1 DEF Earlier
    <3>2. \A i \in 1..Len(held') : m.at < Ms(held')[i].at
      BY <1>9, <2>1
    <3>3. QED
      BY <1>1, <1>2, <1>4, <1>9, <3>1, <3>2, Lands
  <2>7. QED
    BY <1>9, <2>3, <2>4, <2>5, <2>6 DEF IInv, Kept
<1>10. CASE held' = Append(held, [m |-> m, due |-> FALSE]) /\ Kept /\ UNCHANGED <<root, replies, queue>> /\ root = "booting"
  <2>1. [m |-> m, due |-> FALSE] \in Held /\ [m |-> m, due |-> FALSE].m = m
    BY <1>4 DEF Held
  <2>2. Ms(held') = Append(a, m) /\ held' \in Seq(Held) /\ Len(held') = Len(held) + 1
    BY <1>1, <1>10, <2>1, MessagesAppend DEF a
  <2>3. Ordered' /\ Mailed'
    BY <1>2, <1>5, <1>6, <1>10, <2>2 DEF Ordered, Mailed
  <2>4. Types'
    BY <1>1, <1>2, <1>4, <1>10, <2>2 DEF IInv, Types, Kept
  <2>5. Looped'
    BY <1>2, <1>3, <1>10 DEF Looped
  <2>6. Landing
    BY <1>1, <1>10, NoLanding
  <2>7. QED
    BY <1>10, <2>3, <2>4, <2>5, <2>6 DEF IInv, Kept
<1>11. QED
  BY <1>7, <1>8, <1>9, <1>10

(* The end: all that is held is answered at once.                          *)
LEMMA LeaveStep == ASSUME IInv, rt' = rt, Leave PROVE IInv'
<1>1. /\ pc = "orders" /\ pc' = "down" /\ held' = <<>> /\ UNCHANGED <<left, root, queue, replies, ingress, clock>>
      /\ conn' = [c \in Conn |-> IF \E i \in DOMAIN held : held[i].m.conn = c THEN Answered(c, "whole") ELSE conn[c]]
  BY DEF Leave, Goto, Quiet, rootVars
<1>2. ASSUME NEW c \in Conn
      PROVE  /\ conn'[c] \in Record /\ conn'[c].prog = conn[c].prog /\ Sound(conn'[c], rt.kind)
             /\ Over(conn[c]) => Over(conn'[c])
             /\ conn[c].st \in Uncounted => conn'[c].st \in Uncounted
  <2>1. conn'[c] = Answered(c, "whole") \/ conn'[c] = conn[c]
    BY <1>1
  <2>2. CASE conn'[c] = Answered(c, "whole")
    BY <2>2, AnswerSound DEF Outcome, IInv
  <2>3. CASE conn'[c] = conn[c]
    BY <2>3 DEF IInv, Types, Conns
  <2>4. QED
    BY <2>1, <2>2, <2>3
<1>3. Limit'
  <2>1. Counted' \subseteq Counted
    BY <1>2 DEF Counted, Uncounted
  <2>2. QED
    BY <2>1, CountedLess DEF IInv
<1>4. conn' \in [Conn -> Record]
  <2>1. DOMAIN conn' = Conn /\ conn' = [c \in Conn |-> conn'[c]]
    BY <1>1
  <2>2. QED
    BY <1>2, <2>1
<1>5. Conns'
  BY <1>2 DEF Conns
<1>6. left = 0 /\ Ms(held') = <<>>
  BY <1>1, NoMessages DEF IInv, Looped
<1>7. /\ ingress \in Seq(Msg) /\ Ms(held) \in Seq(Msg) /\ queue \in Seq(Msg) /\ clock \in Nat
  BY Messages DEF IInv, Types
<1>8. Order(ingress, <<>>, left, queue, clock)
  BY <1>6, <1>7, OrderLess DEF IInv, Ordered
<1>9. ASSUME NEW c \in Conn PROVE Mail(ingress, <<>>, queue, conn'[c], c)
  <2>1. Mail(ingress, <<>>, queue, conn[c], c)
    BY MailLess DEF IInv, Mailed
  <2>2. QED
    BY <1>2, <1>7, <2>1, MailArrives
<1>10. Ordered' /\ Mailed'
  BY <1>1, <1>6, <1>8, <1>9 DEF Ordered, Mailed
<1>11. Types'
  <2>1. left' \in Nat /\ left' <= Len(held')
    BY <1>1, <1>6
  <2>2. QED
    BY <1>1, <1>4, <2>1 DEF IInv, Types
<1>12. Looped'
  BY <1>1, <1>6 DEF Looped
<1>13. QED
  BY <1>3, <1>5, <1>10, <1>11, <1>12 DEF IInv
-----------------------------------------------------------------------------
(* Every step keeps the invariant, and puts only the oldest on the queue.  *)
LEMMA StepHolds == ASSUME IInv, [Next]_vars PROVE IInv' /\ [Landing]_vars
<1>1. queue \in Seq(Msg)
  BY DEF IInv, Types
<1>2. CASE Next
  <2>1. rt' = rt
    BY <1>2 DEF Next
  <2>2. CASE Declare \/ (\E c \in Conn, o \in Outcome : Reply(c, o))
    <3>1. UNCHANGED queue
      BY <2>2 DEF Declare, Reply
    <3>2. QED
      BY <1>1, <2>1, <2>2, <3>1, StillSteps, NoLanding
  <2>3. CASE StepDone \/ Pumped \/ Retried \/ Orders \/ Waited
    <3>1. UNCHANGED queue
      BY <2>3 DEF StepDone, Pumped, Retried, Orders, Waited, rootVars
    <3>2. QED
      BY <1>1, <2>1, <2>3, <3>1, StillSteps, NoLanding
  <2>4. CASE Pop
    <3>1. queue # <<>> /\ queue' = Tail(queue)
      BY <2>4 DEF Pop
    <3>2. QED
      BY <1>1, <2>1, <2>4, <3>1, PopStep, NoLanding
  <2>5. CASE Exit
    <3>1. queue' = <<>>
      BY <2>5 DEF Exit
    <3>2. QED
      BY <1>1, <2>1, <2>5, <3>1, ExitStep, NoLanding
  <2>6. CASE PumpReply
    <3>1. UNCHANGED queue
      BY <2>6 DEF PumpReply
    <3>2. QED
      BY <1>1, <2>1, <2>6, <3>1, PumpReplyStep, NoLanding
  <2>7. CASE Leave
    <3>1. UNCHANGED queue
      BY <2>7 DEF Leave, rootVars
    <3>2. QED
      BY <1>1, <2>1, <2>7, <3>1, LeaveStep, NoLanding
  <2>8. CASE Retry
    BY <2>1, <2>8, RetryStep
  <2>9. CASE Admit
    BY <2>1, <2>9, AdmitStep
  <2>10. CASE \E i \in DOMAIN held : GraceOver(i)
    <3>1. UNCHANGED queue
      BY <2>10 DEF GraceOver, rootVars
    <3>2. QED
      BY <1>1, <2>1, <2>10, <3>1, GraceStep, NoLanding
  <2>11. CASE Connections(pc \in {"wait", "more"}) /\ UNCHANGED <<loopVars, rootVars, down>>
    <3>1. UNCHANGED queue
      BY <2>11 DEF rootVars
    <3>2. QED
      BY <1>1, <2>1, <2>11, <3>1, ConnectionStep, NoLanding
  <2>12. QED
    BY <1>2, <2>2, <2>3, <2>4, <2>5, <2>6, <2>7, <2>8, <2>9, <2>10, <2>11 DEF Next, Program, Loop
<1>3. CASE UNCHANGED vars
  <2>1. UNCHANGED <<pc, left, held, root, queue, replies, conn, ingress, clock, rt>>
    BY <1>3 DEF vars, loopVars, rootVars, connVars
  <2>2. Kept
    BY <2>1, ConnSame DEF IInv
  <2>3. Ordered' /\ Mailed'
    BY <2>1, <2>2, NothingMoves
  <2>4. Types' /\ Looped'
    BY <2>1 DEF IInv, Types, Looped
  <2>5. QED
    BY <1>3, <2>2, <2>3, <2>4 DEF IInv, Kept
<1>4. QED
  BY <1>2, <1>3

(* The inductive invariant holds of every behaviour of the loop and its    *)
(* listener, threaded or polled, whatever the backlog and the limits.      *)
THEOREM ServeInvariance == Spec => []IInv
<1>1. IInv /\ [Next]_vars => IInv'
  BY StepHolds
<1>2. QED
  BY <1>1, InitHolds, PTL DEF Spec

(* Types hold, and with them two limits of the code: no more connections   *)
(* are served than max_conns, and the queue never exceeds its cap.         *)
THEOREM ServeTypes == Spec => []TypeOK
<1>1. IInv => TypeOK
  <2>1. ASSUME IInv PROVE left \in 0..Len(held)
    BY <2>1, LenProperties DEF IInv, Types
  <2>2. QED
    BY <2>1 DEF IInv, Types, Limit, TypeOK
<1>2. QED
  BY <1>1, ServeInvariance, PTL

(* Every connection is written one response, whatever the program, the     *)
(* deadlines and the host send it, and the token of one that is over names *)
(* nobody (serve_conn, Bound::poll, Acceptor::answer).                     *)
THEOREM OneResponseAlways == Spec => []OneResponse
<1>1. IInv => OneResponse
  <2>1. SUFFICES ASSUME IInv, NEW c \in Conn PROVE conn[c].resp # "garbled" /\ (conn[c].st = "done" => ~conn[c].reg)
    BY DEF OneResponse
  <2>2. Sound(conn[c], rt.kind) /\ rt.kind \in {"threaded", "polled"}
    BY <2>1, Kinds DEF IInv, Conns
  <2>3. QED
    BY <2>2 DEF Sound, ThreadedSound, PolledSound
<1>2. QED
  BY <1>1, ServeInvariance, PTL

(* The program is told at most once that a stream was closed, never of one *)
(* that was written whole, and by then the token is dropped                *)
(* ("Deregister before telling the program").                              *)
THEOREM NoticesTrue == Spec => []NoticeTrue
<1>1. IInv => NoticeTrue
  <2>1. SUFFICES ASSUME IInv, NEW c \in Conn, Notices(c) # {}
                 PROVE  (\A x, y \in Notices(c) : x = y) /\ ~conn[c].reg /\ conn[c].resp \in {"none", "open"}
    BY DEF NoticeTrue
  <2> DEFINE h == Ms(held)
  <2>2. Mail(ingress, h, queue, conn[c], c)
    BY <2>1 DEF IInv, Mailed
  <2>3. /\ DOMAIN ingress = 1..Len(ingress) /\ DOMAIN queue = 1..Len(queue) /\ DOMAIN held = 1..Len(held)
        /\ Len(h) = Len(held) /\ \A i \in 1..Len(held) : h[i] = held[i].m
    BY <2>1, LenProperties, Messages DEF IInv, Types
  <2> HIDE DEF h
  <2>4. ASSUME NEW x \in Notices(c)
        PROVE  \/ \E i \in 1..Len(ingress) : x = <<"ingress", i>> /\ Notice(ingress[i], c)
               \/ \E i \in 1..Len(held) : x = <<"held", i>> /\ Notice(h[i], c)
               \/ \E i \in 1..Len(queue) : x = <<"queue", i>> /\ Notice(queue[i], c)
               \/ x = <<"read", 0>> /\ conn[c].prog = "told"
    BY <2>3, <2>4 DEF Notices
  <2>5. /\ Somewhere(ingress, h, queue, conn[c].prog, c)
        /\ \A x, y \in Notices(c) : x = y
    BY <2>1, <2>2, <2>3, <2>4 DEF Mail, Lone, Somewhere, In, Uniq
  <2>6. QED
    BY <2>2, <2>5 DEF Mail, Over
<1>2. QED
  BY <1>1, ServeInvariance, PTL

(* Requests and notices reach the program's queue in the order they came   *)
(* in, held for a while or not (retry_held, "Oldest first, and every       *)
(* pass").                                                                 *)
THEOREM RequestsInOrder == Spec => InOrder
<1>1. IInv /\ [Next]_vars => [Landing]_vars
  BY StepHolds
<1>2. QED
  BY <1>1, ServeInvariance, PTL DEF Spec, InOrder, Landing
=============================================================================
