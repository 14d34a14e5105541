------------------------------- MODULE Listen -------------------------------
(***************************************************************************)
(* The two acceptors of an http listener (crates/drt/src/listen.rs): a     *)
(* thread for each connection on native targets, one polling pass on wasi. *)
(* Both offer the drive loop the same trait: requests out, answers in.     *)
(*                                                                         *)
(* A connection is named by its token.  What it sends is a request or is   *)
(* not one; a deadline, a client that is gone and one that stopped reading *)
(* come at any moment.  An outcome is its kind: a whole reply, the head of *)
(* a stream, one chunk of a byte, or the last chunk.                       *)
(***************************************************************************)
EXTENDS Integers, Sequences, FiniteSets

CONSTANTS Conn,            \* the connections
          STREAM_BACKLOG,  \* chunks a stream may have unwritten
          Runtimes         \* the listeners to consider (ListenerRt)

\* The acceptor that serves it, max_conns, and whether admit_timeout_ms is
\* not zero.
ListenerRt == [kind : {"threaded", "polled"}, maxConns : Nat \ {0}, grace : BOOLEAN]

ASSUME ListenAssumption == STREAM_BACKLOG \in Nat \ {0} /\ Runtimes \subseteq ListenerRt

VARIABLES rt,       \* the listener
          down,     \* the drive loop has returned
          conn,     \* connection -> its record
          ingress,  \* requests and closed notices on their way to the loop
          clock     \* arrivals on ingress so far

Outcome == {"whole", "head", "chunk", "last"}
Stage == {"idle", "reading", "known", "waiting", "late", "streaming", "ended", "closing", "telling",
          "refusing", "writing", "done"}

\* reg: a reply that names the token finds the connection.  owed: what was
\* sent to it and is not written.  resp: what the client has been written.
\* prog: what the program last read of it.
Record == [st : Stage, reg : BOOLEAN, owed : Seq(Outcome), over : BOOLEAN,
           resp : {"none", "whole", "open", "complete", "garbled"}, prog : {"new", "asked", "told"}]

Idle == [st |-> "idle", reg |-> FALSE, owed |-> <<>>, over |-> FALSE, resp |-> "none", prog |-> "new"]

\* What the client has once it is written one more outcome: a chunk that
\* comes before any head is answered as a refusal.
Written(resp, o) ==
    CASE resp = "none" /\ o = "head"  -> "open"
      [] resp = "none" /\ o # "head"  -> "whole"
      [] resp = "open" /\ o = "chunk" -> "open"
      [] resp = "open" /\ o = "last"  -> "complete"
      [] OTHER                        -> "garbled"

Chunks(s) == Cardinality({i \in DOMAIN s : s[i] = "chunk"})
Counted   == {c \in Conn : conn[c].st \notin {"idle", "refusing", "done"}}

At(c, st)  == conn[c].st = st
Goes(c, r) == conn' = [conn EXCEPT ![c] = r]
Moves(c, st) == Goes(c, [conn[c] EXCEPT !.st = st])

\* Answered, deregistered and closed.
Respond(c) == Goes(c, [conn[c] EXCEPT !.st = "done", !.reg = FALSE, !.resp = Written(@, "whole")])

Arrives(c, what) == ingress' = Append(ingress, [conn |-> c, what |-> what, at |-> clock]) /\ clock' = clock + 1
Quiet == UNCHANGED <<ingress, clock>>
-----------------------------------------------------------------------------
\* Acceptor::answer: the record of a connection after an outcome, or after a
\* whole reply by the host on the program's behalf.

\* A chunk past the backlog drops the token and shuts the socket.
ThreadedAnswer(r, o) ==
    IF o = "chunk" /\ Chunks(r.owed) >= STREAM_BACKLOG THEN [r EXCEPT !.reg = FALSE, !.over = TRUE]
    ELSE IF o \in {"head", "chunk"} THEN [r EXCEPT !.owed = Append(@, o)]
    ELSE [r EXCEPT !.owed = Append(@, o), !.reg = FALSE]

\* Here the answer is put in the connection's own buffer: a whole reply ends
\* a stream without its last chunk, and a second head is nothing.
PolledAnswer(r, o) ==
    CASE r.st = "waiting" /\ o = "head"   -> [r EXCEPT !.st = "streaming", !.owed = <<o>>]
      [] r.st = "waiting" /\ o # "head"   -> [r EXCEPT !.st = "writing", !.owed = <<"whole">>, !.reg = FALSE]
      [] r.st = "streaming" /\ o = "chunk" /\ Len(r.owed) >= STREAM_BACKLOG
                                          -> [r EXCEPT !.st = "writing", !.owed = <<>>, !.reg = FALSE]
      [] r.st = "streaming" /\ o = "chunk" /\ Len(r.owed) < STREAM_BACKLOG -> [r EXCEPT !.owed = Append(@, o)]
      [] r.st = "streaming" /\ o = "last"  -> [r EXCEPT !.owed = Append(@, o), !.reg = FALSE]
      [] r.st = "streaming" /\ o = "whole" -> [r EXCEPT !.reg = FALSE]
      [] OTHER                             -> r

\* The stream of a polled connection closed for its backlog: told at once.
Overflows(c, o) ==
    rt.kind = "polled" /\ At(c, "streaming") /\ conn[c].reg /\ o = "chunk" /\ Len(conn[c].owed) >= STREAM_BACKLOG

Answered(c, o) ==
    IF ~conn[c].reg THEN conn[c]
    ELSE IF rt.kind = "threaded" THEN ThreadedAnswer(conn[c], o) ELSE PolledAnswer(conn[c], o)

Answer(c, o) == Goes(c, Answered(c, o)) /\ IF Overflows(c, o) THEN Arrives(c, "closed") ELSE Quiet
-----------------------------------------------------------------------------
\* spawn_acceptor and serve_conn: the threads.

\* Mutant: the cap is compared after the count has been raised past it.
AcceptOver(c) ==
    /\ At(c, "idle") /\ Quiet
    /\ IF Cardinality(Counted) > rt.maxConns THEN Respond(c) ELSE Moves(c, "reading")

Accept(c) ==
    /\ At(c, "idle") /\ Quiet
    /\ IF Cardinality(Counted) >= rt.maxConns THEN Respond(c) ELSE Moves(c, "reading")

BadRequest(c) == At(c, "reading") /\ Respond(c) /\ Quiet

Register(c) == At(c, "reading") /\ Goes(c, [conn[c] EXCEPT !.st = "known", !.reg = TRUE]) /\ Quiet

Send(c) ==
    /\ At(c, "known")
    /\ IF down THEN Respond(c) /\ Quiet ELSE Moves(c, "waiting") /\ Arrives(c, "request")

\* Mutant: a chunk before any head leaves its token registered.
TakeKeepsToken(c) ==
    /\ At(c, "waiting") /\ conn[c].owed # <<>> /\ Quiet
    /\ IF Head(conn[c].owed) = "head" THEN Goes(c, [conn[c] EXCEPT !.st = "streaming", !.resp = "open", !.owed = Tail(@)])
       ELSE Goes(c, [conn[c] EXCEPT !.st = "done", !.resp = Written(@, "whole")])

\* The first outcome.  A head opens the stream, or fails to be written.
Take(c) ==
    /\ At(c, "waiting") /\ conn[c].owed # <<>> /\ Quiet
    /\ LET o == Head(conn[c].owed)
           r == [conn[c] EXCEPT !.owed = Tail(@)]
       IN  IF o # "head" THEN Respond(c)
           ELSE \/ Goes(c, [r EXCEPT !.st = "closing"])
                \/ ~r.over /\ Goes(c, [r EXCEPT !.st = "streaming", !.resp = Written(@, o)])

\* The deadline, or a channel closed for the backlog.
Late(c)   == At(c, "waiting") /\ conn[c].owed = <<>> /\ Moves(c, "late") /\ Quiet
GiveUp(c) == At(c, "late") /\ Respond(c) /\ Quiet

\* stream_body: the next outcome, written or not.
Stream(c) ==
    /\ At(c, "streaming") /\ conn[c].owed # <<>> /\ Quiet
    /\ LET o == Head(conn[c].owed)
           r == [conn[c] EXCEPT !.owed = Tail(@)]
       IN  \/ o = "head" /\ Goes(c, r)
           \/ o = "whole" /\ Goes(c, [r EXCEPT !.st = "ended"])
           \/ o \in {"chunk", "last"} /\ Goes(c, [r EXCEPT !.st = "closing"])
           \/ /\ o \in {"chunk", "last"} /\ ~r.over
              /\ Goes(c, [r EXCEPT !.resp = Written(@, o), !.st = IF o = "last" THEN "ended" ELSE @])

\* The client has gone, the stream is idle, or the channel is closed.
CutOff(c) == At(c, "streaming") /\ conn[c].owed = <<>> /\ Moves(c, "closing") /\ Quiet

\* Mutant: the program is told before the token is dropped.
TellFirst(c) ==
    \/ At(c, "ended") /\ Goes(c, [conn[c] EXCEPT !.reg = FALSE, !.st = "done"]) /\ Quiet
    \/ At(c, "closing") /\ Moves(c, "telling") /\ IF down THEN Quiet ELSE Arrives(c, "closed")

\* Deregistered first, so that a chunk in answer to the notice finds nobody.
Unregister(c) ==
    \/ At(c, "ended") /\ Goes(c, [conn[c] EXCEPT !.reg = FALSE, !.st = "done"]) /\ Quiet
    \/ At(c, "closing") /\ Goes(c, [conn[c] EXCEPT !.reg = FALSE, !.st = "telling"]) /\ Quiet
Tell(c) == At(c, "telling") /\ Moves(c, "done") /\ IF down THEN Quiet ELSE Arrives(c, "closed")

Thread(c) ==
    \/ BadRequest(c) \/ Register(c) \/ Send(c) \/ Take(c) \/ Late(c) \/ GiveUp(c)
    \/ Stream(c) \/ CutOff(c) \/ Unregister(c) \/ Tell(c)
-----------------------------------------------------------------------------
\* Bound::poll: what one pass may find to do for a connection.

ToWrite(c, owed) == Goes(c, [conn[c] EXCEPT !.st = "writing", !.reg = FALSE, !.owed = owed]) /\ Quiet

PollAccept(c) ==
    /\ At(c, "idle")
    /\ IF Cardinality(Counted) >= rt.maxConns THEN Moves(c, "refusing") ELSE Moves(c, "reading")
    /\ Quiet

PollRead(c) ==
    At(c, "reading") /\ Goes(c, [conn[c] EXCEPT !.st = "waiting", !.reg = TRUE]) /\ Arrives(c, "request")

\* A bad request, a deadline, or a read that fails.
PollRefuse(c) ==
    \/ (At(c, "reading") \/ At(c, "waiting")) /\ ToWrite(c, <<"whole">>)
    \/ At(c, "reading") /\ Moves(c, "done") /\ Quiet

\* One owed outcome; a stream the program has ended closes when all is written.
PollStream(c) ==
    /\ At(c, "streaming") /\ Quiet
    /\ \/ conn[c].owed # <<>> /\ Goes(c, [conn[c] EXCEPT !.owed = Tail(@), !.resp = Written(@, Head(conn[c].owed))])
       \/ conn[c].owed = <<>> /\ ~conn[c].reg /\ Moves(c, "done")

\* A write or a read that fails, a deadline without progress, or idleness.
PollClosed(c) ==
    /\ At(c, "streaming") /\ (conn[c].owed # <<>> \/ conn[c].reg)
    /\ Goes(c, [conn[c] EXCEPT !.st = "done", !.reg = FALSE]) /\ Arrives(c, "closed")

PollWrite(c) ==
    /\ At(c, "writing") \/ At(c, "refusing")
    /\ Quiet
    /\ \/ Moves(c, "done")
       \/ /\ At(c, "refusing") \/ conn[c].owed # <<>>
          /\ Goes(c, [conn[c] EXCEPT !.st = "done", !.owed = <<>>, !.resp = Written(@, "whole")])

Poll(c) == PollRead(c) \/ PollRefuse(c) \/ PollStream(c) \/ PollClosed(c) \/ PollWrite(c)
-----------------------------------------------------------------------------
ListenInit == rt \in Runtimes /\ down = FALSE /\ conn = [c \in Conn |-> Idle] /\ ingress = <<>> /\ clock = 0

\* The connections act by themselves, or only while the loop looks for a
\* request.
Connections(looking) ==
    \E c \in Conn :
        \/ rt.kind = "threaded" /\ (Accept(c) \/ Thread(c))
        \/ rt.kind = "polled" /\ looking /\ (PollAccept(c) \/ Poll(c))
=============================================================================
