-------------------------------- MODULE Repl --------------------------------
(***************************************************************************)
(* The REPL (crates/drt/src/repl.rs): a guest that evaluates lines, driven *)
(* by a host that reads them, and the program a :run drives in between     *)
(* (Solo in drive.rs, settled by run.rs).                                  *)
(*                                                                         *)
(* A line is its number and what it does to a chunk: whole, or it opens or *)
(* closes a block.  A chunk with a block open is unfinished.               *)
(***************************************************************************)
EXTENDS Integers, Sequences, SequencesExt

CONSTANTS MaxLines,  \* bound: lines typed
          MaxRuns    \* bound: programs run

VARIABLE repl   \* the host's half, the two queues, the guest and the run

Kind == {"whole", "open", "close"}
Line == [n : 1..MaxLines, kind : Kind]
Count(chunk, kind) == Len(SelectSeq(chunk, LAMBDA l : l.kind = kind))
Unfinished(chunk) == Count(chunk, "open") > Count(chunk, "close")

\* Solo: what its one instance waits for, and what is owed to it.
Idle == [st |-> "none", wait |-> "message", queued |-> 0, owed |-> 0, deadline |-> "none"]
AtPrompt == repl.guest = "prompt" /\ repl.inq = <<>>
-----------------------------------------------------------------------------
\* feed: the whole of what is pending, again, with the line at its end.
Feed(r, line) ==
    [r EXCEPT !.pending = Append(@, line), !.inq = Append(@, Append(r.pending, line)), !.stale = TRUE, !.host = "tick"]

\* The user (external) at the prompt: a line, an empty one, ^C.
Types(kind) ==
    /\ repl.host = "input" /\ repl.typed < MaxLines
    /\ repl' = [Feed(repl, [n |-> repl.typed + 1, kind |-> kind]) EXCEPT
                  !.typed = @ + 1, !.meant = Append(@, repl.typed + 1)]
TypesNothing == repl.host = "input" /\ ~repl.more /\ repl' = [repl EXCEPT !.host = "tick"]

\* abandon: the line, and what it continued.
Abandon ==
    /\ repl.host = "input"
    /\ repl' = [repl EXCEPT !.pending = <<>>, !.more = FALSE, !.host = "tick",
                  !.meant = SubSeq(@, 1, Len(@) - Len(repl.pending))]

\* :load, outside a continuation: a chunk of its own, that is no line.
Loads ==
    /\ repl.host = "input" /\ ~repl.more /\ repl.loads < 1
    /\ repl' = [repl EXCEPT !.inq = Append(@, <<>>), !.stale = TRUE, !.host = "tick", !.loads = @ + 1]

\* :quit, or the end of input.
Quits == repl.host = "input" /\ repl' = [repl EXCEPT !.host = "over"]
-----------------------------------------------------------------------------
\* The guest takes one message: an unfinished chunk is answered with `more',
\* another runs, and may wait for a connector before it answers.
GuestTakes ==
    /\ repl.host = "tick" /\ repl.run.st = "none" /\ repl.guest = "prompt" /\ repl.inq # <<>>
    /\ LET chunk == Head(repl.inq) IN
       IF chunk = "names"
       THEN repl' = [repl EXCEPT !.inq = Tail(@), !.outq = Append(@, "names")]
       ELSE IF Unfinished(chunk)
       THEN repl' = [repl EXCEPT !.inq = Tail(@), !.outq = Append(@, "more")]
       ELSE repl' = [repl EXCEPT !.inq = Tail(@), !.guest = "evaluates",
                       !.ran = @ \o [i \in DOMAIN chunk |-> chunk[i].n]]
GuestAnswers ==
    /\ repl.host = "tick" /\ repl.guest \in {"evaluates", "waits"}
    /\ repl' = [repl EXCEPT !.guest = "prompt", !.outq = Append(@, "done")]
GuestWaits == repl.host = "tick" /\ repl.guest = "evaluates" /\ repl' = [repl EXCEPT !.guest = "waits"]
GuestDies == repl.host = "tick" /\ repl.guest = "evaluates" /\ repl' = [repl EXCEPT !.guest = "gone", !.host = "over"]

\* Mutant: the names of Tab are an answer too.
PrintsEvery(r) ==
    IF r.outq = <<>> THEN r
    ELSE LET more == \E i \in DOMAIN r.outq : r.outq[i] = "more" IN
         [r EXCEPT !.outq = <<>>, !.more = more, !.pending = IF more THEN @ ELSE <<>>]

\* print_answers: names are for Tab; an answer that wants no more ends the
\* chunk.
PrintAnswers(r) ==
    LET texts == SelectSeq(r.outq, LAMBDA a : a # "names")
        more  == \E i \in DOMAIN texts : texts[i] = "more" IN
    IF texts = <<>> THEN [r EXCEPT !.outq = <<>>]
    ELSE [r EXCEPT !.outq = <<>>, !.more = more, !.pending = IF more THEN @ ELSE <<>>]

\* tick at the prompt: the answers, then the names once a line made them
\* stale, then the user.
Tick ==
    /\ repl.host = "tick" /\ repl.run.st = "none" /\ AtPrompt
    /\ LET r == PrintAnswers(repl) IN
       repl' = IF r.stale THEN [r EXCEPT !.stale = FALSE, !.inq = Append(@, "names")] ELSE [r EXCEPT !.host = "input"]
-----------------------------------------------------------------------------
\* :run: under the REPL's config, and not over SSH.
StartRun ==
    /\ repl.host = "input" /\ ~repl.more /\ ~repl.served /\ repl.runs < MaxRuns
    /\ repl' = [repl EXCEPT !.run = [Idle EXCEPT !.st = "fresh"], !.runs = @ + 1, !.host = "tick"]

\* Solo::settle: how a slice of the program ended.
Settles(s) ==
    {[s EXCEPT !.st = "parked", !.wait = w, !.owed = o, !.deadline = d] :
       w \in {"message", "space"}, o \in s.owed..(2 - s.queued), d \in {"none", "set"}}
    \cup {[s EXCEPT !.st = how] : how \in {"exited", "exceeded", "failed"}}

\* Solo::pump: answers that have arrived land in the queue.
Pumped(s) == {[s EXCEPT !.owed = @ - n, !.queued = @ + n] : n \in 0..s.owed}
Ready(s) == IF s.wait = "space" THEN s.queued < 2 ELSE s.queued > 0

\* Solo::tick: a ready queue, then the deadline, then a sleep, or nothing
\* that anybody will ever push to.
SoloTick(s) ==
    IF s.st = "fresh" THEN Settles(s)
    ELSE UNION {IF Ready(p) THEN Settles([p EXCEPT !.queued = IF p.wait = "message" THEN @ - 1 ELSE @])
                ELSE IF p.deadline = "due" THEN Settles(p)
                ELSE IF p.deadline = "set" \/ p.owed > 0 THEN {p}
                ELSE {[p EXCEPT !.st = "stuck"]} : p \in Pumped(s)}

\* run::settle: only a clean exit asks the connectors whether it was one.
Finish(r, how) == [r EXCEPT !.run = Idle, !.finished = @ + (IF how = "exited" THEN 1 ELSE 0), !.ended = @ + 1]

TickRun ==
    /\ repl.host = "tick" /\ repl.run.st \in {"fresh", "parked"}
    /\ \E s \in SoloTick(repl.run) :
         repl' = IF s.st = "parked" THEN [repl EXCEPT !.run = s] ELSE Finish(repl, s.st)
RunDeadline == repl.run.deadline = "set" /\ repl.run.st = "parked" /\ repl' = [repl EXCEPT !.run.deadline = "due"]

\* ^C while it runs: dropped, and its connectors finished.
Interrupt ==
    repl.host = "tick" /\ repl.run.st = "parked"
    /\ repl' = [repl EXCEPT !.run = Idle, !.finished = @ + 1, !.ended = @ + 1]
-----------------------------------------------------------------------------
Init ==
    \E served \in BOOLEAN :
      repl = [host |-> "tick", pending |-> <<>>, more |-> FALSE, stale |-> TRUE, inq |-> <<>>, outq |-> <<>>,
              guest |-> "prompt", typed |-> 0, meant |-> <<>>, ran |-> <<>>, loads |-> 0, served |-> served,
              run |-> Idle, runs |-> 0, finished |-> 0, ended |-> 0]

Next ==
    \/ \E kind \in Kind : Types(kind)
    \/ TypesNothing \/ Abandon \/ Loads \/ Quits
    \/ GuestTakes \/ GuestAnswers \/ GuestWaits \/ GuestDies \/ Tick
    \/ StartRun \/ TickRun \/ RunDeadline \/ Interrupt

Spec == Init /\ [][Next]_repl
-----------------------------------------------------------------------------
\* Every line typed and not abandoned is evaluated once, in order, in the
\* chunk it belongs to: at the prompt what ran and what is pending are what
\* was typed, however many answers, names, loads and programs came between
\* (feed, print_answers, abandon).
LinesOnce ==
    repl.host = "input" =>
      /\ repl.meant = repl.ran \o [i \in DOMAIN repl.pending |-> repl.pending[i].n]
      /\ repl.more = (repl.pending # <<>>)
=============================================================================
