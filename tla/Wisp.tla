-------------------------------- MODULE Wisp --------------------------------
(***************************************************************************)
(* The streams of one session: the caller's Driver (drt-rtc/src/caller.rs) *)
(* and the host's Session (drt-rtc/src/host.rs), joined by the two ordered *)
(* directions of the `wisp` data channel.                                  *)
(*                                                                         *)
(* Payload is numbered per stream, in the order the holder writes it.  The *)
(* host's reader, writer and connect tasks speak to its loop through one   *)
(* channel; what they say of different streams never meets, so each stream *)
(* has a queue of its own here.                                            *)
(***************************************************************************)
EXTENDS Integers, Sequences, FiniteSets

CONSTANTS Streams,       \* stream ids; the caller uses each once
          WISP_BUFFER,   \* packets the host promises to hold for a stream
          max_streams,
          ROOM,          \* packets str0m buffers before it refuses a write
          MaxData,       \* bound: packets written per stream
          MaxUnheard     \* bound: reads of the target the loop has not heard of yet

VARIABLES call,       \* caller: stream -> its entry in Driver::streams
          serve,      \* host: stream -> its entry in Session::streams
          up, down,   \* packets on the way, each direction in order
          outbox,     \* host: packets str0m refused
          gate,       \* host: may the readers read
          said,       \* host: stream -> what its tasks have told the loop
          target,     \* stream -> what reached its target, and whether its end did
          heard,      \* host: did the caller's `features` arrive
          live        \* "up" or "over"

callVars == <<call>>
hostVars == <<serve, outbox, gate, said, target, heard>>
vars == <<call, serve, up, down, outbox, gate, said, target, heard, live>>

Fresh == [st |-> "none", remaining |-> 0, queued |-> <<>>, wrote |-> 0, eof |-> FALSE, reads |-> TRUE]
Idle == [st |-> "none", early |-> <<>>, toTcp |-> FALSE, queued |-> 0, since |-> 0, endedIn |-> FALSE,
         endedOut |-> FALSE, work |-> <<>>, writer |-> FALSE, reader |-> FALSE, opened |-> 0, closed |-> 0]

Has(side, s) == side[s].st \notin {"none", "gone"}
Open == {s \in Streams : Has(serve, s)}
-----------------------------------------------------------------------------
\* The caller.

\* pump: packets leave while there is credit.
Pumped(e) ==
    LET n == IF Len(e.queued) <= e.remaining THEN Len(e.queued) ELSE e.remaining
    IN  [entry |-> [e EXCEPT !.remaining = @ - n, !.queued = SubSeq(e.queued, n + 1, Len(e.queued))],
         sent |-> SubSeq(e.queued, 1, n)]

Data(s, seq) == [i \in DOMAIN seq |-> [k |-> "data", s |-> s, n |-> seq[i]]]

PumpStream(s, e) == call' = [call EXCEPT ![s] = Pumped(e).entry] /\ up' = up \o Data(s, Pumped(e).sent)

\* open_stream: ids are never used twice.
OpenStream(s) ==
    /\ live = "up" /\ call[s].st = "none"
    /\ \A r \in Streams : r < s => call[r].st # "none"
    /\ call' = [call EXCEPT ![s] = [Fresh EXCEPT !.st = "open", !.remaining = WISP_BUFFER]]
    /\ up' = Append(up, [k |-> "connect", s |-> s])
    /\ UNCHANGED <<hostVars, down, live>>

\* Order::Data
Write(s) ==
    /\ live = "up" /\ Has(call, s) /\ ~call[s].eof /\ call[s].wrote < MaxData
    /\ PumpStream(s, [call[s] EXCEPT !.wrote = @ + 1, !.queued = Append(@, call[s].wrote + 1)])
    /\ UNCHANGED <<hostVars, down, live>>

\* Mutant: a stream both halves of which ended goes without a word.
EofQuiet(s) ==
    /\ live = "up" /\ Has(call, s) /\ ~call[s].eof
    /\ IF call[s].reads
       THEN call' = [call EXCEPT ![s].eof = TRUE] /\ up' = Append(up, [k |-> "end", s |-> s])
       ELSE call' = [call EXCEPT ![s].st = "gone"] /\ UNCHANGED up
    /\ UNCHANGED <<hostVars, down, live>>

\* Order::Eof: END, which overtakes what waits for credit, or CLOSE once
\* the answerer has ended its half.
Eof(s) ==
    /\ live = "up" /\ Has(call, s) /\ ~call[s].eof
    /\ IF call[s].reads
       THEN call' = [call EXCEPT ![s].eof = TRUE] /\ up' = Append(up, [k |-> "end", s |-> s])
       ELSE call' = [call EXCEPT ![s].st = "gone"] /\ up' = Append(up, [k |-> "close", s |-> s])
    /\ UNCHANGED <<hostVars, down, live>>

\* on_wisp of the Driver, on the oldest packet.
CallerContinue(p) == PumpStream(p.s, [call[p.s] EXCEPT !.remaining = p.n])
CallerEnd(p) ==
    IF call[p.s].eof
    THEN call' = [call EXCEPT ![p.s].st = "gone"] /\ up' = Append(up, [k |-> "close", s |-> p.s])
    ELSE call' = [call EXCEPT ![p.s].reads = FALSE] /\ UNCHANGED up
CallerClose(p) == call' = [call EXCEPT ![p.s].st = "gone"] /\ UNCHANGED up

CallerReceive ==
    /\ live = "up" /\ down # <<>> /\ down' = Tail(down)
    /\ LET p == Head(down) IN
       \/ ~Has(call, p.s) /\ UNCHANGED <<call, up>>
       \/ Has(call, p.s) /\ p.k = "data" /\ UNCHANGED <<call, up>>
       \/ Has(call, p.s) /\ p.k = "continue" /\ CallerContinue(p)
       \/ Has(call, p.s) /\ p.k = "end" /\ CallerEnd(p)
       \/ Has(call, p.s) /\ p.k = "close" /\ CallerClose(p)
    /\ UNCHANGED <<hostVars, live>>
-----------------------------------------------------------------------------
\* The host's loop.  Each handler ends in flush, with the packets it adds.

\* flush: what str0m takes, then the gate.
Flush(pkts) ==
    LET all == outbox \o pkts
        n == IF Len(all) <= ROOM - Len(down) THEN Len(all) ELSE ROOM - Len(down)
        left == SubSeq(all, n + 1, Len(all))
    IN  /\ down' = down \o SubSeq(all, 1, n) /\ outbox' = left
        /\ gate' = IF gate THEN left = <<>> ELSE left = <<>> /\ Len(down) + n < ROOM

Tell(k, s) == <<[k |-> k, s |-> s]>>
Sets(s, e) == serve' = [serve EXCEPT ![s] = e]

\* close_stream: the entry goes, and its tasks with it, and it is reported.
Closed(e) == [e EXCEPT !.st = "gone", !.closed = @ + 1, !.toTcp = FALSE, !.writer = FALSE, !.reader = FALSE]
CloseStream(s, e, tell) == Sets(s, Closed(e)) /\ Flush(IF tell THEN Tell("close", s) ELSE <<>>)

\* on_connect: refused (its name, its route, the cap), or being dialled.
OnConnect(s) ==
    \/ CloseStream(s, serve[s], TRUE)
    \/ Cardinality(Open) < max_streams /\ Sets(s, [Idle EXCEPT !.st = "dialling"]) /\ Flush(<<>>)

\* Mutant: a packet that comes while the target is dialled goes ahead of
\* those that came before it.
DataEarlyFirst(s, n) ==
    LET e == [serve[s] EXCEPT !.queued = @ + 1] IN
    IF e.queued > WISP_BUFFER THEN CloseStream(s, e, TRUE)
    ELSE /\ Sets(s, IF e.toTcp THEN [e EXCEPT !.work = Append(@, n)]
                    ELSE IF e.endedIn THEN e ELSE [e EXCEPT !.early = <<n>> \o @])
         /\ Flush(<<>>)

OnData(s, n) ==
    LET e == [serve[s] EXCEPT !.queued = @ + 1] IN
    IF e.queued > WISP_BUFFER THEN CloseStream(s, e, TRUE)
    ELSE /\ Sets(s, IF e.toTcp THEN [e EXCEPT !.work = Append(@, n)]
                    ELSE IF e.endedIn THEN e ELSE [e EXCEPT !.early = Append(@, n)])
         /\ Flush(<<>>)

OnEnd(s) ==
    LET e == [serve[s] EXCEPT !.endedIn = TRUE, !.toTcp = FALSE] IN
    IF e.endedOut THEN CloseStream(s, e, TRUE) ELSE Sets(s, e) /\ Flush(<<>>)

HostReceive ==
    /\ live = "up" /\ up # <<>> /\ up' = Tail(up)
    /\ LET p == Head(up) IN
       \/ p.k = "connect" /\ OnConnect(p.s)
       \/ p.k # "connect" /\ ~Has(serve, p.s) /\ Flush(<<>>) /\ UNCHANGED serve
       \/ Has(serve, p.s) /\ p.k = "data" /\ OnData(p.s, p.n)
       \/ Has(serve, p.s) /\ p.k = "end" /\ OnEnd(p.s)
       \/ Has(serve, p.s) /\ p.k = "close" /\ CloseStream(p.s, serve[p.s], FALSE)
    /\ UNCHANGED <<call, said, target, heard, live>>

\* on_internal of the Session: what a stream's tasks say, oldest first.  A
\* stream that connected too late is aborted.
OnConnected(s) ==
    /\ Sets(s, [serve[s] EXCEPT !.st = "open", !.opened = @ + 1, !.work = serve[s].early, !.early = <<>>,
                                !.toTcp = ~serve[s].endedIn, !.writer = TRUE, !.reader = TRUE])
    /\ Flush(<<>>)

OnTcpDone(s, voluntary) ==
    LET e == [serve[s] EXCEPT !.endedOut = TRUE] IN
    IF voluntary /\ heard /\ ~serve[s].endedOut
    THEN IF e.endedIn THEN Sets(s, Closed(e)) /\ Flush(Tell("end", s) \o Tell("close", s))
         ELSE Sets(s, e) /\ Flush(Tell("end", s))
    ELSE CloseStream(s, serve[s], TRUE)

OnWritten(s) ==
    LET e == [serve[s] EXCEPT !.queued = IF @ > 0 THEN @ - 1 ELSE 0, !.since = @ + 1] IN
    IF e.since >= WISP_BUFFER \div 2
    THEN /\ Sets(s, [e EXCEPT !.since = 0])
         /\ Flush(<<[k |-> "continue", s |-> s, n |-> IF e.queued < WISP_BUFFER THEN WISP_BUFFER - e.queued ELSE 0]>>)
    ELSE Sets(s, e) /\ Flush(<<>>)

HostInternal(s) ==
    /\ live = "up" /\ said[s] # <<>> /\ said' = [said EXCEPT ![s] = Tail(@)]
    /\ LET m == Head(said[s]) IN
       \/ ~Has(serve, s) /\ Flush(<<>>) /\ UNCHANGED serve
       \/ Has(serve, s) /\ m = "connected" /\ OnConnected(s)
       \/ Has(serve, s) /\ m = "failed" /\ CloseStream(s, serve[s], TRUE)
       \/ Has(serve, s) /\ m = "bytes" /\ Flush(<<[k |-> "data", s |-> s]>>) /\ UNCHANGED serve
       \/ Has(serve, s) /\ m = "written" /\ OnWritten(s)
       \/ Has(serve, s) /\ m \in {"done", "broken"} /\ OnTcpDone(s, m = "done")
    /\ UNCHANGED <<call, up, target, heard, live>>

\* The caller's `features`, on the control channel, which nothing orders
\* against this one.
HearFeatures ==
    live = "up" /\ ~heard /\ heard' = TRUE /\ UNCHANGED <<call, up, down, serve, outbox, gate, said, target, live>>

\* housekeep: a stream too long silent, and room that came back.
IdleStream == live = "up" /\ (\E s \in Open : CloseStream(s, serve[s], TRUE)) /\ UNCHANGED <<call, up, said, target, heard, live>>
Room == live = "up" /\ Flush(<<>>) /\ UNCHANGED <<call, serve, up, said, target, heard, live>>

\* The tasks of a stream: connect, write_loop, read_loop.
Says(s, m) == said' = [said EXCEPT ![s] = Append(@, m)]
Tasks(s) == Has(serve, s) /\ UNCHANGED <<call, up, down, outbox, gate, heard, live>>

Dialled(s) ==
    /\ Tasks(s) /\ serve[s].st = "dialling" /\ said[s] = <<>> /\ UNCHANGED <<serve, target>>
    /\ \E m \in {"connected", "failed"} : Says(s, m)

WriteLoop(s) ==
    /\ Tasks(s) /\ serve[s].writer
    /\ \/ /\ serve[s].work # <<>> /\ Says(s, "written") /\ Sets(s, [serve[s] EXCEPT !.work = Tail(@)])
          /\ target' = [target EXCEPT ![s].got = Append(@, Head(serve[s].work))]
       \/ /\ serve[s].work # <<>> /\ Says(s, "broken") /\ Sets(s, [serve[s] EXCEPT !.writer = FALSE])
          /\ UNCHANGED target
       \/ /\ serve[s].work = <<>> /\ ~serve[s].toTcp /\ Sets(s, [serve[s] EXCEPT !.writer = FALSE])
          /\ target' = [target EXCEPT ![s].ended = TRUE] /\ UNCHANGED said

ReadLoop(s) ==
    /\ Tasks(s) /\ serve[s].reader /\ gate /\ UNCHANGED target
    /\ \/ Len(said[s]) < MaxUnheard /\ Says(s, "bytes") /\ UNCHANGED serve
       \/ \E m \in {"done", "broken"} : Says(s, m) /\ Sets(s, [serve[s] EXCEPT !.reader = FALSE])
-----------------------------------------------------------------------------
\* Mutant: a stream refused before is reported again with the session.
ReapsAll ==
    /\ live = "up" /\ live' = "over" /\ up' = <<>> /\ down' = <<>> /\ outbox' = <<>>
    /\ call' = [s \in Streams |-> IF Has(call, s) THEN [call[s] EXCEPT !.st = "gone"] ELSE call[s]]
    /\ serve' = [s \in Streams |-> IF serve[s].st # "none" THEN Closed(serve[s]) ELSE serve[s]]
    /\ said' = [s \in Streams |-> <<>>] /\ UNCHANGED <<gate, target, heard>>

\* reap: every stream is closed and reported; the caller sees it, or ends
\* first and the host sees that.
SessionEnds ==
    /\ live = "up" /\ live' = "over" /\ up' = <<>> /\ down' = <<>> /\ outbox' = <<>>
    /\ call' = [s \in Streams |-> IF Has(call, s) THEN [call[s] EXCEPT !.st = "gone"] ELSE call[s]]
    /\ serve' = [s \in Streams |-> IF Has(serve, s) THEN Closed(serve[s]) ELSE serve[s]]
    /\ said' = [s \in Streams |-> <<>>] /\ UNCHANGED <<gate, target, heard>>

Init ==
    /\ call = [s \in Streams |-> Fresh] /\ serve = [s \in Streams |-> Idle]
    /\ up = <<>> /\ down = <<>> /\ outbox = <<>> /\ gate = TRUE /\ said = [s \in Streams |-> <<>>]
    /\ target = [s \in Streams |-> [got |-> <<>>, ended |-> FALSE]] /\ heard = FALSE /\ live = "up"

Next ==
    \/ \E s \in Streams : OpenStream(s) \/ Write(s) \/ Eof(s)
    \/ CallerReceive \/ HostReceive \/ HearFeatures \/ IdleStream \/ Room \/ SessionEnds
    \/ \E s \in Streams : HostInternal(s) \/ Dialled(s) \/ WriteLoop(s) \/ ReadLoop(s)

Spec == Init /\ [][Next]_vars

\* Both loops go on while the session does, and a dial has a deadline.  A
\* stream with traffic is never idle, so nothing is assumed of IdleStream.
Fair ==
    /\ WF_vars(CallerReceive) /\ WF_vars(HostReceive) /\ WF_vars(Room)
    /\ \A s \in Streams : WF_vars(HostInternal(s)) /\ WF_vars(Dialled(s))
FairSpec == Spec /\ Fair
-----------------------------------------------------------------------------
\* A target is written what its holder wrote, in the order it was written
\* and without a gap, whenever the dial, the credit and the end came.
InOrder == \A s \in Streams : \A i \in DOMAIN target[s].got : target[s].got[i] = i

\* Every stream the host reported open or refused is reported closed once,
\* and only a stream that is held was not (close_stream, reap).
Audited ==
    \A s \in Streams : /\ serve[s].opened <= 1
                       /\ serve[s].closed = IF serve[s].st = "gone" THEN 1 ELSE 0

\* A stream one side forgot is forgotten by the other in time, in whatever
\* order the two ends of it were said.
Forgot(s) == serve[s].st # "dialling" /\ ~Has(serve, s)
BothForget == \A s \in Streams : (call[s].st = "gone") ~> Forgot(s)

\* The credit the caller keeps is credit the host holds to: what is on its
\* way never takes a stream past WISP_BUFFER.
CreditKept ==
    \A s \in Streams : Has(serve, s) /\ ~serve[s].endedIn =>
        serve[s].queued + Len(SelectSeq(up, LAMBDA p : p.k = "data" /\ p.s = s)) <= WISP_BUFFER

\* A target is told of the end after all the holder wrote.
EndIsLast == \A s \in Streams : target[s].ended => Len(target[s].got) = call[s].wrote
=============================================================================
