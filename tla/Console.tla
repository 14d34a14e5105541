------------------------------ MODULE Console -------------------------------
(***************************************************************************)
(* The control endpoint (crates/drt/src/control.rs): questions and orders  *)
(* handed to the drive loop by the `drt' subsystem and by a REPL, each     *)
(* served over SSH (crates/drt/src/sshd.rs, crates/drt-sshd/src/lib.rs).   *)
(*                                                                         *)
(* One session to a connection; a question is its number in the session.   *)
(* One child instance stands for the table an order moves.  What a client  *)
(* has not read when the process exits is lost.                            *)
(***************************************************************************)
EXTENDS Integers, Sequences

CONSTANTS Sessions,  \* the SSH connections
          MaxAsks    \* bound: questions a session is sent

VARIABLE con   \* the sessions, the loop's inbox, the loop and the child

Orders == {"pause", "resume", "stop"}
Asks   == Orders \cup {"look", "bad"}
Sess(s) == con.sess[s]
Up == con.loop # "exited"

New == [kind |-> "none", key |-> "none", pc |-> "out", in |-> <<>>, eof |-> FALSE, gone |-> FALSE,
        sent |-> 0, ask |-> "none", n |-> 0, answer |-> "none", held |-> 0, wire |-> <<>>, heard |-> <<>>]
-----------------------------------------------------------------------------
\* The client (external): what it types, its end of input, what it reads, and
\* its close, which may also be the connection's.
Sends(s, ask) ==
    /\ Up /\ Sess(s).pc # "out" /\ ~Sess(s).eof /\ ~Sess(s).gone /\ Sess(s).sent < MaxAsks
    /\ con' = [con EXCEPT !.sess[s].sent = @ + 1, !.sess[s].in = Append(@, ask)]
EndsInput(s) == Up /\ Sess(s).pc # "out" /\ ~Sess(s).eof /\ con' = [con EXCEPT !.sess[s].eof = TRUE]
Closes(s) == Up /\ Sess(s).pc # "out" /\ ~Sess(s).gone /\ con' = [con EXCEPT !.sess[s].eof = TRUE, !.sess[s].gone = TRUE]
Hears(s) ==
    /\ Up /\ Sess(s).wire # <<>> /\ ~Sess(s).gone
    /\ con' = [con EXCEPT !.sess[s].wire = Tail(@), !.sess[s].heard = Append(@, Head(Sess(s).wire))]

\* auth_publickey: a key named in advance, or nothing.
Authorized == {"plain", "ceiling"}
SignIn(s, key) ==
    /\ Up /\ Sess(s).pc = "out" /\ Sess(s).key = "none"
    /\ con' = [con EXCEPT !.sess[s].key = IF key \in Authorized THEN key ELSE "none"]

\* Handshake::open, for a key that signed in; the listener serves a shell and
\* its own subsystem, and closes any other.
Served(kind) == IF kind = "other" THEN "over" ELSE "read"
Open(s, kind) ==
    /\ Up /\ Sess(s).pc = "out" /\ Sess(s).key # "none"
    /\ con' = [con EXCEPT !.sess[s].kind = kind, !.sess[s].pc = Served(kind)]

MayOrder(s) == Sess(s).key = "ceiling"
-----------------------------------------------------------------------------
Answered(s, what) == [con EXCEPT !.sess[s].pc = "write", !.sess[s].answer = what]

\* One whole request.  The loop's own end is asked for nothing it may not do.
Take(s) ==
    LET ask == Head(Sess(s).in) IN
    /\ Up /\ Sess(s).pc = "read" /\ Sess(s).in # <<>>
    /\ con' = LET c == [con EXCEPT !.sess[s].in = Tail(@), !.sess[s].ask = ask, !.sess[s].n = @ + 1] IN
              CASE ask = "bad" \/ (ask \in Orders /\ ~MayOrder(s)) ->
                     [c EXCEPT !.sess[s].pc = "write", !.sess[s].answer = "refused"]
                [] con.loop = "ended" -> [c EXCEPT !.sess[s].pc = "write", !.sess[s].answer = "ended"]
                [] OTHER -> [c EXCEPT !.sess[s].pc = "asking",
                               !.inbox = Append(@, [from |-> s, n |-> Sess(s).n + 1, ask |-> ask])]

\* Control::ask gives up; the question stays where it is.
AskTimesOut(s) == Up /\ Sess(s).pc = "asking" /\ con' = Answered(s, "late")

Ends(s) == IF Sess(s).kind = "drt" THEN "closing" ELSE "over"

\* Mutant: the stop is said to be delivered as soon as it is written.
WriteLetsGo(s) ==
    /\ Up /\ Sess(s).pc = "write"
    /\ con' = [con EXCEPT !.sess[s].wire = Append(@, Sess(s).n), !.sess[s].held = 0, !.sess[s].pc = "read"]

\* The answer goes out in order.  The subsystem keeps a stop's Delivered past
\* this; the REPL's is dropped once the text is in the session's queue.
Write(s) ==
    /\ Up /\ Sess(s).pc = "write"
    /\ IF Sess(s).gone
       THEN con' = [con EXCEPT !.sess[s].pc = Ends(s), !.sess[s].held = IF Sess(s).kind = "drt" THEN @ ELSE 0]
       ELSE con' = [con EXCEPT !.sess[s].wire = Append(@, Sess(s).n),
                      !.sess[s].held = IF Sess(s).kind = "drt" THEN @ ELSE 0,
                      !.sess[s].pc = IF Sess(s).kind = "drt" /\ Sess(s).ask = "bad" THEN "closing" ELSE "read"]

ReadEnds(s) ==
    Up /\ Sess(s).pc = "read" /\ Sess(s).in = <<>> /\ Sess(s).eof /\ con' = [con EXCEPT !.sess[s].pc = Ends(s)]

\* A stop's answer is held until the client has closed, or for STOP_GRACE.
Finish(s) ==
    /\ Up /\ Sess(s).pc = "closing" /\ (Sess(s).held = 0 \/ Sess(s).gone)
    /\ con' = [con EXCEPT !.sess[s].pc = "over", !.sess[s].held = 0]
FinishLate(s) ==
    /\ Up /\ Sess(s).pc = "closing" /\ Sess(s).held # 0 /\ ~Sess(s).gone
    /\ con' = [con EXCEPT !.sess[s].pc = "over", !.sess[s].held = 0, !.grace = TRUE]
-----------------------------------------------------------------------------
\* What an order does to the child, and whether it did.
Moves(ask) ==
    CASE ask \in {"pause", "stop"} /\ con.child = "parked" -> "stored"
      [] ask = "resume" /\ con.child = "stored" -> "parked"
      [] OTHER -> con.child
Waits(r) == Sess(r.from).pc = "asking" /\ Sess(r.from).n = r.n

\* Mutant: an answer goes to whoever of the session is waiting.
ReplyToAnyone(c, r) ==
    IF Sess(r.from).pc # "asking" THEN c
    ELSE [c EXCEPT !.sess[r.from].pc = "write", !.sess[r.from].answer = "ok", !.sess[r.from].n = r.n,
            !.sess[r.from].held = IF r.ask = "stop" THEN r.n ELSE @]

\* The reply has a channel of its own: one that is no longer read is dropped.
Reply(c, r) ==
    IF ~Waits(r) THEN c
    ELSE [c EXCEPT !.sess[r.from].pc = "write", !.sess[r.from].answer = "ok",
            !.sess[r.from].held = IF r.ask = "stop" THEN r.n ELSE @]

LoopWorks ==
    /\ con.loop = "work"
    /\ \/ con' = [con EXCEPT !.loop = "drain"]
       \/ \E st \in {"parked", "running"} : st # con.child /\ con' = [con EXCEPT !.child = st]

DrainOne ==
    LET r == Head(con.inbox) IN
    /\ con.loop = "drain" /\ con.inbox # <<>>
    /\ con' = [Reply(con, r) EXCEPT !.inbox = Tail(@), !.child = Moves(r.ask),
                 !.stop = @ \/ r.ask = "stop", !.stopper = r,
                 !.loop = IF r.ask = "stop" /\ Waits(r) THEN "grace" ELSE "drain"]

\* recv_timeout(STOP_GRACE): the asker's end is dropped, or the time is up.
Delivered ==
    /\ con.loop = "grace" /\ Sess(con.stopper.from).held # con.stopper.n
    /\ con' = [con EXCEPT !.loop = "drain", !.delivered = @ \cup {<<con.stopper.from, con.stopper.n>>}]
GraceOver == con.loop = "grace" /\ con' = [con EXCEPT !.loop = "drain", !.grace = TRUE]

DrainEnds ==
    con.loop = "drain" /\ con.inbox = <<>> /\ con' = [con EXCEPT !.loop = IF con.stop THEN "ended" ELSE "work"]
Exits == con.loop = "ended" /\ con' = [con EXCEPT !.loop = "exited"]
-----------------------------------------------------------------------------
Init ==
    con = [sess |-> [s \in Sessions |-> New], inbox |-> <<>>, loop |-> "work", child |-> "parked", stop |-> FALSE,
           stopper |-> [from |-> 0, n |-> 0, ask |-> "none"], grace |-> FALSE, delivered |-> {}]

Next ==
    \/ LoopWorks \/ DrainOne \/ Delivered \/ GraceOver \/ DrainEnds \/ Exits
    \/ \E s \in Sessions :
         \/ \E key \in Authorized \cup {"stranger"} : SignIn(s, key)
         \/ \E kind \in {"drt", "shell", "other"} : Open(s, kind)
         \/ \E ask \in Asks : Sends(s, ask)
         \/ EndsInput(s) \/ Closes(s) \/ Hears(s)
         \/ Take(s) \/ AskTimesOut(s) \/ Write(s) \/ ReadEnds(s) \/ Finish(s) \/ FinishLate(s)

Spec == Init /\ [][Next]_con
-----------------------------------------------------------------------------
HeardStop(kind) ==
    \A d \in con.delivered :
      LET s == Sess(d[1]) IN
      s.kind = kind /\ ~con.grace => s.gone \/ \E i \in DOMAIN s.heard : s.heard[i] = d[2]

\* A stop whose asker said "delivered" was read by its client, whatever the
\* session, the wire and the loop did in between (control_session, drain):
\* the process does not exit over an answer still in flight.
StopHeard == HeardStop("drt")

\* "Held by the asker until its answer has reached whoever asked"
\* (control.rs:141), of the REPL's :stop as of the subsystem's.
StopHeardInShell == HeardStop("shell")

\* Answers are read in the order of the questions, one to each: what comes
\* after REPLY_WAIT is nobody's, and never the answer to the next question.
AnswersMatch == \A s \in Sessions : \A i \in DOMAIN Sess(s).heard : Sess(s).heard[i] = i
=============================================================================
