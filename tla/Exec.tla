-------------------------------- MODULE Exec --------------------------------
(***************************************************************************)
(* exec/run (connectors/exec/src/lib.rs) and the tree of processes it owns *)
(* (crates/drt-platform/src/process.rs): one call, the program it starts,  *)
(* a descendant of it, and the two threads that read their output.         *)
(*                                                                         *)
(* Output is counted in chunks.  A descendant may leave the process group, *)
(* which no sweep reaches; every live process holds both pipes open.       *)
(***************************************************************************)
EXTENDS Integers

CONSTANTS Cap,       \* chunks a stream may hold (max_output_bytes)
          MaxChunks  \* bound: chunks a stream is written

VARIABLE run   \* the call, its processes, its pipes and its readers

Stream == {"stdout", "stderr"}
Reader == [buf : 0..MaxChunks, tripped : BOOLEAN, done : BOOLEAN]

Alive(r, p)  == r.proc[p] \in {"group", "escaped"}
SomeAlive(r) == \E p \in {"root", "kid"} : Alive(r, p)
At(pc) == run.pc = pc
-----------------------------------------------------------------------------
\* Mutant: the program is killed, and what it started is not.
SweepRoot(r) == [r EXCEPT !.proc["root"] = IF @ = "group" THEN "dead" ELSE @]

\* Tree::sweep: the whole group, now.
Sweep(r) == [r EXCEPT !.proc = [p \in {"root", "kid"} |-> IF @[p] = "group" THEN "dead" ELSE @[p]]]

\* Every way out drops the tree, which sweeps it.
Returns(r, how) == [Sweep(r) EXCEPT !.pc = "over", !.result = how]

Tripped(r) == \E s \in Stream : r.reader[s].tripped
Drained(r) == \A s \in Stream : r.reader[s].done
-----------------------------------------------------------------------------
\* The scope and the arguments, either refused.
Parse ==
    /\ At("parse")
    /\ \/ run' = [run EXCEPT !.pc = "over", !.result = "refused"]
       \/ run' = [run EXCEPT !.pc = "resolve"]

\* The program: outside the allow list, not found, or a file.
Resolve ==
    /\ At("resolve")
    /\ \/ \E how \in {"refused", "127"} : run' = [run EXCEPT !.pc = "over", !.result = how]
       \/ run' = [run EXCEPT !.pc = "spawn"]

\* Tree::spawn: what exec would have failed on is 127 too; the child is in
\* its group before it runs.
Spawn ==
    /\ At("spawn")
    /\ \/ \E how \in {"refused", "127"} : run' = [run EXCEPT !.pc = "over", !.result = how]
       \/ run' = [run EXCEPT !.pc = "trip", !.proc["root"] = "group"]

\* The loop: a cap, the child's exit, the deadline, in that order.
LoopTrip ==
    /\ At("trip")
    /\ run' = IF Tripped(run) THEN Returns(run, "refused") ELSE [run EXCEPT !.pc = "wait"]

LoopWait ==
    /\ At("wait")
    /\ \/ run.proc["root"] = "dead" /\ run' = [Sweep(run) EXCEPT !.pc = "drain"]
       \/ run.proc["root"] # "dead" /\ run' = [run EXCEPT !.pc = "deadline"]
       \/ \* Waiting on the child failed.
          run' = Returns(run, "refused")

LoopDeadline ==
    At("deadline") /\ (run' = Returns(run, "refused") \/ run' = [run EXCEPT !.pc = "trip"])

\* Until both readers are done, or the grace is over.
Drain == At("drain") /\ run' = [run EXCEPT !.pc = "check", !.late = ~Drained(run)]

\* Mutant: the caps are looked at only while the program runs.
CheckLeftOut ==
    At("check") /\ run' = [Returns(run, "answered") EXCEPT !.reply = [s \in Stream |-> run.reader[s].buf]]

Check ==
    /\ At("check")
    /\ run' = IF Tripped(run) THEN Returns(run, "refused")
              ELSE [Returns(run, "answered") EXCEPT !.reply = [s \in Stream |-> run.reader[s].buf]]
-----------------------------------------------------------------------------
\* Capped::pump, on a thread to each stream.
Pump(s) ==
    LET d == run.reader[s] IN
    /\ run.proc["root"] # "absent" /\ ~d.done
    /\ \/ /\ run.pipe[s] > 0
          /\ \E n \in 1..run.pipe[s] :
               run' = [run EXCEPT !.pipe[s] = @ - n,
                         !.reader[s] = IF d.buf + n > Cap THEN [d EXCEPT !.tripped = TRUE, !.done = TRUE]
                                       ELSE [d EXCEPT !.buf = @ + n]]
       \/ run.pipe[s] = 0 /\ ~SomeAlive(run) /\ run' = [run EXCEPT !.reader[s].done = TRUE]

\* The program and its descendant (external).
Writes(p, s) ==
    /\ Alive(run, p) /\ run.wrote[s] < MaxChunks
    /\ run' = [run EXCEPT !.wrote[s] = @ + 1, !.pipe[s] = IF run.reader[s].done THEN @ ELSE @ + 1]
Forks   == run.proc["root"] = "group" /\ run.proc["kid"] = "absent" /\ run' = [run EXCEPT !.proc["kid"] = "group"]
Escapes == run.proc["kid"] = "group" /\ run' = [run EXCEPT !.proc["kid"] = "escaped"]
Exits(p) == Alive(run, p) /\ run' = [run EXCEPT !.proc[p] = "dead"]
Program == Forks \/ Escapes \/ \E p \in {"root", "kid"} : Exits(p) \/ \E s \in Stream : Writes(p, s)
-----------------------------------------------------------------------------
Init ==
    run = [pc |-> "parse", result |-> "none", late |-> FALSE, proc |-> [p \in {"root", "kid"} |-> "absent"],
           pipe |-> [s \in Stream |-> 0], wrote |-> [s \in Stream |-> 0], reply |-> [s \in Stream |-> 0],
           reader |-> [s \in Stream |-> [buf |-> 0, tripped |-> FALSE, done |-> FALSE]]]

Next == Parse \/ Resolve \/ Spawn \/ LoopTrip \/ LoopWait \/ LoopDeadline \/ Drain \/ Check \/ Program \/ \E s \in Stream : Pump(s)
Spec == Init /\ [][Next]_run
-----------------------------------------------------------------------------
\* "Every exit path from a call that started a program ends with the tree
\* gone": of what the call started only what left the group outlives it.
NothingOutlives == run.result # "none" => \A p \in {"root", "kid"} : run.proc[p] # "group"

\* Output is refused, not cut: an answer the readers were done for holds
\* everything that was ever written to both streams, within the cap, whoever
\* wrote it and however late it was read (run, Capped).
WholeOrRefused ==
    run.result = "answered" /\ ~run.late =>
      \A s \in Stream : run.reply[s] = run.wrote[s] /\ run.wrote[s] <= Cap
=============================================================================
