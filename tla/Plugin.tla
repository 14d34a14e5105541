------------------------------- MODULE Plugin -------------------------------
(***************************************************************************)
(* Out-of-process connectors (crates/drt-plugin): many calls on one stream *)
(* to a plugin's process, polled and never waited on.                      *)
(*                                                                         *)
(* A process serves one scope key: the calling instance, or the root for   *)
(* all of them.  A call is its wire id; a frame is the id it answers, or 0 *)
(* for one this host cannot take (unreadable, of another version, not      *)
(* final).  Bytes, arguments and values are left out.                      *)
(***************************************************************************)
EXTENDS Integers, Sequences, FiniteSets, SequencesExt

CONSTANTS Inst,         \* the calling instances, positive numbers
          MaxCalls,     \* bound: calls in a behaviour
          max_inflight, \* the manifest's limit for each session
          Scopes,       \* the manifest's scope: node, root
          MaxFrames     \* bound: frames unread, and processes in a behaviour

VARIABLES scope,    \* the plugin's scope
          session,  \* scope key -> the session of the process that serves it
          call,     \* wire id -> the call
          next,     \* the next wire id
          gone      \* instances that were released

vars == <<scope, session, call, next, gone>>

Id  == 1..MaxCalls
Key == Inst \cup {0}

\* The host's side: bytes not yet accepted, calls live, ready and abandoned.
\* The process's: requests it has read, frames it has written, whether it
\* has exited; guilty is a history of what it did wrong.
Session == [up : BOOLEAN, failed : BOOLEAN, outbound : Seq(Id), live : SUBSET Id, ready : SUBSET Id, abandoned : SUBSET Id,
            asked : SUBSET Id, inbound : Seq(Id \cup {0}), exited : BOOLEAN, guilty : BOOLEAN]

None == [up |-> FALSE, failed |-> FALSE, outbound |-> <<>>, live |-> {}, ready |-> {}, abandoned |-> {},
         asked |-> {}, inbound |-> <<>>, exited |-> FALSE, guilty |-> FALSE]

Fresh == [None EXCEPT !.up = TRUE]

\* by is the caller while the call waits, then the key of its process.
NoCall == [st |-> "none", by |-> 0]
Call   == [st : {"none", "refused", "waiting", "answered", "failed", "late", "dropped"}, by : Key]

KeyFor(n) == IF scope = "root" THEN 0 ELSE n
Ends(i, st, k) == call' = [call EXCEPT ![i].st = st, ![i].by = k]
-----------------------------------------------------------------------------
\* Session::sort, on one frame.

\* Mutant: a reply nobody waits for is an accusation, abandoned or not.
AbandonForgets(s, id) == [s EXCEPT !.live = @ \ {id}, !.ready = @ \ {id}]

Abandon(s, id) ==
    [s EXCEPT !.live = @ \ {id}, !.ready = @ \ {id}, !.abandoned = IF id \in s.live THEN @ \cup {id} ELSE @]

Sorted(s, f) ==
    CASE s.failed            -> s
      [] f \in s.abandoned   -> [s EXCEPT !.abandoned = @ \ {f}]
      [] f \in s.live        -> [s EXCEPT !.ready = @ \cup {f}]
      [] OTHER               -> [s EXCEPT !.failed = TRUE]

\* Session::poll: flush what the process takes, read what it has written and
\* sort it.  A closed stream fails the session before anything is sorted.
Polled(s, n) ==
    IF s.exited THEN [s EXCEPT !.failed = TRUE]
    ELSE LET t == [s EXCEPT !.asked = @ \cup {s.outbound[i] : i \in 1..n}, !.outbound = SubSeq(@, n + 1, Len(@)), !.inbound = <<>>]
         IN  FoldLeft(Sorted, t, s.inbound)
-----------------------------------------------------------------------------
\* call_as: the first poll of a call begins it, starting a process for a key
\* that has none.

\* Mutant: a failed session is replaced by the next call.
BeginRestarts(n, i) ==
    LET k == KeyFor(n)
        s == IF session[k].up /\ ~session[k].failed THEN session[k] ELSE Fresh
    IN  /\ n \notin gone /\ i = next /\ next' = next + 1 /\ UNCHANGED <<scope, gone>>
        /\ Ends(i, "waiting", n)
        /\ session' = [session EXCEPT ![k] = [s EXCEPT !.live = @ \cup {i}, !.outbound = Append(@, i)]]

Begin(n, i) ==
    LET k == KeyFor(n)
        s == IF session[k].up THEN session[k] ELSE Fresh
    IN  /\ n \notin gone /\ i = next /\ next' = next + 1 /\ UNCHANGED <<scope, gone>>
        /\ \/ \* It would not start.
              ~session[k].up /\ Ends(i, "refused", n) /\ UNCHANGED session
           \/ /\ s.failed \/ Cardinality(s.live) >= max_inflight
              /\ Ends(i, "refused", n) /\ session' = [session EXCEPT ![k] = s]
           \/ /\ ~s.failed /\ Cardinality(s.live) < max_inflight /\ Ends(i, "waiting", n)
              /\ session' = [session EXCEPT ![k] = [s EXCEPT !.live = @ \cup {i}, !.outbound = Append(@, i)]]

\* One poll of a call that waits: by is then its caller.
Poll(i) ==
    LET k == KeyFor(call[i].by) IN
    /\ call[i].st = "waiting" /\ UNCHANGED <<scope, next, gone>>
    /\ \/ ~session[k].up /\ Ends(i, "failed", k) /\ UNCHANGED session
       \/ session[k].up /\ session[k].failed /\ Ends(i, "failed", k) /\ UNCHANGED session
       \/ \E n \in 0..Len(session[k].outbound), late \in BOOLEAN :
            LET s == Polled(session[k], n) IN
            /\ session[k].up /\ ~session[k].failed
            /\ IF s.failed THEN Ends(i, "failed", k) /\ session' = [session EXCEPT ![k] = s]
               ELSE IF i \in s.ready
               THEN Ends(i, "answered", k)
                    /\ session' = [session EXCEPT ![k] = [s EXCEPT !.ready = @ \ {i}, !.live = @ \ {i}]]
               ELSE IF late THEN Ends(i, "late", k) /\ session' = [session EXCEPT ![k] = Abandon(s, i)]
               ELSE session' = [session EXCEPT ![k] = s] /\ UNCHANGED call

\* Mutant: a process is shared by the instance that comes next.
ReleaseKeeps(n) ==
    /\ n \notin gone /\ gone' = gone \cup {n} /\ UNCHANGED <<scope, next, session>>
    /\ call' = [i \in Id |-> IF call[i].st = "waiting" /\ call[i].by = n THEN [call[i] EXCEPT !.st = "dropped"] ELSE call[i]]

\* An instance is released: its futures are dropped, which abandons nothing,
\* and its own process goes; the root's stays.
Release(n) ==
    /\ n \notin gone /\ gone' = gone \cup {n} /\ UNCHANGED <<scope, next>>
    /\ call' = [i \in Id |-> IF call[i].st = "waiting" /\ call[i].by = n THEN [call[i] EXCEPT !.st = "dropped"] ELSE call[i]]
    /\ session' = IF scope = "node" THEN [session EXCEPT ![n] = None] ELSE session
-----------------------------------------------------------------------------
\* The plugin's process (external): it answers what it read, in any order,
\* or does wrong, or exits.

Running(k) == session[k].up /\ ~session[k].exited
Writes(k, f, wrong) ==
    /\ Running(k) /\ Len(session[k].inbound) < MaxFrames /\ UNCHANGED <<scope, call, next, gone>>
    /\ session' = [session EXCEPT ![k].inbound = Append(@, f), ![k].asked = @ \ {f}, ![k].guilty = @ \/ wrong]

Answers(k) == \E i \in session[k].asked : Writes(k, i, FALSE)
Errs(k) == \E f \in Id \cup {0} : f \notin session[k].asked /\ ~session[k].guilty /\ Writes(k, f, TRUE)
Exits(k) ==
    Running(k) /\ session' = [session EXCEPT ![k].exited = TRUE, ![k].guilty = TRUE] /\ UNCHANGED <<scope, call, next, gone>>
-----------------------------------------------------------------------------
Init ==
    /\ scope \in Scopes /\ session = [k \in Key |-> None] /\ call = [i \in Id |-> NoCall]
    /\ next = 1 /\ gone = {}

Process(k) == Answers(k) \/ Errs(k) \/ Exits(k)
Next ==
    \/ \E n \in Inst : Release(n) \/ \E i \in Id : Begin(n, i)
    \/ \E i \in Id : Poll(i)
    \/ \E k \in Key : Process(k)

Spec == Init /\ [][Next]_vars
-----------------------------------------------------------------------------
PluginTypeOK == session \in [Key -> Session] /\ call \in [Id -> Call] /\ next \in 1..(MaxCalls + 1) /\ gone \subseteq Inst

\* A session is not ended by what the host itself gave up on: it fails only
\* when the process exited or answered something it was not asked, however
\* late its answers are (Session::abandon, sort).
Innocent == \A k \in Key : session[k].failed => session[k].guilty

\* max_inflight counts what it should: a call that waits on a session that
\* works is live there and nowhere else, never past the limit, and with a
\* process to each node nothing else is (Session::live, abandon, release).
SlotsTrue ==
    /\ \A k \in Key : Cardinality(session[k].live) <= max_inflight /\ session[k].ready \subseteq session[k].live
    /\ \A i \in Id : call[i].st = "waiting" =>
         \A k \in Key : i \in session[k].live <=> (k = KeyFor(call[i].by))
    /\ scope = "node" => \A k \in Key : \A i \in session[k].live : call[i].st = "waiting" \/ session[k].failed

\* A failure is permanent: until its process is released no call on a failed
\* session is answered ("rather than appearing to recover").
FailureStep ==
    \A k \in Key : session[k].failed =>
        /\ session'[k].failed \/ ~session'[k].up
        /\ \A i \in Id : call'[i].st = "answered" /\ call'[i].by = k => call[i] = call'[i]
FailureSticks == [][FailureStep]_vars
=============================================================================
