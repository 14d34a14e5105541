-------------------------------- MODULE P2p --------------------------------
(***************************************************************************)
(* A parked peer of `drt p2p`: the loop that polls the signalling server,  *)
(* the pairings it follows (p2p/park.rs) and the host whose sessions they  *)
(* open (Loop in drt-rtc/src/host.rs).                                     *)
(*                                                                         *)
(* Commands go to the host's thread, and its reports come back through an  *)
(* unbounded queue and then a broadcast that keeps the last LAG of them    *)
(* for each listener.  A session is named by the peer it is for: a call's  *)
(* id, `pair:<name>`, or the ufrag of a direct caller.                     *)
(***************************************************************************)
EXTENDS Integers, Sequences, FiniteSets

CONSTANTS Calls,          \* calls the server announces
          Pairs,          \* pair entries it announces
          Names,          \* sessions they ask for, `pair:<name>`: one for all entries of a name
          Allowed,        \* <<entry, name>>: what the --pair rule lets this side follow
          Direct,         \* direct callers
          max_sessions,
          LAG             \* reports a broadcast keeps for a slow listener

VARIABLES page,       \* what the poll has announced, and the direct callers that came (once each)
          pair,       \* pair entry -> the task that follows it
          commands,   \* for the host: <<"open" | "call" | "close", peer>>
          sess,       \* host: peer -> its session
          reports,    \* host's events, not yet broadcast: <<peer, state>>
          ever        \* peers whose session was once connected (history)

parkVars == <<page, pair>>
hostVars == <<sess, ever>>
vars == <<page, pair, commands, sess, reports, ever>>

Peer == Calls \cup Names \cup Direct
Task == [st : {"none", "asking", "waiting", "done"}, name : Names \cup {"none"}, inbox : Seq(Peer \X {"up", "down"}),
         outcome : {"none", "declined", "refused", "unreachable", "connected"}]

Own(q) == pair[q].name

Sends(c) == commands' = Append(commands, c)
Sessions == {p \in Peer : sess[p] # "none"}
-----------------------------------------------------------------------------
\* park_signal: a page of the poll is taken once, by its cursor; each call
\* is opened before it is answered, each pairing is a task of its own.

PollCall(c) ==
    /\ c \in Calls \ page /\ page' = page \cup {c} /\ Sends(<<"open", c>>)
    /\ UNCHANGED <<pair, hostVars, reports>>

\* serve and answer of the process's own signal listener: a request that is
\* no record is refused and opens nothing, a call is opened the same way.
SignalCall(c) ==
    /\ c \in Calls \ page /\ page' = page \cup {c} /\ Sends(<<"open", c>>)
    /\ UNCHANGED <<pair, hostVars, reports>>

Outcome(q, o) == [pair EXCEPT ![q].st = "done", ![q].outcome = o, ![q].inbox = <<>>]

\* follow_pair: consent, then the caller's request at the server it names.
PollPair(q) ==
    /\ q \in Pairs \ page /\ page' = page \cup {q} /\ UNCHANGED <<commands, hostVars, reports>>
    /\ \E n \in Names :
         IF <<q, n>> \in Allowed THEN pair' = [pair EXCEPT ![q].st = "asking", ![q].name = n]
         ELSE pair' = [pair EXCEPT ![q].st = "done", ![q].name = n, ![q].outcome = "declined"]

\* No answer within the budget, a refusal, another failure; or the record:
\* the task listens before it tells the host to call.
Answered(q) ==
    /\ pair[q].st = "asking" /\ UNCHANGED <<page, hostVars, reports>>
    /\ \/ \E o \in {"refused", "unreachable"} : pair' = Outcome(q, o) /\ UNCHANGED commands
       \/ pair' = [pair EXCEPT ![q].st = "waiting"] /\ Sends(<<"call", Own(q)>>)

\* The first report of a session of its name decides, which may be that of
\* another entry's call refused as a duplicate; others are passed over.
Hears(q) ==
    /\ pair[q].st = "waiting" /\ pair[q].inbox # <<>> /\ UNCHANGED <<page, commands, hostVars, reports>>
    /\ LET r == Head(pair[q].inbox) IN
       pair' = IF r[1] # Own(q) THEN [pair EXCEPT ![q].inbox = Tail(@)]
               ELSE Outcome(q, IF r[2] = "up" THEN "connected" ELSE "unreachable")

\* Mutant: an entry whose time is up leaves its session behind.
GiveUpQuietly(q) ==
    /\ pair[q].st = "waiting" /\ pair' = Outcome(q, "unreachable")
    /\ UNCHANGED <<page, commands, hostVars, reports>>

GiveUp(q) ==
    /\ pair[q].st = "waiting" /\ Sends(<<"close", Own(q)>>) /\ pair' = Outcome(q, "unreachable")
    /\ UNCHANGED <<page, hostVars, reports>>

\* Serving's task: every report goes to every listener, and the oldest one
\* a slow listener has not read is dropped (RecvError::Lagged).
Kept(s) == SubSeq(s, IF Len(s) > LAG THEN 2 ELSE 1, Len(s))
Broadcast ==
    /\ reports # <<>> /\ reports' = Tail(reports)
    /\ pair' = [q \in Pairs |-> IF pair[q].st = "waiting"
                                THEN [pair[q] EXCEPT !.inbox = Kept(Append(@, Head(reports)))] ELSE pair[q]]
    /\ UNCHANGED <<page, commands, hostVars>>
-----------------------------------------------------------------------------
\* Loop: one turn takes one thing, and reaps what it ended.

Ends(p) == sess' = [sess EXCEPT ![p] = "none"] /\ reports' = Append(reports, <<p, "down">>)

\* Loop::open: a record that does not decode, the cap, a duplicate; each is
\* reported as closed.
OpenSession(p) ==
    \/ reports' = Append(reports, <<p, "down">>) /\ UNCHANGED sess
    \/ /\ Cardinality(Sessions) < max_sessions /\ sess[p] = "none"
       /\ sess' = [sess EXCEPT ![p] = "setup"] /\ UNCHANGED reports

OnCommand ==
    /\ commands # <<>> /\ commands' = Tail(commands) /\ UNCHANGED <<parkVars, ever>>
    /\ LET c == Head(commands) IN
       \/ c[1] # "close" /\ OpenSession(c[2])
       \/ c[1] = "close" /\ sess[c[2]] # "none" /\ Ends(c[2])
       \/ c[1] = "close" /\ sess[c[2]] = "none" /\ UNCHANGED <<sess, reports>>

\* direct_session: a binding request nobody claimed, from an admitted
\* address, that passes integrity.
DirectSession(p) ==
    /\ p \in Direct \ page /\ page' = page \cup {p} /\ sess[p] = "none" /\ Cardinality(Sessions) < max_sessions
    /\ sess' = [sess EXCEPT ![p] = "setup"] /\ UNCHANGED <<pair, commands, reports, ever>>

\* on_datagram and drive: packets bring the session up, or come from an
\* address that is not admitted and end it.
Connected(p) ==
    /\ sess[p] = "setup" /\ sess' = [sess EXCEPT ![p] = "up"] /\ ever' = ever \cup {p}
    /\ reports' = Append(reports, <<p, "up">>) /\ UNCHANGED <<parkVars, commands>>

NotAdmitted(p) == sess[p] # "none" /\ Ends(p) /\ UNCHANGED <<parkVars, commands, ever>>

\* housekeep's SETUP_DEADLINE, and ICE or a data channel going down.
NeverConnected(p) == sess[p] = "setup" /\ Ends(p) /\ UNCHANGED <<parkVars, commands, ever>>
Disconnected(p)   == sess[p] = "up" /\ Ends(p) /\ UNCHANGED <<parkVars, commands, ever>>
-----------------------------------------------------------------------------
Init ==
    /\ page = {} /\ pair = [q \in Pairs |-> [st |-> "none", name |-> "none", inbox |-> <<>>, outcome |-> "none"]]
    /\ commands = <<>> /\ sess = [p \in Peer |-> "none"] /\ reports = <<>> /\ ever = {}

Parking == \/ \E c \in Calls : PollCall(c) \/ SignalCall(c)
           \/ \E q \in Pairs : PollPair(q) \/ Answered(q) \/ Hears(q) \/ GiveUp(q)
           \/ Broadcast
Hosting == \/ OnCommand \/ \E p \in Direct : DirectSession(p)
           \/ \E p \in Peer : Connected(p) \/ NotAdmitted(p) \/ NeverConnected(p) \/ Disconnected(p)

Next == Parking \/ Hosting

Spec == Init /\ [][Next]_vars

\* The host's loop and Serving's task go on; a session that never connects
\* has a deadline.  Nothing is assumed of the network or of the server.
Fair ==
    /\ WF_vars(OnCommand) /\ WF_vars(Broadcast)
    /\ \A p \in Peer : WF_vars(NeverConnected(p))
FairSpec == Spec /\ Fair
-----------------------------------------------------------------------------
TypeOK ==
    /\ pair \in [Pairs -> Task]
    /\ sess \in [Peer -> {"none", "setup", "up"}]

\* The server is told of a pairing what became of it: connected, only when
\* a session of its name came up (follow_pair, Serving::events).
ToldTrue == \A q \in Pairs : pair[q].outcome = "connected" => Own(q) \in ever

\* A name is called for an entry that came and that the rule allows, and for
\* no other (PairRule::allows).
Asked == {n \in Names : \E q \in Pairs : pair[q].st # "none" /\ Own(q) = n /\ <<q, n>> \in Allowed}
OnlyAllowed == \A n \in Names : sess[n] # "none" \/ n \in ever => n \in Asked

\* Every entry of a name that was announced was reported, none as connected.
GaveUp(q)    == pair[q].st = "done" /\ pair[q].outcome # "connected"
Of(n)        == {q \in Pairs : Own(q) = n}
Unclaimed(n) == Of(n) # {} /\ \A q \in Of(n) : GaveUp(q)
Shared(n)    == Cardinality({q \in Of(n) : pair[q].outcome # "declined"}) > 1

\* A pairing reported as anything but connected leaves no session, whether
\* its report was missed, late or never made (follow_pair, Command::Close):
\* for a name that one entry follows.
LeftBehind == \A n \in Names : Unclaimed(n) /\ ~Shared(n) ~> Shared(n) \/ sess[n] = "none"

\* Unreachable: "the call failed before an answer, or the session never
\* connected" (park.rs, Outcome), so a name no entry of which was connected
\* has no session in the end.  Not so: the second of two entries of a name
\* is refused as a duplicate, both read that as their own end, and the
\* session of the first comes up and stays.
UnreachedIsDown == \A n \in Names : Unclaimed(n) ~> ~Unclaimed(n) \/ sess[n] = "none"
=============================================================================
