------------------------------ MODULE Netcheck ------------------------------
(***************************************************************************)
(* One measurement run of `drt netcheck` (run, gather and RULES in         *)
(* crates/drt/src/netcheck.rs, the fetches of reflect.rs), against a       *)
(* network whose behaviour is fixed and unknown to it.                     *)
(*                                                                         *)
(* A destination sees an external port that depends on the source port,    *)
(* and on the destination too when the mapping is symmetric.  The fetches  *)
(* are sequential; each may fail, answer without a port, or find the       *)
(* pinned source port taken by another process.                            *)
(***************************************************************************)
EXTENDS Integers, Sequences, FiniteSets

CONSTANTS Plans,    \* targets of the reflect fetches, in order; a place may be asked twice
          ProbeAt   \* the place the inbound probe would come from

VARIABLES net,      \* the network: its mapping, its address, who is let in, an IPv6 route
          ask,      \* the inputs: the fetches planned, whether all edges resolved, STUN servers, a port to probe
          m,        \* Measurements
          at,       \* where the run stands: "configure", "udp", a fetch's number, "probe", "done"
          pin,      \* the pinned source port, or 0; whether all views left from it; was the run retried
          fresh,    \* ephemeral source ports used so far
          touched   \* places this run has sent a packet to (history)

vars == <<net, ask, m, at, pin, fresh, touched>>

External(src, dest) == IF net.nat = "symmetric" THEN <<src, dest>> ELSE <<src>>
None == <<>>

Pins == Len(ask.plan) >= 2
Unpinned == [port |-> 0, all |-> ask.resolved, retried |-> FALSE]
-----------------------------------------------------------------------------
\* configure: an unpinned fetch whose answer is not kept as a view; it may
\* name the STUN servers.
Configure ==
    /\ at = "configure" /\ at' = "udp" /\ UNCHANGED <<net, m, pin>>
    /\ \/ ask.plan = <<>> /\ UNCHANGED <<ask, fresh, touched>>
       \/ /\ ask.plan # <<>> /\ fresh' = fresh + 1 /\ touched' = touched \cup {ask.plan[1]}
          /\ \E n \in {0, 2} : ask' = [ask EXCEPT !.stun = IF @ = 0 THEN n ELSE @]

\* local_and_udp: the mapping needs two servers; the address only one that
\* agreed.
Udp ==
    /\ at = "udp" /\ at' = "reflect" /\ UNCHANGED <<net, ask, pin, fresh, touched>>
    /\ \/ m' = [m EXCEPT !.v6 = net.v6]
       \/ ask.stun >= 2 /\ \E a \in {"none", net.addr} : m' = [m EXCEPT !.v6 = net.v6, !.udp = net.nat, !.addr = a]

\* reflect: one target after the other, from one source port when there are
\* two or more.
Fetching == at = "reflect" /\ m.i <= Len(ask.plan)
Dest == ask.plan[m.i]
Seen(src) == {External(src, Dest), None}
View(p) == Append(m.views, [dest |-> Dest, port |-> p])

\* The first fetch's port is the pinned one; a bind that did not take
\* leaves from a port of its own.
Answers ==
    /\ Fetching /\ touched' = touched \cup {Dest} /\ UNCHANGED <<net, ask, at>>
    /\ \E took \in BOOLEAN : \E src \in {IF Pins /\ pin.port # 0 /\ took THEN pin.port ELSE fresh + 1} : \E p \in Seen(src) :
         /\ fresh' = IF src = pin.port THEN fresh ELSE fresh + 1
         /\ pin' = IF ~Pins THEN pin
                   ELSE IF pin.port = 0 THEN [pin EXCEPT !.port = src]
                   ELSE [pin EXCEPT !.all = @ /\ src = pin.port]
         /\ m' = [m EXCEPT !.i = @ + 1, !.views = View(p), !.addr = IF @ = "none" THEN net.addr ELSE @]

Fails ==
    /\ Fetching /\ pin' = [pin EXCEPT !.all = FALSE] /\ m' = [m EXCEPT !.i = @ + 1]
    /\ touched' \in {touched, touched \cup {Dest}} /\ UNCHANGED <<net, ask, at, fresh>>

\* Mutant: the views of the run that lost its port are kept.
PortLostKeeps ==
    /\ Fetching /\ Pins /\ pin.port # 0 /\ ~pin.retried /\ UNCHANGED <<net, ask, at, fresh, touched>>
    /\ pin' = [Unpinned EXCEPT !.retried = TRUE] /\ m' = [m EXCEPT !.i = 1]

\* PORT_LOST: again from the first target and a fresh port, once.
PortLost ==
    /\ Fetching /\ Pins /\ pin.port # 0 /\ ~pin.retried /\ UNCHANGED <<net, ask, at, fresh, touched>>
    /\ pin' = [Unpinned EXCEPT !.retried = TRUE] /\ m' = [m EXCEPT !.i = 1, !.views = <<>>]

Reflected ==
    /\ at = "reflect" /\ m.i > Len(ask.plan) /\ at' = "probe" /\ UNCHANGED <<net, ask, pin, fresh, touched>>
    /\ m' = [m EXCEPT !.same = Pins /\ pin.all /\ Len(m.views) > 1]

\* probe: from a place no view came from; the answer is what a SYN from
\* there met.  A prober that limits its callers is silence.
LetsIn == net.lets = "all" \/ (net.lets = "contacted" /\ ProbeAt \in touched)

\* Mutant: the probe may come from a place that answered this run.
MayProbeAnywhere == ask.plan # <<>> /\ ask.port /\ m.views # <<>>

MayProbe ==
    ask.plan # <<>> /\ ask.port /\ m.views # <<>> /\ \A i \in DOMAIN m.views : m.views[i].dest # ProbeAt

Probe ==
    /\ at = "probe" /\ at' = "done" /\ UNCHANGED <<net, ask, pin, fresh, touched>>
    /\ \/ UNCHANGED m
       \/ MayProbe /\ m' = [m EXCEPT !.inbound = IF LetsIn THEN "connected" ELSE "timeout"]
-----------------------------------------------------------------------------
\* What the measurements say.

Ports == SelectSeq(m.views, LAMBDA v : v.port # None)
Agree == \A i, j \in DOMAIN Ports : Ports[i].port = Ports[j].port
Destinations == {m.views[i].dest : i \in DOMAIN m.views}

\* tcp_agrees and tcp_mapping_stable: "yes", "no" or "none".
Answer(measured) == IF ~measured \/ Len(Ports) < 2 THEN "none" ELSE IF Agree THEN "yes" ELSE "no"

\* Mutant: two connections from one port are a comparison.
AgreesAnywhere == Answer(m.same)

TcpAgrees == Answer(m.same /\ Cardinality(Destinations) >= 2)
TcpStable == Answer(m.same /\ Cardinality(Destinations) = 1)

V4RuledOut == (m.addr # "none" /\ m.addr # "public") \/ m.udp = "symmetric"

\* decide: the first rule that matches.
Decide ==
    CASE m.addr = "cgnat" -> "relay"
      [] m.addr = "public" /\ m.inbound = "connected" -> "direct"
      [] m.addr # "cgnat" /\ ~(m.addr = "public" /\ m.inbound = "connected") /\ m.udp \in {"open", "independent"} -> "punchable"
      [] m.addr # "cgnat" /\ m.udp \in {"none", "symmetric"} /\ m.v6 /\ V4RuledOut /\ m.inbound # "connected" -> "v6-direct"
      [] OTHER -> "relay"

Probed == m.udp # "none" \/ m.addr # "none" \/ m.inbound # "none"
-----------------------------------------------------------------------------
Init ==
    /\ net \in [nat : {"open", "independent", "symmetric"}, addr : {"public", "private", "cgnat"},
                lets : {"all", "contacted", "nobody"}, v6 : BOOLEAN]
    /\ ask \in [plan : Plans, resolved : BOOLEAN, stun : {0, 2}, port : BOOLEAN]
    /\ m = [udp |-> "none", addr |-> "none", v6 |-> FALSE, views |-> <<>>, same |-> FALSE, inbound |-> "none", i |-> 1]
    /\ at = "configure" /\ pin = Unpinned /\ fresh = 0 /\ touched = {}

Next == Configure \/ Udp \/ Answers \/ Fails \/ PortLost \/ Reflected \/ Probe
Spec == Init /\ [][Next]_vars
-----------------------------------------------------------------------------
\* A comparison of mappings says what the network does, whatever failed, was
\* retried or was asked twice: agreement is never read off one destination
\* nor off two source ports (tcp_agrees, reflect).
CompareTrue ==
    at \in {"probe", "done"} =>
        /\ TcpAgrees = "yes" => net.nat # "symmetric"
        /\ TcpAgrees = "no" => net.nat = "symmetric"
        /\ TcpStable # "no"

\* A verdict rests on what the network is: direct only where a stranger
\* gets in, or where the probe's place was contacted and did not answer;
\* punchable only with a mapping that punches; and nothing measured is
\* relay (RULES, decide).
VerdictEarned ==
    at = "done" =>
        /\ Decide = "direct" => net.addr = "public" /\ (net.lets = "all" \/ ProbeAt \in touched \ Destinations)
        /\ Decide = "punchable" => net.nat # "symmetric"
        /\ Decide = "v6-direct" => net.v6 /\ Probed
        /\ ~Probed => Decide = "relay"

\* "the probe vantage must be one this run has not already contacted".
ProbedElsewhere == m.inbound # "none" => ProbeAt \notin touched
=============================================================================
