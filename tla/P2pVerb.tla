------------------------------ MODULE P2pVerb ------------------------------
(***************************************************************************)
(* The verb `drt p2p`, from what an operator wrote to what runs: the keys  *)
(* of the config block and of the command line merged into one role        *)
(* (p2p/mod.rs), the addresses, ports and targets they name (p2p/peer.rs), *)
(* the older `drt tunnel` read as this verb (tunnel.rs, p2p/mod.rs), the   *)
(* deployment a match server is (p2p/matchmaker.rs), and the one request a *)
(* caller makes of a signalling server (p2p/http.rs).                      *)
(*                                                                         *)
(* A key's value is one of the forms the code tells apart, by a name.      *)
(***************************************************************************)
EXTENDS Integers, Sequences, FiniteSets, SequencesExt, TLC

CONSTANTS Commands,   \* of {"p2p", "tunnel"}: the verbs typed
          Blocks,     \* of {"p2p", "tunnel", "both"}: what the config file holds
          MaxKeys,    \* keys an operator writes, in the file and on the command line
          MAX_REPLY,  \* bytes of a reply
          MaxBody     \* bytes a server means to send

VARIABLE verb

Only(f, K) == [k \in DOMAIN f \cap K |-> f[k]]
-----------------------------------------------------------------------------
\* peer.rs.  A peer address: its form, the host and path it names, and
\* whether it carries a query.

Address == [form : {"bare", "drt", "service", "http", "https", "ws", "record", "file", "other"},
            host : {"far", "loopback"}, path : {"none", "name", "calls", "else"}, query : BOOLEAN]

Addr(form, host, path) == [form |-> form, host |-> host, path |-> path, query |-> FALSE]

\* signal: drt:// is https, and http to a loopback address; a trailing
\* /calls is not part of the base.
Signal(a, scheme) ==
    LET name == IF a.path = "calls" THEN "name" ELSE a.path IN
    [how |-> "signal", base |-> <<scheme, a.host, name>>, query |-> a.query,
     service |-> a.form = "service"]

DrtScheme(a) == IF a.host = "loopback" THEN "http" ELSE "https"

NoPeer(how, base) == [how |-> how, base |-> base, query |-> FALSE, service |-> FALSE]

ParsePeer(a) ==
    CASE a.form \in {"bare", "drt", "service"} -> Signal(a, DrtScheme(a))
      [] a.form \in {"http", "https"} -> Signal(a, a.form)
      [] a.form = "ws" -> [NoPeer("ws", <<"ws", a.host, a.path>>) EXCEPT !.query = a.query]
      [] a.form \in {"record", "file"} -> NoPeer("record", <<"record", a.host, "none">>)
      [] OTHER -> NoPeer("refused", <<>>)

Canonical(p) == p.base

\* PortMap::parse: a local port, and what each connection to it asks for;
\* with no local port, what this process's stdio asks for.
PortSpec == [local : {"port", "zero", "word", "empty"}, remote : {"absent", "empty", "target", "bad"}]

ParsePort(s) ==
    CASE s.remote = "absent" -> IF s.local = "port" THEN "bound" ELSE "refused"
      [] s.remote # "absent" /\ s.local = "empty" -> IF s.remote = "target" THEN "stdio" ELSE "refused"
      [] s.remote # "absent" /\ s.local = "zero" -> "refused"
      [] s.remote # "absent" /\ s.local = "port" -> IF s.remote = "bad" THEN "refused" ELSE "bound"
      [] OTHER -> IF s.remote = "target" THEN "stdio" ELSE "refused"

\* ForwardSpec: what a serving side serves.
Entry(scheme, host, port) == [scheme |-> scheme, host |-> host, port |-> port]
Served(kind, entries) == [kind |-> kind, entries |-> entries]
RefusedSpec == Served("refused", <<>>)

\* The targets an operator names: addresses, services, a host alone, a
\* peer, stdio, nothing at all.
Target ==
    ("h:22" :> Served("one", <<Entry("tcp", "h", 22)>>)) @@ ("h:80" :> Served("one", <<Entry("tcp", "h", 80)>>))
    @@ ("ssh://h" :> Served("one", <<Entry("ssh", "h", 22)>>)) @@ ("ssh://g" :> Served("one", <<Entry("ssh", "g", 22)>>))
    @@ ("h" :> Served("host", <<>>)) @@ ("ssh" :> Served("host", <<>>)) @@ ("drt://h" :> Served("peer", <<>>)) @@ ("-" :> Served("stdio", <<>>))
    @@ ("" :> Served("relay", <<>>)) @@ ("h/x" :> RefusedSpec)

\* parse_one: -P and -A go with a host that names no port, and one of them must.
ParseOne(t, ports) ==
    CASE ports = "refused" -> RefusedSpec
      [] ports # "refused" /\ Target[t].kind = "host" ->
            IF ports = "none" THEN RefusedSpec ELSE Served("ports", <<>>)
      [] OTHER -> IF ports # "none" THEN RefusedSpec ELSE Target[t]

\* One more of several targets: each an address, none twice, no service twice.
Joins(spec, t) ==
    LET new == ParseOne(t, "none")
        e   == Head(new.entries)
    IN  IF \/ spec.kind = "refused" \/ new.kind # "one"
           \/ \E have \in ToSet(spec.entries) :
                 \/ have.host = e.host /\ have.port = e.port
                 \/ e.scheme # "tcp" /\ have.scheme = e.scheme
        THEN RefusedSpec ELSE Served("many", Append(spec.entries, e))

ParseForward(targets, ports) ==
    CASE targets = <<>> -> RefusedSpec
      [] Len(targets) = 1 -> ParseOne(targets[1], ports)
      [] OTHER -> IF ports # "none" THEN RefusedSpec
                  ELSE FoldLeft(Joins, Served("many", <<>>), targets)
-----------------------------------------------------------------------------
\* The keys of the block `commands.p2p`, which are the flags, and the
\* values an operator gives them here.

RoleKeys == {"peer", "park", "listen", "match"}

Addresses == ("drt" :> Addr("drt", "far", "name")) @@ ("svc" :> Addr("service", "far", "name"))
             @@ ("rec" :> Addr("record", "far", "none")) @@ ("ws" :> Addr("ws", "far", "none"))
             @@ ("ws2" :> Addr("ws", "loopback", "none")) @@ ("odd" :> Addr("other", "far", "none"))

Ports(local, remote) == [local |-> local, remote |-> remote]
PortLists == ("p" :> <<Ports("port", "absent")>>) @@ (":ssh" :> <<Ports("empty", "target")>>)
             @@ (":h:22" :> <<Ports("empty", "target")>>)
             @@ ("p,h:80" :> <<Ports("port", "target"), Ports("word", "target")>>)
             @@ (":ssh,:80" :> <<Ports("empty", "target"), Ports("empty", "target")>>)
             @@ ("0" :> <<Ports("zero", "target")>>)

Targets == ("h:22" :> <<"h:22">>) @@ ("h" :> <<"h">>) @@ ("drt://h" :> <<"drt://h">>) @@ ("-" :> <<"-">>)
           @@ ("bare" :> <<"">>) @@ ("ssh" :> <<"ssh">>) @@ ("empty" :> <<>>)
           @@ ("h:22,h:80" :> <<"h:22", "h:80">>) @@ ("h:22,ssh://h" :> <<"h:22", "ssh://h">>)
           @@ ("ssh://h,ssh://g" :> <<"ssh://h", "ssh://g">>) @@ ("h:22,-" :> <<"h:22", "-">>)

P2pValues ==
    ("peer" :> {"drt", "svc", "odd"}) @@ ("ports" :> DOMAIN PortLists) @@ ("relay" :> {"drt", "ws"})
    @@ ("fallback" :> {"drt"}) @@ ("park" :> {"drt"}) @@ ("listen" :> {"port"}) @@ ("match" :> {"port"})
    @@ ("host" :> {"addr", "range", "name"}) @@ ("accept" :> {"cidr", "odd"}) @@ ("pair" :> {"*"})
    @@ ("forward" :> DOMAIN Targets \ {"ssh"}) @@ ("all_ports" :> {"yes"}) @@ ("forward_ports" :> {"80"})
    @@ ("signal" :> {"port"}) @@ ("fingerprint" :> {"sha", "odd"}) @@ ("capacity" :> {"2"})
    @@ ("topics" :> {"tokens", "twice", "odd", "groups", "nojwt", "inline", "unusable", "kv", "revoked"})
    @@ ("kv" :> {"dir"}) @@ ("status_token" :> {"long", "short"}) @@ ("authorized_keys" :> {"file"})
    @@ ("headers" :> {"auth", "authorization", "x", "b d"}) @@ ("stun" :> {"host:port"})

TunnelValues ==
    ("claim" :> {"ws", "ws2", "rtc:drt", "rtc:rec", "rtc:"}) @@ ("bind" :> {"p"}) @@ ("park" :> {"ws"})
    @@ ("listen" :> {"port"}) @@ ("to" :> {"ssh", "h:22"}) @@ ("headers" :> {"authorization", "x"})

\* --H and the file's headers: `auth` is the authorization header, and a
\* flag replaces the file's header of that name, which is then never read.
HeaderName(h) == IF h = "auth" THEN "authorization" ELSE h

FileHeadersRead(file, flags) ==
    Only(file, {"headers"}) # <<>>
    /\ ~("headers" \in DOMAIN flags /\ HeaderName(flags["headers"]) = HeaderName(file["headers"]))

Headers(file, flags) ==
    (IF "headers" \in DOMAIN file /\ FileHeadersRead(file, flags)
     THEN {<<HeaderName(file["headers"]), "file">>} ELSE {})
    \cup (IF "headers" \in DOMAIN flags THEN {<<HeaderName(flags["headers"]), "flag">>} ELSE {})
-----------------------------------------------------------------------------
\* resolve_with, on the merged keys g: a flag's value when both name it.

Merged(file, flags) == flags @@ file

\* The keys each role refuses, by name (belongs, serving_only).
MatchOnly == {"capacity", "topics", "kv", "status_token"}
CallOnly  == {"ports", "fingerprint", "fallback"}
Foreign(kind) ==
    CASE kind = "call" -> MatchOnly \cup {"host", "accept", "forward", "all_ports", "forward_ports", "signal",
                                          "authorized_keys"}
      [] kind = "relayed" -> {"fallback"}
      [] kind = "park" -> MatchOnly \cup CallOnly \cup {"host", "signal", "relay"}
      [] kind = "listen" -> MatchOnly \cup CallOnly \cup {"accept", "pair", "relay", "headers"}
      [] kind = "match" -> CallOnly \cup {"accept", "pair", "signal", "authorized_keys", "forward", "relay",
                                          "all_ports", "forward_ports"}

\* The keys each role's record is made of.
Used(kind) ==
    CASE kind = "call" -> {"peer", "ports", "relay", "fallback", "fingerprint", "headers", "stun"}
      [] kind = "relayed" -> {"relay", "ports", "headers", "stun"}
      [] kind = "park" -> {"park", "forward", "forward_ports", "all_ports", "accept", "pair", "headers", "stun",
                           "authorized_keys"}
      [] kind = "listen" -> {"listen", "host", "forward", "forward_ports", "all_ports", "signal", "stun",
                             "authorized_keys"}
      [] kind = "match" -> {"match", "host"} \cup MatchOnly

KindOf(g) ==
    LET roles == RoleKeys \cap DOMAIN g IN
    CASE Cardinality(roles) > 1 -> "refused"
      [] roles = {"peer"} -> "call"
      [] roles = {} -> IF "relay" \in DOMAIN g THEN "relayed" ELSE "refused"
      [] OTHER -> CHOOSE k \in roles : TRUE

Maps(g) == IF "ports" \in DOMAIN g THEN [i \in DOMAIN PortLists[g["ports"]] |-> ParsePort(PortLists[g["ports"]][i])]
           ELSE <<>>
StdioMaps(g) == {i \in DOMAIN Maps(g) : Maps(g)[i] = "stdio"}
PeerAt(g, k) == ParsePeer(Addresses[g[k]])

\* The ports beside the target; both -P and -A is a refusal of its own.
PortSet(g) ==
    CASE "forward_ports" \in DOMAIN g /\ "all_ports" \in DOMAIN g -> "refused"
      [] "forward_ports" \notin DOMAIN g /\ "all_ports" \notin DOMAIN g -> "none"
      [] OTHER -> "some"

Forwarded(g) ==
    IF "forward" \in DOMAIN g THEN ParseForward(Targets[g["forward"]], PortSet(g))
    ELSE IF PortSet(g) = "none" THEN Served("repl", <<>>) ELSE RefusedSpec

\* command_needs_a_port.
CommandOk(g, command) == command => StdioMaps(g) = {} /\ Maps(g) # <<>>

\* Everything the keys of one role say can be read, and agrees.
Sound(kind, g, command) ==
    CASE kind \in {"call", "relayed"} ->
            /\ \A k \in {"peer", "relay", "fallback"} \cap DOMAIN g : PeerAt(g, k).how # "refused"
            /\ \A i \in DOMAIN Maps(g) : Maps(g)[i] # "refused"
            /\ CommandOk(g, command)
            /\ kind = "relayed" => PeerAt(g, "relay").how = "ws"
            /\ kind = "call" =>
                  /\ PeerAt(g, "peer").service => StdioMaps(g) = {}
                  /\ Cardinality(StdioMaps(g)) <= 1
                  /\ ~({"relay", "fallback"} \subseteq DOMAIN g)
                  /\ "fingerprint" \in DOMAIN g => g["fingerprint"] # "odd"
      [] kind = "park" -> /\ PeerAt(g, "park").how # "refused" /\ Forwarded(g).kind # "refused" /\ ~command
                          /\ "accept" \in DOMAIN g => g["accept"] # "odd"
      [] kind = "listen" -> Forwarded(g).kind # "refused" /\ ~command /\ ("host" \in DOMAIN g => g["host"] # "name")
      [] kind = "match" -> /\ "host" \in DOMAIN g => g["host"] # "name"
                           /\ "status_token" \in DOMAIN g => g["status_token"] # "short"
                           /\ ~command

Refused == [kind |-> "refused", keys |-> <<>>, headers |-> {}]

Resolve(file, flags, command) ==
    LET g    == Merged(file, flags)
        kind == KindOf(g)
    IN  IF \/ \E h \in Headers(file, flags) : h[1] = "b d"
           \/ kind = "refused"
        THEN Refused
        ELSE IF Foreign(kind) \cap DOMAIN g # {} \/ ~Sound(kind, g, command) THEN Refused
        ELSE [kind |-> kind, keys |-> Only(g, Used(kind)),
              headers |-> IF "headers" \in Used(kind) THEN Headers(file, flags) ELSE {}]

-----------------------------------------------------------------------------
\* tunnel.rs: `drt tunnel`'s own keys, merged the same way into a mode.

NoMode == [mode |-> "refused", at |-> "none", to |-> "none"]
Mode(m, at, to) == [mode |-> m, at |-> at, to |-> to]

IsRtc(claim) == claim \in {"rtc:drt", "rtc:rec", "rtc:"}
RtcPeer(claim) == CASE claim = "rtc:drt" -> "drt" [] claim = "rtc:rec" -> "rec" [] OTHER -> ""

TunnelMode(t) ==
    LET modes == {"claim", "park", "listen"} \cap DOMAIN t
        to    == IF "to" \in DOMAIN t THEN t["to"] ELSE "none"
    IN  CASE modes = {"claim"} ->
              IF IsRtc(t["claim"])
              THEN IF "bind" \in DOMAIN t \/ RtcPeer(t["claim"]) = "" THEN NoMode
                   ELSE Mode("rtc", RtcPeer(t["claim"]), IF to = "none" THEN "ssh" ELSE to)
              ELSE IF to # "none" THEN NoMode
                   ELSE Mode(IF "bind" \in DOMAIN t THEN "local" ELSE "stdio", t["claim"], "none")
          [] modes \in {{"park"}, {"listen"}} ->
              LET m == CHOOSE k \in modes : TRUE IN
              IF "bind" \in DOMAIN t \/ to = "none" \/ (m = "listen" /\ "headers" \in DOMAIN t) THEN NoMode
              ELSE Mode(m, t[m], to)
          [] OTHER -> NoMode

\* from_tunnel: the same as flags of `drt p2p`; the bridge of a listen is
\* no peer and stays `drt tunnel`'s.
AliasArgs(m, t) ==
    Only(t, {"headers"}) @@
    CASE m.mode = "stdio" -> ("relay" :> m.at)
      [] m.mode = "local" -> ("relay" :> m.at) @@ ("ports" :> "p")
      [] m.mode = "park"  -> ("park" :> m.at) @@ ("forward" :> m.to)
      [] m.mode = "rtc"   -> ("peer" :> m.at) @@
                             (IF m.to # "ssh" \/ m.at # "rec"
                              THEN ("ports" :> IF m.to = "ssh" THEN ":ssh" ELSE ":h:22") ELSE <<>>)

\* from_tunnel_block: the file's block as the block `commands.p2p`.
BlockOfTunnel(t) ==
    Only(t, {"headers"}) @@
    (IF "claim" \in DOMAIN t /\ "bind" \in DOMAIN t THEN ("ports" :> "p") ELSE <<>>) @@
    (IF "claim" \notin DOMAIN t THEN <<>>
     ELSE IF ~IsRtc(t["claim"]) THEN ("relay" :> t["claim"])
     ELSE ("peer" :> (IF RtcPeer(t["claim"]) = "" THEN "odd" ELSE RtcPeer(t["claim"]))) @@
          (IF "to" \in DOMAIN t THEN ("ports" :> IF t["to"] = "ssh" THEN ":ssh" ELSE ":h:22") ELSE <<>>)) @@
    (IF "park" \notin DOMAIN t THEN <<>>
     ELSE ("park" :> t["park"]) @@ (IF "to" \in DOMAIN t THEN ("forward" :> t["to"]) ELSE <<>>))

\* The block `drt p2p` reads: one of the two, and never both; a tunnel
\* block that listens is refused.
BlockRefused(block, file) == block = "both" \/ (block = "tunnel" /\ "listen" \in DOMAIN file)
BlockRead(block, file) == IF block = "p2p" THEN file ELSE BlockOfTunnel(file)
-----------------------------------------------------------------------------
\* matchmaker.rs: the topics file, and the deployment a match server is.

ROLES == {"park", "call", "read", "write"}
Gives(topic, who, roles) == [topic |-> topic, who |-> who, roles |-> roles]
NoJwt == [jwks |-> "none", revoked |-> "none"]

\* A token twice, a topic or role that is none, groups with and without a
\* jwt block, keys in the file, unusable, and kept in the server's kv.
TopicsFile ==
    ("tokens" :> [tokens |-> <<Gives("t", "a", {"park"}), Gives("u", "a", {"call"})>>, groups |-> <<>>, jwt |-> NoJwt])
    @@ ("twice" :> [tokens |-> <<Gives("t", "a", {"park"}), Gives("t", "b", {"read"}), Gives("t", "a", {"call"})>>,
                    groups |-> <<>>, jwt |-> NoJwt])
    @@ ("odd" :> [tokens |-> <<Gives("t", "a", {"park", "rule"})>>, groups |-> <<>>, jwt |-> NoJwt])
    @@ ("nojwt" :> [tokens |-> <<>>, groups |-> <<Gives("t", "g", {"call"})>>, jwt |-> NoJwt])
    @@ ("groups" :> [tokens |-> <<>>, groups |-> <<Gives("t", "g", {"call"})>>,
                     jwt |-> [jwks |-> "inline", revoked |-> "none"]])
    @@ ("inline" :> [tokens |-> <<>>, groups |-> <<>>, jwt |-> [jwks |-> "inline", revoked |-> "none"]])
    @@ ("unusable" :> [tokens |-> <<>>, groups |-> <<>>, jwt |-> [jwks |-> "unusable", revoked |-> "none"]])
    @@ ("kv" :> [tokens |-> <<>>, groups |-> <<>>, jwt |-> [jwks |-> "kv", revoked |-> "none"]])
    @@ ("revoked" :> [tokens |-> <<>>, groups |-> <<>>, jwt |-> [jwks |-> "inline", revoked |-> "kv"]])

\* roles_into: a token or a group listed twice holds all its roles.
RolesInto(held, e) ==
    LET k == <<e.topic, e.who>> IN
    (k :> (e.roles \cup IF k \in DOMAIN held THEN held[k] ELSE {})) @@ held

\* topics_from_text and jwt_block.
TopicsRefused(f) ==
    \/ \E e \in ToSet(f.tokens) \cup ToSet(f.groups) : e.roles = {} \/ ~(e.roles \subseteq ROLES)
    \/ f.groups # <<>> /\ f.jwt.jwks = "none"
    \/ f.jwt.jwks = "unusable"
JwksInKv(f) == f.jwt.jwks = "kv"
RevokedInKv(f) == f.jwt.revoked = "kv" \/ JwksInKv(f)

NoTopics == [tokens |-> <<>>, groups |-> <<>>, jwt |-> NoJwt]
TopicsOf(role) == IF "topics" \in DOMAIN role.keys THEN TopicsFile[role.keys["topics"]] ELSE NoTopics
HasKv(role) == "kv" \in DOMAIN role.keys

StartRefused(role) ==
    \/ TopicsRefused(TopicsOf(role))
    \/ (JwksInKv(TopicsOf(role)) \/ RevokedInKv(TopicsOf(role))) /\ ~HasKv(role)

\* wire_kv and wire_jwt_verify: the connectors, and the grants, which are
\* explicit as soon as one is named.
KvCaps  == {"host:sql/*", "host:time", "host:time/*"}
JwtCaps == {"host:crypto/jwt_verify", "host:time", "host:time/*"}
JwtOn(role) == TopicsOf(role).jwt.jwks # "none"

Wired(role) ==
    [connectors |-> {"time"} \cup (IF HasKv(role) THEN {"sql"} ELSE {}) \cup (IF JwtOn(role) THEN {"crypto"} ELSE {}),
     caps |-> (IF HasKv(role) THEN KvCaps ELSE {}) \cup (IF JwtOn(role) THEN JwtCaps ELSE {}),
     tokens |-> FoldLeft(RolesInto, <<>>, TopicsOf(role).tokens),
     groups |-> FoldLeft(RolesInto, <<>>, TopicsOf(role).groups)]
-----------------------------------------------------------------------------
\* The operator writes the file and the command line, one key at a time.

Typing == [pc |-> "typing", file |-> <<>>, flags |-> <<>>, command |-> FALSE]
Keys(which) == IF which = "p2p" THEN P2pValues ELSE TunnelValues
Written == Cardinality(DOMAIN verb.file) + Cardinality(DOMAIN verb.flags) + (IF verb.command THEN 1 ELSE 0)

Write ==
    /\ verb.pc = "typing" /\ Written < MaxKeys
    /\ \/ LET V == Keys(verb.block) IN
          \E k \in DOMAIN V \ DOMAIN verb.file : \E v \in V[k] : verb' = [verb EXCEPT !.file = (k :> v) @@ @]
       \/ LET V == Keys(verb.cmd) IN
          \E k \in DOMAIN V \ DOMAIN verb.flags : \E v \in V[k] : verb' = [verb EXCEPT !.flags = (k :> v) @@ @]
       \/ verb.cmd = "p2p" /\ ~verb.command /\ verb' = [verb EXCEPT !.command = TRUE]

\* What runs: p2p's own keys, or tunnel's, whose mode is handed to p2p as
\* flags while the config is read again (cli.rs, Command::Tunnel).
Resolved(flags, mode) ==
    LET file == BlockRead(verb.block, verb.file)
        role == IF BlockRefused(verb.block, verb.file) THEN Refused ELSE Resolve(file, flags, verb.command)
    IN  verb' = [verb EXCEPT !.pc = "resolved"] @@ [role |-> role, mode |-> mode]

RunP2p == verb.pc = "typing" /\ verb.cmd = "p2p" /\ Resolved(verb.flags, NoMode)

RunTunnel ==
    /\ verb.pc = "typing" /\ verb.cmd = "tunnel"
    /\ LET t == Merged(IF verb.block = "p2p" THEN <<>> ELSE verb.file, verb.flags)
           m == TunnelMode(t)
       IN  IF m.mode \in {"refused", "listen"} THEN verb' = [pc |-> "ended"]
           ELSE Resolved(AliasArgs(m, t), m)

\* matchmaker::run.
StartMatch ==
    /\ verb.pc = "resolved" /\ verb.role.kind = "match"
    /\ verb' = IF StartRefused(verb.role) THEN [pc |-> "ended"]
               ELSE [pc |-> "serving", role |-> verb.role, wired |-> Wired(verb.role)]
-----------------------------------------------------------------------------
\* http.rs: the caller's one request.  The server (external) sends what its
\* head says, or closes early; "n" is a chunk's size, 0 the end of line.

Size(n) == <<"size", n>>
Eol == <<"eol", 0>>
Byte(i) == <<"byte", i>>
Bytes(n) == [i \in 1..n |-> Byte(i)]

\* n bytes in two chunks, or in one.
Chunked(n, k) ==
    LET chunk(a, b) == IF b < a THEN <<>> ELSE <<Size(b - a + 1), Eol>> \o [i \in 1..(b - a + 1) |-> Byte(a + i - 1)] \o <<Eol>>
    IN  chunk(1, k) \o chunk(k + 1, n) \o <<Size(0), Eol, Eol>>

\* exchange: how the body's end is known.
Framing(chunked, length, status) ==
    CASE chunked -> [how |-> "chunked", left |-> 0]
      [] ~chunked /\ length -> [how |-> "length", left |-> MaxBody]
      [] ~chunked /\ ~length /\ status = 204 -> [how |-> "length", left |-> 0]
      [] OTHER -> [how |-> "close", left |-> 0]

\* A call is asked for at the server its peer's address names.
Ask ==
    /\ verb.pc = "resolved" /\ verb.role.kind = "call" /\ PeerAt(verb.role.keys, "peer").how = "signal"
    /\ "relay" \notin DOMAIN verb.role.keys
    /\ verb' = [pc |-> "asked"]

\* The reply's head: none within the time or the bound, or one that frames its body.
HeadFails == verb.pc = "asked" /\ verb' = [pc |-> "ended"]
HeadComes ==
    /\ verb.pc = "asked"
    /\ \E chunked, length \in BOOLEAN, status \in {200, 204, 503}, k \in 0..MaxBody :
          verb' = [pc |-> "body", status |-> status, frame |-> Framing(chunked, length, status), pending |-> <<>>,
                   wire |-> IF chunked THEN Chunked(MaxBody, k) ELSE IF ~length /\ status = 204 THEN <<>> ELSE Bytes(MaxBody),
                   meant |-> IF ~chunked /\ ~length /\ status = 204 THEN 0 ELSE MaxBody, got |-> <<>>]

\* fill: some of what is on the wire, or the end of it.
Fill(b, n) == [b EXCEPT !.pending = @ \o SubSeq(b.wire, 1, n), !.wire = SubSeq(@, n + 1, Len(@))]

Ends(b, how) == [pc |-> how, status |-> b.status, frame |-> b.frame, meant |-> b.meant, got |-> b.got]
Takes(b, n) == [b EXCEPT !.got = @ \o SubSeq(b.pending, 1, n), !.pending = SubSeq(@, n + 1, Len(@))]

\* A byte past the bound ends the reply.
Bounded(b) == IF Len(b.got) > MAX_REPLY THEN Ends(b, "failed") ELSE b

HasLine(b) == \E i \in DOMAIN b.pending : b.pending[i] = Eol
Short(b) == IF b.frame.how = "chunked" /\ b.frame.left = 0 THEN ~HasLine(b) ELSE b.pending = <<>>
Over(b) == b.frame.how = "length" /\ b.frame.left = 0

\* Body::next wants more: bytes come, or the connection is closed, which
\* ends a body framed by it and fails any other.
Reads ==
    /\ verb.pc = "body" /\ ~Over(verb) /\ Short(verb)
    /\ \/ \E n \in 1..Len(verb.wire) : verb' = Fill(verb, n)
       \/ verb' = Ends(verb, IF verb.frame.how = "close" THEN "answered" ELSE "failed")

Line(b) == SelectInSeq(b.pending, LAMBDA x : x = Eol)

\* Body::next: the next piece, the size of the next chunk, or the end.
NextPiece ==
    /\ verb.pc = "body"
    /\ \/ Over(verb) /\ verb' = Ends(verb, "answered")
       \/ /\ ~Over(verb) /\ ~Short(verb)
          /\ LET b == verb
                 n == IF b.frame.how = "close" \/ Len(b.pending) < b.frame.left THEN Len(b.pending) ELSE b.frame.left
             IN  IF b.frame.how = "chunked" /\ b.frame.left = 0
                 THEN LET rest == SubSeq(b.pending, Line(b) + 1, Len(b.pending)) IN
                      IF Line(b) = 1 THEN verb' = [b EXCEPT !.pending = rest]
                      ELSE IF b.pending[1] = Size(0) THEN verb' = Ends(b, "answered")
                      ELSE verb' = [b EXCEPT !.pending = rest, !.frame.left = b.pending[1][2]]
                 ELSE verb' = Bounded([Takes(b, n) EXCEPT !.frame.left = IF b.frame.how = "close" THEN 0 ELSE @ - n])

TimesOut == verb.pc = "body" /\ verb' = Ends(verb, "failed")
-----------------------------------------------------------------------------
Init == \E cmd \in Commands, block \in Blocks : verb = [cmd |-> cmd, block |-> block] @@ Typing

Next == \/ Write \/ RunP2p \/ RunTunnel \/ StartMatch
        \/ Ask \/ HeadFails \/ HeadComes \/ Reads \/ NextPiece \/ TimesOut

Spec == Init /\ [][Next]_verb
-----------------------------------------------------------------------------
TypeOK == verb.pc \in {"typing", "resolved", "serving", "asked", "body", "answered", "failed", "ended"}

Ran == verb.pc = "resolved" /\ verb.role.kind # "refused"

\* No key of another role is left lying: what a role is made of is what was
\* written, but for `pair` beside a call, headers and stun beside a match,
\* and the call whose relay names its destination, which looks at its own
\* keys only (resolve_with).
Overlooked(kind) ==
    CASE kind = "call" -> {"pair"}
      [] kind = "relayed" -> DOMAIN P2pValues \ ({"fallback"} \cup RoleKeys)
      [] kind = "match" -> {"headers", "stun"}
      [] OTHER -> {}
KeysCount ==
    Ran => \A k \in DOMAIN Merged(BlockRead(verb.block, verb.file), IF verb.cmd = "p2p" THEN verb.flags ELSE <<>>) :
              k \in DOMAIN verb.role.keys \cup Overlooked(verb.role.kind)

\* `drt tunnel` is the peer, the park or the relay that its own keys name,
\* a flag's before the file's, once it is run as `drt p2p` (from_tunnel).
MeansMode(role, m) ==
    CASE m.mode \in {"stdio", "local"} -> role.kind = "relayed" /\ role.keys["relay"] = m.at
      [] m.mode = "rtc" -> role.kind = "call" /\ role.keys["peer"] = m.at /\ "relay" \notin DOMAIN role.keys
      [] OTHER -> role.kind = "park" /\ role.keys["park"] = m.at
FlagsWin == Ran /\ verb.cmd = "tunnel" /\ verb.block = "tunnel" => MeansMode(verb.role, verb.mode)

\* `drt p2p` with a tunnel block is what `drt tunnel` with that block alone
\* is: the same peer, relay or park (from_tunnel_block against from_tunnel).
BlockAgrees ==
    Ran /\ verb.cmd = "p2p" /\ verb.block = "tunnel" /\ verb.flags = <<>> /\ TunnelMode(verb.file).mode # "refused" =>
        MeansMode(verb.role, TunnelMode(verb.file))

\* One header of a name goes out, the flag's when both name it (headers).
OneHeader ==
    Ran => /\ \A h, i \in verb.role.headers : h[1] = i[1] => h = i
           /\ verb.cmd = "p2p" /\ "headers" \in DOMAIN verb.flags /\ verb.role.headers # {} =>
                 <<HeaderName(verb.flags["headers"]), "flag">> \in verb.role.headers

\* A caller can name each of several targets, by its address and by its
\* service (ForwardSpec::parse).
TargetsApart ==
    Ran /\ verb.role.kind \in {"park", "listen"} =>
        LET e == Forwarded(verb.role.keys).entries IN
        \A i, j \in DOMAIN e : i # j => /\ <<e[i].host, e[i].port>> # <<e[j].host, e[j].port>>
                                        /\ e[i].scheme # "tcp" => e[i].scheme # e[j].scheme

\* Addresses that name the same peer have one spelling, whatever they leave
\* to be understood, and those of different peers have two (Peer::canonical).
Secure(a) == a.form = "https" \/ (a.form \in {"bare", "drt", "service"} /\ a.host = "far")
SamePeer(a, b) ==
    /\ ParsePeer(a).how = ParsePeer(b).how /\ a.host = b.host
    /\ ParsePeer(a).how = "signal" => Secure(a) = Secure(b)
    /\ ParsePeer(a).how # "record" => a.path = b.path \/ (a.form # "ws" /\ {a.path, b.path} = {"name", "calls"})
OneSpelling ==
    \A a, b \in {x \in Address : ParsePeer(x).how # "refused"} :
        SamePeer(a, b) <=> Canonical(ParsePeer(a)) = Canonical(ParsePeer(b))

\* A token holds the roles that the file lists for it and no others, and
\* the program can read its clock whatever else it was granted
\* (load_topics, wire_kv, wire_jwt_verify).
Serves == verb.pc = "serving"
TopicsExact ==
    Serves => LET f == TopicsOf(verb.role) IN
              \A e \in ToSet(f.tokens) : verb.wired.tokens[<<e.topic, e.who>>] =
                  UNION {x.roles : x \in {y \in ToSet(f.tokens) : y.topic = e.topic /\ y.who = e.who}}
ClockReached == Serves => verb.wired.caps = {} \/ {"host:time", "host:time/*"} \subseteq verb.wired.caps
KvBehind == Serves /\ RevokedInKv(TopicsOf(verb.role)) => "sql" \in verb.wired.connectors

\* A reply is whole, or it is an error: what was read is what the server
\* sent from its first byte on, all of it unless only the end of the
\* connection says where it ends (Body::next, request_limited).
ReplyWhole ==
    verb.pc \in {"body", "answered"} =>
        /\ \A i \in DOMAIN verb.got : verb.got[i] = Byte(i)
        /\ verb.pc = "answered" =>
              /\ Len(verb.got) <= MAX_REPLY
              /\ verb.frame.how # "close" => Len(verb.got) = verb.meant
=============================================================================
