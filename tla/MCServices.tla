----------------------------- MODULE MCServices -----------------------------
(***************************************************************************)
(* The parts of drt that share no state with one another, each checked on  *)
(* its own small instance in one run: a behaviour is one part's, chosen at *)
(* the start.  The bounds are the values given to each INSTANCE below.     *)
(***************************************************************************)
EXTENDS Integers, Sequences, TLC

VARIABLES part,   \* whose behaviour this is
          s1, s2, s3, s4, s5, s6, s7, s8, s9, s10   \* that part's variables, in the order it declares them

state == <<s1, s2, s3, s4, s5, s6, s7, s8, s9, s10>>

(* The variables a part has no use for keep one value.                     *)
Idle == "idle"
NoneFrom8 == s8 = Idle /\ s9 = Idle /\ s10 = Idle
NoneFrom6 == s6 = Idle /\ s7 = Idle /\ NoneFrom8
NoneFrom2 == s2 = Idle /\ s3 = Idle /\ s4 = Idle /\ s5 = Idle /\ NoneFrom6
KeepFrom8 == UNCHANGED <<s8, s9, s10>>
KeepFrom6 == UNCHANGED <<s6, s7>> /\ KeepFrom8
KeepFrom2 == UNCHANGED <<s2, s3, s4, s5>> /\ KeepFrom6

-----------------------------------------------------------------------------
(* Names to grant and to ask for: a prefix of another, a star inside the   *)
(* family and one over everything.                                         *)
CapNames == {<<"a">>, <<"a", "a">>, <<"a", "b">>, <<"a", "*">>, <<"a", "a", "*">>, <<"*">>}
CapWants == {<<"a">>, <<"b">>, <<"*">>} \cup {<<"a", x>> : x \in {"a", "b"}}
            \cup {<<"a", x, y>> : x, y \in {"a", "b"}}

(* Ceilings that grow, that deny what they allow, and that name nothing.   *)
Ceiling(allow, deny, roles) == [allow |-> allow, deny |-> deny, roles |-> roles]
BootCeilings == {Ceiling({"r"}, {}, {}), Ceiling({"r", "w"}, {}, {}), Ceiling({"r", "w"}, {"w"}, {"p"}),
                 Ceiling({}, {}, {})}
BootCaps     == {[allow |-> {}, deny |-> {}], [allow |-> {"r", "w"}, deny |-> {}], [allow |-> {"r"}, deny |-> {"w"}]}

(* Requests that differ in their window only, at its end and at its start: *)
(* one starts after an early not_after.  Two realms: one covers the other. *)
GsrRealms   == {<<"net">>, <<"net", "dns">>}
GsrRequests == {[realm |-> <<"net">>, from |-> w[1], until |-> w[2]] : w \in {<<0, 0>>, <<0, 1>>, <<2, 2>>}}

(* One caller may derive every name, the other one label.                  *)
CryptoPermits == [c \in {"x", "y"} |-> IF c = "x" THEN {"room", "hook"} ELSE {"room"}]

(* Places to ask what they see: none, one, one twice, two.                 *)
NetPlans == {<<>>, <<"gate1">>, <<"gate1", "gate1">>, <<"gate1", "gate2">>}

(* A directory in the grant and one beside it that a link leads to.        *)
StoreParent  == ("scope" :> "top") @@ ("sub" :> "scope") @@ ("away" :> "top") @@ ("top" :> "top")
StoreEntries ==
    (<<"scope", "f">> :> <<"scope", "f">>) @@ (<<"scope", "d">> :> <<"sub">>) @@ (<<"scope", "l">> :> <<"away">>)
    @@ (<<"sub", "g">> :> <<"sub", "g">>) @@ (<<"away", "g">> :> <<"away", "g">>)
StorePaths   == {<<>>, <<"f">>, <<"d", "g">>, <<"d", "..", "n">>, <<"..", "away", "g">>, <<"l", "g">>,
                 <<"l", "..", "away", "g">>}

(* A text that reads as a number, one to quote, and one of two lines.      *)
DataTexts == {<<"1">>, <<"q", ",">>, <<"n">>}
-----------------------------------------------------------------------------
Exec    == INSTANCE Exec WITH run <- s1, Cap <- 2, MaxChunks <- 3
Ssh     == INSTANCE Ssh WITH ssh <- s1, HostKeys <- {"k1", "k2"}, MaxSessions <- 2, MaxTyped <- 4,
                             PASSWORD_TRIES <- 2, Cap <- 1
Caps    == INSTANCE Caps WITH caps <- s1, Names <- CapNames, Wants <- CapWants, MaxGrants <- 2
Console == INSTANCE Console WITH con <- s1, Sessions <- {1}, MaxAsks <- 2
Repl    == INSTANCE Repl WITH repl <- s1, MaxLines <- 4, MaxRuns <- 1
Rest    == INSTANCE Rest WITH rest <- s1, MAX_BODY <- 3, Slack <- 5, MaxBytes <- 4
Ldap    == INSTANCE Ldap WITH ldap <- s1, MAX_ENTRIES <- 2, MaxHeld <- 3
Ssmtp   == INSTANCE Ssmtp WITH mail <- s1, Addresses <- {"a", "b", "x"}, Allowed <- {"a", "b"},
                               MAX_RECIPIENTS <- 2, MaxLines <- 2
Boot    == INSTANCE Boot WITH root <- s1, Ceilings <- BootCeilings, ProfileCaps <- BootCaps,
                              AllNames <- {"r", "w", "x"}, MaxEdits <- 1
Gsr     == INSTANCE Gsr WITH gsr <- s1, Request <- GsrRequests, Realms <- GsrRealms, Keys <- {"k1"},
                             MaxTime <- 2, MaxFiles <- 2, MaxEdits <- 1
Crypto  == INSTANCE Crypto WITH crypto <- s1, Callers <- {"x", "y"}, Labels <- {"room"},
                                Permits <- CryptoPermits, Configured <- {"hook"}, TTL_MAX <- 2,
                                TOTP_WINDOW_MAX <- 2, Base <- 2, MaxTime <- 1, MaxTokens <- 1
Kv      == INSTANCE Kv WITH kv <- s1, Keys <- {"a", "b"}, Wanted <- {"a"}, Progs <- {1, 2},
                            KV_EVENTS_KEPT <- 2, MaxRevision <- 3, MaxTime <- 1
Stores  == INSTANCE Stores WITH store <- s1, Dbs <- {"d1", "d2"}, MAX_DBS <- 1, max_result_rows <- 1,
                                Paths <- StorePaths, Entries <- StoreEntries, Parent <- StoreParent,
                                Granted <- {"scope", "sub"}, max_bytes <- 2, MaxWrites <- 2
P2pVerb == INSTANCE P2pVerb WITH verb <- s1, Commands <- {"p2p", "tunnel"}, Blocks <- {"p2p", "tunnel", "both"},
                                 MaxKeys <- 3, MAX_REPLY <- 2, MaxBody <- 3
Data    == INSTANCE Data WITH data <- s1, Texts <- DataTexts, MaxCols <- 2, MaxRows <- 2,
                              Formats <- {"parquet", "csv"}
Plugin  == INSTANCE Plugin WITH scope <- s1, session <- s2, call <- s3, next <- s4, gone <- s5,
                                Inst <- {1, 2}, MaxCalls <- 2, max_inflight <- 1, Scopes <- {"node", "root"},
                                MaxFrames <- 1
Netcheck == INSTANCE Netcheck WITH net <- s1, ask <- s2, m <- s3, at <- s4, pin <- s5, fresh <- s6, touched <- s7,
                                   Plans <- NetPlans, ProbeAt <- "gate2"
Forward == INSTANCE Forward WITH role <- s1, wire <- s2, relay <- s3, task <- s4, dest <- s5, opens <- s6, lock <- s7,
                                 held <- s8, alive <- s9, Modes <- {"direct", "relay", "fallback", "serve"},
                                 Opens <- {"k1", "k2"}, MaxPackets <- 2
Wireguard == INSTANCE Wireguard WITH peers <- s1, last <- s2, dev <- s3, alloc <- s4, clones <- s5, taken <- s6,
                                     relaying <- s7, pc <- s8, cmd <- s9, told <- s10, Keys <- {"k1", "k2"},
                                     Addrs <- {1, 2}, MaxCommands <- 3, MaxAllocs <- 2
-----------------------------------------------------------------------------
Init ==
    \/ /\ NoneFrom2
       /\ \/ part = "exec" /\ Exec!Init
          \/ part = "ssh" /\ Ssh!Init
          \/ part = "caps" /\ Caps!Init
          \/ part = "console" /\ Console!Init
          \/ part = "repl" /\ Repl!Init
          \/ part = "rest" /\ Rest!Init
          \/ part = "ldap" /\ Ldap!Init
          \/ part = "ssmtp" /\ Ssmtp!Init
          \/ part = "boot" /\ Boot!Init
          \/ part = "gsr" /\ Gsr!Init
          \/ part = "crypto" /\ Crypto!Init
          \/ part = "kv" /\ Kv!Init
          \/ part = "stores" /\ Stores!Init
          \/ part = "p2p" /\ P2pVerb!Init
          \/ part = "data" /\ Data!Init
    \/ part = "plugin" /\ Plugin!Init /\ NoneFrom6
    \/ part = "netcheck" /\ Netcheck!Init /\ NoneFrom8
    \/ part = "forward" /\ Forward!Init /\ s10 = Idle
    \/ part = "wireguard" /\ Wireguard!Init

Next ==
    /\ part' = part
    /\ \/ /\ KeepFrom2
          /\ \/ part = "exec" /\ Exec!Next
             \/ part = "ssh" /\ Ssh!Next
             \/ part = "caps" /\ Caps!Next
             \/ part = "console" /\ Console!Next
             \/ part = "repl" /\ Repl!Next
             \/ part = "rest" /\ Rest!Next
             \/ part = "ldap" /\ Ldap!Next
             \/ part = "ssmtp" /\ Ssmtp!Next
             \/ part = "boot" /\ Boot!Next
             \/ part = "gsr" /\ Gsr!Next
             \/ part = "crypto" /\ Crypto!Next
             \/ part = "kv" /\ Kv!Next
             \/ part = "stores" /\ Stores!Next
             \/ part = "p2p" /\ P2pVerb!Next
             \/ part = "data" /\ Data!Next
       \/ part = "plugin" /\ Plugin!Next /\ KeepFrom6
       \/ part = "netcheck" /\ Netcheck!Next /\ KeepFrom8
       \/ part = "forward" /\ Forward!Next /\ UNCHANGED s10
       \/ part = "wireguard" /\ Wireguard!Next

Spec == Init /\ [][Next]_<<part, state>>
-----------------------------------------------------------------------------
(* Nobody gets more than was granted, whatever the order of what happens:  *)
(* an attenuated or principal's capability set stays within its ceiling    *)
(* (drt-caps), a root runs within the ceiling that was consented to        *)
(* (boot.rs), a token verifies if and only if it was signed by one allowed *)
(* to, and a one-time code is taken once (crypto), a login was answered    *)
(* for by the directory (ldap), a session goes to the host key accepted    *)
(* first (ssh), a path leads nowhere outside the grant (fs), a topic's     *)
(* token holds the roles its file lists, and no key of a p2p role but the  *)
(* ones named there is left without effect (p2p).                          *)
AuthorityHeld ==
    CASE part = "caps"   -> Caps!Narrows /\ Caps!PrincipalWithin
      [] part = "boot"   -> Boot!RunsWithin
      [] part = "crypto" -> Crypto!OnlySigned /\ Crypto!SignedVerifies /\ Crypto!CodesOnce
      [] part = "ldap"   -> Ldap!LoginEarned
      [] part = "ssh"    -> Ssh!OneHostKey
      [] part = "stores" -> Stores!Jailed
      [] part = "p2p"    -> P2pVerb!KeysCount /\ P2pVerb!TopicsExact /\ P2pVerb!ClockReached /\ P2pVerb!KvBehind
      [] OTHER -> TRUE

(* What a caller is answered is all there was, and its own: the body the   *)
(* server sent or an error (rest), all the output or a refusal (exec), all *)
(* the rows (sql) and entries or the word that some are missing (ldap),    *)
(* the mail that was meant (ssmtp), each line once (repl), the answer to   *)
(* the question asked (console), the bytes typed less the escapes (ssh),   *)
(* and a signalling server's whole reply, asked for with one header of a   *)
(* name (p2p).                                                             *)
AnswersTrue ==
    CASE part = "rest"    -> Rest!WholeBody
      [] part = "exec"    -> Exec!WholeOrRefused
      [] part = "stores"  -> Stores!RowsWhole
      [] part = "ldap"    -> Ldap!TruncationTold
      [] part = "ssmtp"   -> Ssmtp!SentAsMeant
      [] part = "repl"    -> Repl!LinesOnce
      [] part = "console" -> Console!AnswersMatch
      [] part = "ssh"     -> Ssh!EscapeExact
      [] part = "p2p"     -> P2pVerb!ReplyWhole /\ P2pVerb!OneHeader
      [] OTHER -> TRUE

(* What was stored stays, or its loss is said: concurrent compare-and-set  *)
(* loses no update, a watcher misses no change over restarts and resets,   *)
(* a key with a time to live is swept (kv); rows answered ok are in the    *)
(* database or named at the end, a file never outgrows its cap (sql, fs);  *)
(* a table is read back as it was written, whichever rows are asked for    *)
(* (data).                                                                 *)
StoredTrue ==
    CASE part = "kv"     -> Kv!NoneLost /\ Kv!WatchTrue /\ Kv!SweepComes
      [] part = "stores" -> Stores!LossNamed /\ Stores!CapHeld
      [] part = "data"   -> Data!RangeExact /\ Data!CsvExact
      [] OTHER -> TRUE

(* Nothing is left behind by what ended: no process of an exec call, no    *)
(* raw terminal of an ssh session, no stop a console forgot, no slot of a  *)
(* plugin's session, which fails only by the process's own doing.          *)
NothingLeftBehind ==
    CASE part = "exec"    -> Exec!NothingOutlives
      [] part = "ssh"     -> Ssh!Restored
      [] part = "console" -> Console!StopHeard
      [] part = "plugin"  -> Plugin!Innocent /\ Plugin!SlotsTrue
      [] OTHER -> TRUE

(* What a program is told of the network is what was seen: a verdict rests *)
(* on measurements that bear it (netcheck.rs), every change of a peer and  *)
(* of the device is told (wireguard.rs), a relayed call is mirrored packet *)
(* by packet and its answer heard to the end, over one call (call.rs,      *)
(* serve.rs); a peer has one spelling, a forward's targets can be told     *)
(* apart, and a tunnel's block names the same peer to both verbs (p2p).    *)
NetworkTold ==
    CASE part = "netcheck"  -> Netcheck!CompareTrue /\ Netcheck!VerdictEarned
      [] part = "wireguard" -> Wireguard!ChangeTold /\ Wireguard!DownTold
      [] part = "p2p"       -> P2pVerb!OneSpelling /\ P2pVerb!TargetsApart /\ P2pVerb!BlockAgrees
      [] part = "forward"   -> Forward!OneCall /\ Forward!Mirrored /\ Forward!AnswerHeard
      [] OTHER -> TRUE

(* A step that says something has earned it: a grant the desk answers      *)
(* rests on a decision signed for that realm and window by a key the       *)
(* operator's consent names (gsr.rs), no call on a failed plugin session   *)
(* is answered until its process is released (plugin), and the alarm that  *)
(* a relay was lost comes to one that was relaying (wireguard.rs).         *)
StepsEarned ==
    [][/\ part = "gsr" => Gsr!GrantStep
       /\ part = "plugin" => Plugin!FailureStep
       /\ part = "wireguard" => Wireguard!AlarmStep]_<<part, state>>
=============================================================================
