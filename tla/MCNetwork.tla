----------------------------- MODULE MCNetwork -----------------------------
(***************************************************************************)
(* The parts of drt's network side whose promises need its loops to go on: *)
(* the tunnel relay, the wisp streams of a session, the pairing host and   *)
(* the bridges that report to a program's queue.  They share no state with *)
(* one another, so a behaviour is one part's, chosen at the start, and the *)
(* variables of the others keep one value.                                 *)
(***************************************************************************)
EXTENDS Integers, Sequences

CONSTANTS Legs, Callers, CHANNEL,                        \* Relay
          Streams, WISP_BUFFER, max_streams, ROOM, MaxData, MaxUnheard,   \* Wisp
          Calls, Pairs, Names, Allowed, Direct, max_sessions, LAG,        \* P2p
          Kinds, HELD_MAX, MaxMade,                      \* Bridges
          QueueCap                                       \* Relay and Bridges

VARIABLES part,   \* whose behaviour this is
          ws, lot, events, asks, pending, queue, replies,                          \* Relay
          call, serve, up, down, outbox, gate, said, target, heard, live,          \* Wisp
          page, pair, commands, sess, reports, ever,                               \* P2p
          kind, made, channel, keep, declared, inbox, got, lost, counter, sent, seen   \* Bridges

Relay   == INSTANCE Relay
Wisp    == INSTANCE Wisp
P2p     == INSTANCE P2p
Bridges == INSTANCE Bridges

\* Numbers that size a buffer or bound a count; websockets are positive
\* numbers, streams are numbered, peers of different kinds have different
\* names, and a bridge holds a report at least (HELD_MAX is 64 or 4096).
ASSUME NetworkAssumption ==
    /\ {CHANNEL, WISP_BUFFER, max_streams, ROOM, MaxData, MaxUnheard, max_sessions, LAG, MaxMade, QueueCap} \subseteq Nat
    /\ Legs \cup Callers \subseteq Nat \ {0} /\ Legs \cap Callers = {}
    /\ Streams \subseteq Nat
    /\ Names \cap (Calls \cup Direct) = {} /\ Allowed \subseteq Pairs \X Names
    /\ HELD_MAX \in Nat \ {0}

relayVars  == <<ws, lot, events, asks, pending, queue, replies>>
wispVars   == <<call, serve, up, down, outbox, gate, said, target, heard, live>>
p2pVars    == <<page, pair, commands, sess, reports, ever>>
bridgeVars == <<kind, made, channel, keep, declared, inbox, got, lost, counter, sent, seen>>
vars == <<part, relayVars, wispVars, p2pVars, bridgeVars>>
-----------------------------------------------------------------------------
Idle == "idle"

NoRelay ==
    ws = Idle /\ lot = Idle /\ events = Idle /\ asks = Idle /\ pending = Idle /\ queue = Idle /\ replies = Idle
NoWisp ==
    /\ call = Idle /\ serve = Idle /\ up = Idle /\ down = Idle /\ outbox = Idle
    /\ gate = Idle /\ said = Idle /\ target = Idle /\ heard = Idle /\ live = Idle
NoP2p == page = Idle /\ pair = Idle /\ commands = Idle /\ sess = Idle /\ reports = Idle /\ ever = Idle
NoBridges ==
    /\ kind = Idle /\ made = Idle /\ channel = Idle /\ keep = Idle /\ declared = Idle /\ inbox = Idle
    /\ got = Idle /\ lost = Idle /\ counter = Idle /\ sent = Idle /\ seen = Idle

Init ==
    \/ part = "relay"   /\ Relay!Init   /\ NoWisp  /\ NoP2p  /\ NoBridges
    \/ part = "wisp"    /\ Wisp!Init    /\ NoRelay /\ NoP2p  /\ NoBridges
    \/ part = "p2p"     /\ P2p!Init     /\ NoRelay /\ NoWisp /\ NoBridges
    \/ part = "bridges" /\ Bridges!Init /\ NoRelay /\ NoWisp /\ NoP2p

\* A step of one part.
RelayStep(a)   == part = "relay"   /\ a /\ UNCHANGED <<part, wispVars, p2pVars, bridgeVars>>
WispStep(a)    == part = "wisp"    /\ a /\ UNCHANGED <<part, relayVars, p2pVars, bridgeVars>>
P2pStep(a)     == part = "p2p"     /\ a /\ UNCHANGED <<part, relayVars, wispVars, bridgeVars>>
BridgesStep(a) == part = "bridges" /\ a /\ UNCHANGED <<part, relayVars, wispVars, p2pVars>>

Next == RelayStep(Relay!Next) \/ WispStep(Wisp!Next) \/ P2pStep(P2p!Next) \/ BridgesStep(Bridges!Next)

(* A step of one part's loop is weakly fair, as that part's own FairSpec   *)
(* says and explains.                                                      *)
Fair ==
    /\ \A s \in Legs : SF_vars(RelayStep(Relay!ParkTask(s)))
    /\ \A c \in Callers : SF_vars(RelayStep(Relay!ClaimTask(c)))
    /\ WF_vars(WispStep(Wisp!CallerReceive)) /\ WF_vars(WispStep(Wisp!HostReceive)) /\ WF_vars(WispStep(Wisp!Room))
    /\ \A s \in Streams : WF_vars(WispStep(Wisp!HostInternal(s))) /\ WF_vars(WispStep(Wisp!Dialled(s)))
    /\ WF_vars(P2pStep(P2p!OnCommand)) /\ WF_vars(P2pStep(P2p!Broadcast))
    /\ \A p \in Calls \cup Names \cup Direct : WF_vars(P2pStep(P2p!NeverConnected(p)))
    /\ WF_vars(BridgesStep(Bridges!Pass)) /\ WF_vars(BridgesStep(Bridges!Read))

Spec == Init /\ [][Next]_vars /\ Fair
-----------------------------------------------------------------------------
(* Nobody is served who was not let in, and what is said of a session is   *)
(* true of it: a leg of the relay was admitted and is with one caller at   *)
(* most (relay.rs), a pairing the rule forbids calls nobody and is called  *)
(* connected only when it was (serve.rs), and every stream opened is       *)
(* reported closed once (host.rs).                                         *)
AdmittedAndTold ==
    CASE part = "relay" -> Relay!OneCaller /\ Relay!OnlyAdmitted
      [] part = "p2p"   -> P2p!ToldTrue /\ P2p!OnlyAllowed
      [] part = "wisp"  -> Wisp!Audited
      [] OTHER -> TRUE

(* What arrives arrives in the order it was sent and without a gap nobody  *)
(* was told of: the bytes of a stream at its target (caller.rs, host.rs),  *)
(* and the reports a bridge holds for a queue that is full or not declared *)
(* yet (start.rs).                                                         *)
ArrivesInOrder ==
    CASE part = "wisp"    -> Wisp!InOrder
      [] part = "bridges" -> Bridges!HeardInOrder /\ Bridges!HeldKept
      [] OTHER -> TRUE

(* One end does not outlive the other: both ends of a splice end if their  *)
(* peers read what is written to them (relay.rs),                          *)
(* a stream one side forgot is forgotten by the other (host.rs), a pairing *)
(* given up leaves no session (serve.rs), and a device's mapping reaches   *)
(* the program that declared its queue (wireguard bridge).                 *)
Reads(s) == []<>(part = "relay" /\ ~ws[s].writes)

EndsAndArrives ==
    /\ \A c \in Callers, s \in Legs :
         Reads(c) /\ Reads(s) => ((part = "relay" /\ Relay!Torn(c) /\ ws[c].far = s) ~> (part = "relay" /\ ~Relay!Torn(c)))
    /\ \A s \in Streams : (part = "wisp" /\ call[s].st = "gone") ~> (part = "wisp" /\ Wisp!Forgot(s))
    /\ \A n \in Names :
         (part = "p2p" /\ P2p!Unclaimed(n) /\ ~P2p!Shared(n)) ~> (part = "p2p" /\ (P2p!Shared(n) \/ sess[n] = "none"))
    /\ (part = "bridges" /\ Bridges!MappingDue) ~> (part = "bridges" /\ Bridges!MappingGot)
-----------------------------------------------------------------------------
(* For TLC: a rule whose glob one of the names matches.                    *)
Rule == Pairs \X {"n1"}
=============================================================================
