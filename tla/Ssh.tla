-------------------------------- MODULE Ssh --------------------------------
(***************************************************************************)
(* The SSH client (connectors/ssh/src/lib.rs, interactive.rs, console.rs): *)
(* one process's terminal, its known_hosts file and the sessions it has    *)
(* one after another with one host.                                        *)
(*                                                                         *)
(* The host may answer with another key each time.  Keys typed are "~",    *)
(* ".", "nl" and "x"; cryptography and russh are external.                 *)
(***************************************************************************)
EXTENDS Integers, Sequences, FiniteSets, SequencesExt

CONSTANTS HostKeys,        \* keys the host may offer
          MaxSessions,     \* bound: sessions of a behaviour
          MaxTyped,        \* bound: keys typed in the last session
          PASSWORD_TRIES,  \* passwords asked for
          Cap              \* max_output_bytes, in chunks

VARIABLE ssh

Keys == {"~", ".", "nl", "x"}
Moves(pc) == ssh' = [ssh EXCEPT !.pc = pc]
At(pc) == ssh.pc = pc
-----------------------------------------------------------------------------
\* Checker::check_server_key.

\* exec_once and shell_once pin the host's key and have one of their own;
\* drt ssh looks for what there is.
Connect ==
    /\ At("idle") /\ ssh.n < MaxSessions
    /\ \E key \in HostKeys, use \in {"exec", "shell", "drt ssh"}, trust \in {"pinned", "known"}, ask \in BOOLEAN :
         /\ use # "drt ssh" => trust = "pinned"
         /\ ssh' = [ssh EXCEPT !.pc = "key", !.n = @ + 1, !.use = use, !.key = key, !.trust = trust, !.ask = ask,
                               !.accepted = FALSE, !.tried = 0, !.out = 0]

\* Mutant: a changed key is asked about, as an unknown one is.
JudgeAsksAnyway ==
    CASE ssh.trust = "pinned"     -> ssh.key = ssh.pin
      [] ssh.key \in ssh.file     -> TRUE
      [] OTHER                    -> ssh.ask

\* The pin, or the file: known, or unknown and asked about; one whose host
\* has another key there is refused.
Judge ==
    CASE ssh.trust = "pinned"     -> ssh.key = ssh.pin
      [] ssh.key \in ssh.file     -> TRUE
      [] ssh.file # {}            -> FALSE
      [] OTHER                    -> ssh.ask

Accepts(file) == ssh' = [ssh EXCEPT !.pc = IF ssh.use = "drt ssh" THEN "agent" ELSE "own", !.accepted = TRUE, !.file = file]
Check ==
    /\ At("key")
    /\ \/ Moves("idle")   \* refused, a certificate, an unreadable file, a person who says no
       \/ Judge /\ (ssh.trust = "pinned" \/ ssh.key \in ssh.file) /\ Accepts(ssh.file)
       \/ /\ Judge /\ ssh.trust = "known" /\ ssh.key \notin ssh.file
          /\ \E learnt \in BOOLEAN : Accepts(IF learnt THEN ssh.file \cup {ssh.key} ELSE ssh.file)
-----------------------------------------------------------------------------
\* sign_in: the agent, each file, then a password, with the echo off while
\* a secret is typed.

Service == IF ssh.use = "exec" THEN "exec" ELSE "raw"
Own   == At("own") /\ (Moves(Service) \/ Moves("idle"))
Agent == At("agent") /\ (Moves("file") \/ Moves(Service))
File ==
    /\ At("file")
    /\ \/ \* No more of them, or the connection failed.
          Moves("password") \/ Moves("idle")
       \/ \* A passphrase is asked for.
          ssh' = [ssh EXCEPT !.pc = "phrase", !.tty = "quiet"]
       \/ Moves(Service)
Password ==
    /\ At("password")
    /\ IF ssh.tried < PASSWORD_TRIES THEN ssh' = [ssh EXCEPT !.pc = "asked", !.tty = "quiet"] ELSE Moves("idle")

\* without_echo: the line, or the end of input.
Typed(pc) == ssh' = [ssh EXCEPT !.pc = pc, !.tty = "cooked"]
Phrase == At("phrase") /\ \E pc \in {"file", Service, "idle"} : Typed(pc)
Asked ==
    /\ At("asked")
    /\ \/ \E pc \in {Service, "idle"} : Typed(pc)
       \/ ssh' = [ssh EXCEPT !.pc = "password", !.tty = "cooked", !.tried = @ + 1]
-----------------------------------------------------------------------------
\* on_this_terminal and shell.  Every way out drops Raw.

Enter ==
    /\ At("raw")
    /\ \/ Moves("idle")
       \/ ssh' = [ssh EXCEPT !.pc = "shell", !.tty = "raw", !.typed = <<>>, !.sent = <<>>, !.quit = FALSE,
                             !.escape = [lineStart |-> TRUE, pending |-> FALSE], !.started = FALSE]

\* Mutant: the start of a line is forgotten where a read ends.
FilterForgets(e, bytes) ==
    LET step(a, b) ==
          IF a.quit THEN a
          ELSE IF a.pending
          THEN [out |-> a.out \o (IF b = "." THEN <<>> ELSE IF b = "~" THEN <<"~">> ELSE <<"~", b>>),
                lineStart |-> b = "nl", pending |-> FALSE, quit |-> b = "."]
          ELSE IF a.lineStart /\ b = "~" THEN [a EXCEPT !.pending = TRUE]
          ELSE [a EXCEPT !.out = Append(@, b), !.lineStart = b = "nl"]
    IN  FoldLeft(step, [out |-> <<>>, lineStart |-> TRUE, pending |-> e.pending, quit |-> FALSE], bytes)

\* Escape::filter.
Filter(e, bytes) ==
    LET step(a, b) ==
          IF a.quit THEN a
          ELSE IF a.pending
          THEN [out |-> a.out \o (IF b = "." THEN <<>> ELSE IF b = "~" THEN <<"~">> ELSE <<"~", b>>),
                lineStart |-> b = "nl", pending |-> FALSE, quit |-> b = "."]
          ELSE IF a.lineStart /\ b = "~" THEN [a EXCEPT !.pending = TRUE]
          ELSE [a EXCEPT !.out = Append(@, b), !.lineStart = b = "nl"]
    IN  FoldLeft(step, [out |-> <<>>, lineStart |-> e.lineStart, pending |-> e.pending, quit |-> FALSE], bytes)

\* Mutant: the channel's end leaves the terminal as it is.
LeavesRaw == ssh' = [ssh EXCEPT !.pc = "idle"]

Leaves == ssh' = [ssh EXCEPT !.pc = "idle", !.tty = "cooked"]

Input ==
    /\ At("shell") /\ ssh.n = MaxSessions
    /\ \E bytes \in UNION {[1..n -> Keys] : n \in 1..(MaxTyped - Len(ssh.typed))} :
         LET f == Filter(ssh.escape, bytes) IN
         ssh' = [ssh EXCEPT !.typed = @ \o bytes, !.sent = @ \o f.out, !.quit = f.quit,
                            !.escape = [lineStart |-> f.lineStart, pending |-> f.pending],
                            !.pc = IF f.quit THEN "idle" ELSE "shell", !.tty = IF f.quit THEN "cooked" ELSE "raw"]

\* The channel: output, refusal, its end.
Channel ==
    /\ At("shell")
    /\ \/ ~ssh.started /\ ssh' = [ssh EXCEPT !.started = TRUE]
       \/ Leaves

\* exec_once: what comes, up to the cap and within the timeout.
Exec ==
    /\ At("exec")
    /\ \/ ssh.out < Cap /\ ssh' = [ssh EXCEPT !.out = @ + 1]
       \/ Moves("idle")   \* the channel closed, the cap was passed, the timeout
-----------------------------------------------------------------------------
Init ==
    \E pin \in HostKeys :
      ssh = [pc |-> "idle", n |-> 0, use |-> "exec", key |-> pin, pin |-> pin, trust |-> "pinned", ask |-> FALSE, file |-> {},
             accepted |-> FALSE, tried |-> 0, tty |-> "cooked", typed |-> <<>>, sent |-> <<>>, quit |-> FALSE,
             escape |-> [lineStart |-> TRUE, pending |-> FALSE], started |-> FALSE, out |-> 0]

Next ==
    \/ Connect \/ Check \/ Own \/ Agent \/ File \/ Phrase \/ Password \/ Asked
    \/ Enter \/ Input \/ Channel \/ Exec
Spec == Init /\ [][Next]_ssh
-----------------------------------------------------------------------------
\* "A changed key is always refused": one key of the host is ever written
\* down, and a session judged by the file signs in under no other while it is
\* (Checker).
OneHostKey ==
    /\ Cardinality(ssh.file) <= 1
    /\ ssh.accepted => IF ssh.trust = "pinned" THEN ssh.key = ssh.pin ELSE ssh.file \subseteq {ssh.key}

\* The terminal is raw only under a shell and silent only under a question:
\* every way out of either restores it (console.rs).
Restored == /\ ssh.tty = "raw" <=> ssh.pc = "shell"
            /\ ssh.tty = "quiet" <=> ssh.pc \in {"phrase", "asked"}

\* What the escapes of a typed line mean, whatever reads it came in.
Escapes(w) == {i \in DOMAIN w : w[i] = "~" /\ (i = 1 \/ w[i - 1] = "nl")}
Quits(w)   == {i \in Escapes(w) : i < Len(w) /\ w[i + 1] = "."}
Reference(w) ==
    LET last == IF Quits(w) = {} THEN Len(w) ELSE (CHOOSE i \in Quits(w) : \A j \in Quits(w) : i <= j) - 1
        kept == {i \in 1..last : ~(i \in Escapes(w) /\ (i = Len(w) \/ w[i + 1] = "~"))}
    IN  [i \in 1..Cardinality(kept) |-> w[CHOOSE k \in kept : Cardinality({j \in kept : j < k}) = i - 1]]

\* What is sent, and whether the session is left, is the meaning of all that
\* was typed, however it was cut into reads (Escape::filter).
EscapeExact == ssh.sent = Reference(ssh.typed) /\ (ssh.quit <=> Quits(ssh.typed) # {})
=============================================================================
