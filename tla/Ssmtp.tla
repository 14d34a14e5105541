-------------------------------- MODULE Ssmtp --------------------------------
(***************************************************************************)
(* ssmtp/send (connectors/ssmtp/src/lib.rs): a message checked against the *)
(* grant, then said to a relay one command and one reply at a time.        *)
(*                                                                         *)
(* The conversation is a script of lines; a line with no reply expected is *)
(* written and passed.  The relay is external: it refuses what it likes,   *)
(* and reads DATA up to a line that is a single dot.                       *)
(***************************************************************************)
EXTENDS Naturals, Sequences, SequencesExt

CONSTANTS Addresses,       \* addresses a program may name
          Allowed,         \* those the grant's allow list covers
          MAX_RECIPIENTS,  \* of one message
          MaxLines         \* bound: lines of a body

VARIABLE mail   \* the call, how far its script has got, and the relay

\* A line of text starts with a dot, is a dot, or neither; a stuffed one has
\* one dot more.
Line == {"text", "dot", "dotted"}
Body == BoundedSeq(Line, MaxLines)
Scopes == [starttls : BOOLEAN, user : BOOLEAN, pass : BOOLEAN, allow : BOOLEAN, from : {"domain", "bare"}]

\* SsmtpScope::validate: a credential needs TLS under it and both its halves,
\* and a sender a domain to mint ids under.
Valid(s) == s.allow /\ s.from = "domain" /\ (s.user => s.starttls) /\ s.user = s.pass

\* recipients_of and permits: one refused address refuses the message.
Permitted(to) == to # <<>> /\ Len(to) <= MAX_RECIPIENTS /\ Range(to) \subseteq Allowed
-----------------------------------------------------------------------------
Said(word, arg, expect) == [word |-> word, arg |-> arg, expect |-> expect]
Says(word, expect) == <<Said(word, "none", expect)>>

\* Mutant: the body goes as it was written.
NoStuff(body) == [i \in DOMAIN body |-> Said("line", body[i], 0)]

\* dot_stuff: a leading dot doubled, so that no line of a body is the dot
\* that ends it.
DotStuff(body) ==
    LET stuffed(line) == CASE line = "dot" -> "dotdot" [] line = "dotted" -> "dotdotted" [] OTHER -> line IN
    [i \in DOMAIN body |-> Said("line", stuffed(body[i]), 0)]

\* deliver, session: the greeting, TLS and a second EHLO, AUTH, the
\* envelope, DATA, the headers, the body and its dot.
Script(s, msg) ==
    Says("greeting", 2) \o Says("EHLO", 2)
    \o (IF s.starttls THEN Says("STARTTLS", 2) \o Says("handshake", 2) \o Says("EHLO", 2) ELSE <<>>)
    \o (IF s.user THEN Says("AUTH", 2) ELSE <<>>)
    \o Says("MAIL", 2) \o [i \in DOMAIN msg.to |-> Said("RCPT", msg.to[i], 2)]
    \o Says("DATA", 3) \o Says("headers", 0) \o DotStuff(msg.body) \o Says("end", 2)

\* Mutant: an address the relay refuses is left out.
AnswerPassesRcpt(line, class) == class = line.expect \/ line.word = "RCPT"

\* read_reply: only the class of the code is compared.
AnswerPasses(line, class) == class = line.expect
-----------------------------------------------------------------------------
\* The relay (external).  Outside DATA it takes a line for a command, and a
\* command it took for an envelope stands; the dot inside DATA queues.
Unstuffed(line) == CASE line = "dotdot" -> "dot" [] line = "dotdotted" -> "dotted" [] OTHER -> line
Queues(r) == [r EXCEPT !.queue = Append(@, [to |-> r.to, body |-> r.body]), !.data = FALSE]
Hears(r, line, class) ==
    CASE line.word = "handshake" /\ class = 2 -> [r EXCEPT !.tls = TRUE]
      [] line.word = "AUTH" -> [r EXCEPT !.secret = IF r.tls THEN @ ELSE "in the clear"]
      [] line.word = "RCPT" /\ class = 2 -> [r EXCEPT !.to = Append(@, line.arg)]
      [] line.word = "DATA" /\ class = 3 -> [r EXCEPT !.data = TRUE]
      [] line.word = "line" /\ r.data ->
            IF line.arg = "dot" THEN Queues(r) ELSE [r EXCEPT !.body = Append(@, Unstuffed(line.arg))]
      [] line.word = "end" /\ r.data /\ class = 2 -> Queues(r)
      [] OTHER -> r
-----------------------------------------------------------------------------
Ends(m, result) == [m EXCEPT !.pc = "over", !.result = result]

\* call: the scope, the recipients, the subject and the threading headers.
Send ==
    /\ mail.pc = "call"
    /\ \E s \in Scopes, to \in BoundedSeq(Addresses, MAX_RECIPIENTS + 1), body \in Body :
         \/ mail' = Ends(mail, "refused")
         \/ /\ Valid(s) /\ Permitted(to)
            /\ mail' = [mail EXCEPT !.pc = "said", !.to = to, !.body = body,
                                    !.script = Script(s, [to |-> to, body |-> body])]

\* One line of the script, and the relay's reply where one is read.  A reply
\* that is no reply, and a relay that closes, end the call like a refusal.
Say ==
    /\ mail.pc = "said" /\ mail.script # <<>>
    /\ LET line == Head(mail.script) IN
       \E class \in IF line.expect = 0 THEN {0} ELSE {2, 3, 5} :
         LET heard == [mail EXCEPT !.relay = Hears(@, line, class), !.script = Tail(@)] IN
         mail' = IF line.expect = 0 \/ AnswerPasses(line, class) THEN heard ELSE Ends(heard, "error")

\* The connection breaks, before the line or after the relay took it.
Breaks ==
    /\ mail.pc = "said" /\ mail.script # <<>>
    /\ \/ mail' = Ends(mail, "error")
       \/ mail' = Ends([mail EXCEPT !.relay = Hears(@, Head(mail.script), Head(mail.script).expect)], "error")

\* The deadline over the conversation, wherever it stands.
TimedOut ==
    /\ mail.pc = "said"
    /\ \/ mail' = Ends(mail, "timed out")
       \/ /\ mail.script # <<>>
          /\ mail' = Ends([mail EXCEPT !.relay = Hears(@, Head(mail.script), Head(mail.script).expect)], "timed out")

\* QUIT is best effort: the message was accepted at its dot.
Accepted == mail.pc = "said" /\ mail.script = <<>> /\ mail' = Ends(mail, "accepted")
-----------------------------------------------------------------------------
Init == mail = [pc |-> "call", to |-> <<>>, body |-> <<>>, script |-> <<>>, result |-> "none",
                relay |-> [tls |-> FALSE, secret |-> "kept", to |-> <<>>, data |-> FALSE, body |-> <<>>, queue |-> <<>>]]

Next == Send \/ Say \/ Breaks \/ TimedOut \/ Accepted

Spec == Init /\ [][Next]_mail
-----------------------------------------------------------------------------
(* However a call ends, the relay queued at most one message, with every   *)
(* recipient the program named and no other and with the body it wrote,    *)
(* and a call answered `accepted` queued one.                              *)
SentAsMeant ==
    /\ mail.relay.queue \in {<<>>, <<[to |-> mail.to, body |-> mail.body]>>}
    /\ mail.result = "accepted" => mail.relay.queue # <<>>

(* The credential is said only once the conversation is encrypted.         *)
SecretKept == mail.relay.secret = "kept"
=============================================================================
