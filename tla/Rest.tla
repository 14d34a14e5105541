-------------------------------- MODULE Rest --------------------------------
(***************************************************************************)
(* rest/get and rest/post (connectors/rest/src/lib.rs): the grant, the     *)
(* address, and the read loop that stops where the framing ends a body.    *)
(*                                                                         *)
(* A response is a sequence of tokens: heads, sizes, the bytes of a body   *)
(* and the ends of chunks.  The server sends what it means to, splits it   *)
(* anywhere, and may close, politely or not, before or after its end.      *)
(***************************************************************************)
EXTENDS Integers, Sequences, SequencesExt

CONSTANTS MAX_BODY,  \* bytes of a body
          Slack,     \* tokens of a transfer past MAX_BODY
          MaxBytes   \* bound: bytes a server's body has

VARIABLE rest   \* the call, the server's plan and what has arrived

Frame == {"length", "chunked", "close", "empty"}
Plan == [interim : 0..1, frame : Frame, n : 0..MaxBytes, by : {1, 2}, extra : 0..1]

Tok(kind, n) == [kind |-> kind, n |-> n]
Bytes(a, b) == [i \in 1..(b - a + 1) |-> Tok("byte", a + i - 1)]
Chunk(a, b) == <<Tok("size", b - a + 1)>> \o Bytes(a, b) \o <<Tok("crlf", 0)>>

\* What the server means (external): chunks of p.by bytes, the last shorter.
Meant(p) == IF p.frame = "empty" THEN <<>> ELSE Bytes(1, p.n)
Chunks(p) ==
    LET k == (p.n + p.by - 1) \div p.by
        c(i) == Chunk((i - 1) * p.by + 1, IF i * p.by > p.n THEN p.n ELSE i * p.by) IN
    FlattenSeq([i \in 1..k |-> c(i)]) \o <<Tok("size", 0)>>
Wire(p) ==
    [i \in 1..p.interim |-> Tok("interim", 0)] \o <<Tok(p.frame, p.n)>>
    \o (IF p.frame = "chunked" THEN Chunks(p) ELSE Meant(p)) \o [i \in 1..p.extra |-> Tok("extra", 0)]
-----------------------------------------------------------------------------
\* Mutant: the first head is the answer.
FirstHead(buf) == IF buf = <<>> THEN 0 ELSE 1

\* final_head: where the first head that is not interim ends; 0 for none yet.
FinalHead(buf) ==
    IF \E i \in DOMAIN buf : buf[i].kind # "interim"
    THEN CHOOSE i \in DOMAIN buf : buf[i].kind # "interim" /\ \A j \in 1..(i - 1) : buf[j].kind = "interim"
    ELSE 0

\* framing: an interim head and a 204 have no body, whatever they carry.
BodyEnd(head) ==
    CASE head.kind \in {"interim", "empty"} -> [kind |-> "length", n |-> 0]
      [] OTHER -> head

Raw(buf) == SubSeq(buf, FinalHead(buf) + 1, Len(buf))
Fresh == [out |-> <<>>, at |-> 0, done |-> FALSE, error |-> "none"]

\* Dechunker::feed: every whole frame past the ones already read.
RECURSIVE Feed(_, _)
Feed(d, raw) ==
    LET left == SubSeq(raw, d.at + 1, Len(raw))
        size == left[1].n IN
    IF d.done \/ d.error # "none" \/ left = <<>> THEN d
    ELSE IF left[1].kind # "size" THEN [d EXCEPT !.error = "not a size"]
    ELSE IF size = 0 THEN [d EXCEPT !.at = @ + 1, !.done = TRUE]
    ELSE IF Len(d.out) + size > MAX_BODY THEN [d EXCEPT !.error = "too_large"]
    ELSE IF Len(left) < size + 2 THEN d
    ELSE IF left[size + 2].kind # "crlf" THEN [d EXCEPT !.error = "short chunk"]
    ELSE Feed([d EXCEPT !.out = @ \o SubSeq(left, 2, size + 1), !.at = @ + size + 2], raw)
-----------------------------------------------------------------------------
Over(r, how, body) == [r EXCEPT !.pc = "over", !.result = how, !.body = body]
Fails(r, why) == Over(r, why, <<>>)

Passes(pc, next) == rest.pc = pc /\ (rest' = Fails(rest, "refused") \/ rest' = [rest EXCEPT !.pc = next])

\* The verb, then the scope, then the arguments; no scope grants nothing.
CallChecks == Passes("call", "scope")
ScopeParses == Passes("scope", "url")
UrlParses   == Passes("url", "match")

\* The entry that covers the origin, and with it the header terms.
Matches ==
    /\ rest.pc = "match"
    /\ \/ rest' = Fails(rest, "refused")
       \/ \E set \in SUBSET {"plain", "injected", "reserved"} : rest' = [rest EXCEPT !.pc = "headers", !.guest = set]

\* guest_may_set, is_reserved: a header the operator injects or the
\* connector owns is refused, never dropped.
BuildsRequest ==
    /\ rest.pc = "headers"
    /\ rest' = IF rest.guest \cap {"injected", "reserved"} # {} THEN Fails(rest, "refused")
               ELSE [rest EXCEPT !.pc = "resolve"]

\* Every candidate is looked at, and the one that is dialled is one of them.
Resolves ==
    /\ rest.pc = "resolve"
    /\ \E found \in SUBSET {"public", "private"} :
         LET may == IF rest.allow_private THEN found ELSE found \ {"private"} IN
         IF may = {} THEN rest' = Fails(rest, "address")
         ELSE \E a \in may : rest' = [rest EXCEPT !.pc = "connect", !.address = a]

\* connect, TLS and the request.
Connects ==
    rest.pc = "connect" /\ (rest' = Fails(rest, "connect") \/ rest' = [rest EXCEPT !.pc = "loop"])

\* The framing is asked before every read.
Done(r) ==
    LET end == BodyEnd(r.buf[r.head]) IN
    r.head # 0 /\ ((end.kind = "length" /\ Len(Raw(r.buf)) >= end.n) \/ (end.kind = "chunked" /\ r.chunks.done))

Loop ==
    rest.pc = "loop" /\ rest' = [rest EXCEPT !.pc = IF Done(rest) THEN "judge" ELSE "read"]

\* One read: its head, a length past the bound, its frames, the whole.
Took(r, k) ==
    LET buf  == r.buf \o SubSeq(r.wire, 1, k)
        head == IF r.head # 0 THEN r.head ELSE FinalHead(buf)
        b    == [r EXCEPT !.buf = buf, !.wire = SubSeq(@, k + 1, Len(@)), !.head = head, !.pc = "loop"]
        end  == BodyEnd(buf[head])
        c    == IF head # 0 /\ end.kind = "chunked" THEN Feed(r.chunks, Raw(buf)) ELSE r.chunks IN
    IF head # 0 /\ end.kind = "length" /\ end.n > MAX_BODY THEN Fails(b, "too_large")
    ELSE IF c.error # "none" THEN Fails(b, c.error)
    ELSE IF Len(buf) > MAX_BODY + Slack THEN Fails(b, "too_large")
    ELSE [b EXCEPT !.chunks = c]

Reads ==
    /\ rest.pc = "read"
    /\ \/ \E k \in 1..Len(rest.wire) : rest' = Took(rest, k)
       \/ \* The server closes, with or without close_notify.
          rest' = [rest EXCEPT !.pc = "judge", !.wire = <<>>, !.cut = rest.wire # <<>>]
       \/ rest' = Fails(rest, "read")

\* Mutant: a body that stopped arriving is a body that ended.
JudgeTakesShort ==
    /\ rest.pc = "judge" /\ rest.head # 0
    /\ LET end == BodyEnd(rest.buf[rest.head])
           raw == Raw(rest.buf) IN
       rest' = IF end.kind = "chunked" THEN Over(rest, "ok", Feed(rest.chunks, raw).out)
               ELSE Over(rest, "ok", SubSeq(raw, 1, IF end.kind = "length" /\ end.n < Len(raw) THEN end.n ELSE Len(raw)))

ShortBody(r) == Fails(r, "short")

\* After the loop: the framing judges what arrived.
Judge ==
    /\ rest.pc = "judge"
    /\ LET end == BodyEnd(rest.buf[rest.head])
           raw == Raw(rest.buf)
           c   == Feed(rest.chunks, raw) IN
       rest' = IF rest.head = 0 THEN Fails(rest, "status")
               ELSE IF end.kind = "length"
               THEN (IF Len(raw) < end.n THEN ShortBody(rest) ELSE Over(rest, "ok", SubSeq(raw, 1, end.n)))
               ELSE IF end.kind = "chunked"
               THEN (IF c.error # "none" THEN Fails(rest, c.error)
                     ELSE IF ~c.done THEN ShortBody(rest) ELSE Over(rest, "ok", c.out))
               ELSE IF Len(raw) > MAX_BODY THEN Fails(rest, "too_large") ELSE Over(rest, "ok", raw)

\* timeout bounds the whole of fetch.
TimesOut == rest.pc \in {"resolve", "connect", "read"} /\ rest' = Fails(rest, "timeout")
-----------------------------------------------------------------------------
Init ==
    \E p \in Plan, private \in BOOLEAN :
      rest = [pc |-> "call", guest |-> {}, plan |-> p, wire |-> Wire(p), buf |-> <<>>, head |-> 0, chunks |-> Fresh, cut |-> FALSE,
              allow_private |-> private, address |-> "none", result |-> "none", body |-> <<>>]

Next == CallChecks \/ ScopeParses \/ UrlParses \/ Matches \/ BuildsRequest \/ Resolves \/ Connects \/ Loop \/ Reads \/ Judge \/ TimesOut
Spec == Init /\ [][Next]_rest
-----------------------------------------------------------------------------
\* A body that is answered is the server's, whole and within the bound,
\* however the bytes were split, whatever came before or after them and
\* however the connection ended; only where the close is the framing may a
\* cut body pass for one (BodyEnd, exchange, Dechunker).
WholeBody ==
    rest.result = "ok" =>
      LET close == rest.plan.frame = "close" IN
      /\ Len(rest.body) <= MAX_BODY
      /\ ~close => rest.body = Meant(rest.plan)
      /\ close /\ ~rest.cut => IsPrefix(Meant(rest.plan), rest.body)
      /\ close /\ rest.cut => IsPrefix(rest.body, Meant(rest.plan) \o <<Tok("extra", 0)>>)
=============================================================================
