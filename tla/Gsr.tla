-------------------------------- MODULE Gsr ---------------------------------
(***************************************************************************)
(* Grant requests and signed decisions: a node asks its desk for a grant   *)
(* in a realm (drt/src/gsr.rs), an operator signs an answer (drt/src/      *)
(* key.rs) and the desk verifies it anew on every call (drt-config/src/    *)
(* gsr.rs, consent.rs, realm.rs, time.rs, sign.rs, canon.rs).              *)
(*                                                                         *)
(* decided/ is a directory anybody may put a file in: the desk reads its   *)
(* files in the order of their names.  A realm is the sequence of its      *)
(* segments below the root, time is a counter, and 0 is an open end.       *)
(***************************************************************************)
EXTENDS Integers, Sequences, SequencesExt

CONSTANTS Request,   \* requests a node makes: [realm, from, until]
          Realms,    \* realms asked for, signed for and consented to
          Keys,      \* signing keys
          MaxTime,   \* bound: the clock
          MaxFiles,  \* bound: files in decided/
          MaxEdits   \* bound: changes of consent.json

VARIABLE gsr   \* the operator's files, the desk's two directories, the clock

Times    == 1..MaxTime
Nothing  == [realm |-> <<>>, from |-> 0, until |-> 0]
Quiet    == [req |-> Nothing, status |-> "none", until |-> 0]

\* Realm::covers: the segments of one begin the other's.
Covered(realm, by) == \E r \in by : IsPrefix(r, realm)

\* Mutant: the window is left out of what is hashed.
IdentityNoWindow(r) == <<r.realm>>

\* Request::identity: everything but the reason and the uuid.
Identity(r) == <<r.realm, r.from, r.until>>

\* Decision::sign, over all of it but the signature; a file that was not
\* signed by the key it names is forged.
Decision(r, verdict, not_after, key, signed) ==
    [hash |-> Identity(r), for |-> r, verdict |-> verdict, not_after |-> not_after, key |-> key, signed |-> signed]

Expired(d) == d.not_after <= gsr.now

\* Window::intersect with an end of not_after.
Until(r, d) == IF r.until # 0 /\ r.until < d.not_after THEN r.until ELSE d.not_after

\* Mutant: a trusted signer is not held to the consented ceiling.
VerifyAnyRealm(r, d) ==
    CASE ~d.signed \/ gsr.signers[d.key] = {} -> "step 1"
      [] d.signed /\ gsr.signers[d.key] # {} /\ ~Covered(r.realm, gsr.signers[d.key]) -> "step 2"
      [] OTHER -> IF d.verdict = "deny" THEN "denied" ELSE IF r.from > Until(r, d) THEN "step 4" ELSE "granted"

\* verify: the key, its realms, the consented ceiling, then the dates.
Verify(r, d) ==
    IF ~d.signed \/ gsr.signers[d.key] = {} THEN "step 1"
    ELSE IF ~Covered(r.realm, gsr.signers[d.key]) THEN "step 2"
    ELSE IF ~Covered(r.realm, gsr.consented) THEN "step 3"
    ELSE IF Expired(d) THEN "step 4"
    ELSE IF d.verdict = "deny" THEN "denied"
    ELSE IF r.from > Until(r, d) THEN "step 4" ELSE "granted"
-----------------------------------------------------------------------------
Edited == [gsr EXCEPT !.edits = @ + 1]

\* The operator trusts a key for a realm, or no longer; accepts another
\* ceiling, or takes the entry out.
Edit ==
    /\ gsr.edits < MaxEdits
    /\ \/ \E k \in Keys, r \in Realms : gsr' = [Edited EXCEPT !.signers[k] = {r}]
       \/ \E k \in Keys : gsr' = [Edited EXCEPT !.signers[k] = {}]
       \/ \E r \in Realms : gsr' = [Edited EXCEPT !.consented = {r}]
       \/ gsr' = [Edited EXCEPT !.consented = {}]

Tick == gsr.now < MaxTime /\ gsr' = [gsr EXCEPT !.now = @ + 1]

Put(d, i) == [gsr EXCEPT !.decided = InsertAt(@, i, d)]

\* drt key sign: an answer to a pending request, good for some time to
\* come, in place of an earlier one to it.
Sign ==
    \E r \in gsr.pending, k \in Keys, v \in {"approve", "deny"}, t \in Times :
        /\ t > gsr.now
        /\ LET d == Decision(r, v, t, k, TRUE)
               earlier == {i \in DOMAIN gsr.decided : gsr.decided[i].for = r /\ gsr.decided[i].named} IN
           \/ \E i \in earlier : gsr' = [gsr EXCEPT !.decided[i] = d @@ [named |-> TRUE]]
           \/ /\ earlier = {} /\ Len(gsr.decided) < MaxFiles
              /\ \E i \in 1..(Len(gsr.decided) + 1) : gsr' = Put(d @@ [named |-> TRUE], i)

\* A file somebody else put there, under a name of its own.
Drop ==
    \E r \in Request, k \in Keys, t \in Times, i \in 1..(Len(gsr.decided) + 1) :
        Len(gsr.decided) < MaxFiles /\ gsr' = Put(Decision(r, "approve", t, k, FALSE) @@ [named |-> FALSE], i)
-----------------------------------------------------------------------------
Answers(g, r, status, until) == [g EXCEPT !.answer = [req |-> r, status |-> status, until |-> until]]

\* Desk::request, up to decided/: the expired files it passes are removed,
\* and the first about this request is the answer, verified or not.
AskDecided ==
    /\ gsr.asking = Nothing
    /\ \E r \in Request :
         LET about == {i \in DOMAIN gsr.decided : gsr.decided[i].hash = Identity(r) /\ ~Expired(gsr.decided[i])}
             first == IF about = {} THEN Len(gsr.decided) + 1 ELSE CHOOSE i \in about : \A j \in about : i <= j
             kept(d) == ~Expired(d)
             left == SelectSeq(SubSeq(gsr.decided, 1, first - 1), kept)
                       \o SubSeq(gsr.decided, first, Len(gsr.decided))
             swept == [gsr EXCEPT !.decided = left] IN
         IF about = {} THEN gsr' = [swept EXCEPT !.asking = r]
         ELSE LET status == Verify(r, gsr.decided[first]) IN
              IF status \in {"granted", "denied"}
              THEN gsr' = [Answers(swept, r, status, Until(r, gsr.decided[first])) EXCEPT !.pending = @ \ {r}]
              ELSE gsr' = Answers(swept, r, "denied", 0)

\* The rest of it: pending already, or written now.
AskPending ==
    /\ gsr.asking # Nothing
    /\ gsr' = [Answers(gsr, gsr.asking, "pending", 0) EXCEPT !.pending = @ \cup {gsr.asking}, !.asking = Nothing]
-----------------------------------------------------------------------------
Init ==
    \E r, s \in Realms :
        gsr = [now |-> 0, signers |-> [k \in Keys |-> {s}], consented |-> {r}, pending |-> {}, decided |-> <<>>,
               asking |-> Nothing, answer |-> Quiet, edits |-> 0]

Next == Edit \/ Tick \/ Sign \/ Drop \/ AskDecided \/ AskPending
Spec == Init /\ [][Next]_gsr
-----------------------------------------------------------------------------
(* A grant is answered only where a live approval of this very request,    *)
(* window included, signed by a key trusted now for a realm above its own, *)
(* is in decided/, inside the ceiling consented to now, and never for      *)
(* longer than was asked or than was approved.                             *)
GrantStep ==
    gsr'.answer # gsr.answer /\ gsr'.answer.status = "granted" =>
        LET a == gsr'.answer IN
        /\ Covered(a.req.realm, gsr.consented)
        /\ \E i \in DOMAIN gsr.decided : LET d == gsr.decided[i] IN
             /\ d.for = a.req /\ d.verdict = "approve" /\ d.signed /\ ~Expired(d)
             /\ Covered(a.req.realm, gsr.signers[d.key])
             /\ a.until <= d.not_after /\ (a.req.until # 0 => a.until <= a.req.until)
             /\ a.req.from <= a.until
GrantEarned == [][GrantStep]_gsr

(* A decision that is live and verifies is what its request is answered    *)
(* with, whatever else lies in decided/.                                   *)
DecisionHeard ==
    gsr.answer.status = "denied" /\ gsr.answer.until = 0 =>
        \A i \in DOMAIN gsr.decided :
            gsr.decided[i].for = gsr.answer.req => Verify(gsr.answer.req, gsr.decided[i]) # "granted"
=============================================================================
