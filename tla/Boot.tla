-------------------------------- MODULE Boot --------------------------------
(***************************************************************************)
(* What happens before a program runs: a root's files are read, resolved   *)
(* (drt-config/src/resolve.rs), put to the operator where the ceiling is   *)
(* not the one on record (consent.rs, drt/src/consent_gate.rs), narrowed   *)
(* by --config (boot.rs) and deployed into live/ (deploy.rs), for each of  *)
(* the verbs of cli.rs.                                                    *)
(*                                                                         *)
(* The operator may edit any file while a boot is under way, at the prompt *)
(* above all, and a boot may be killed at any step.  A tree of sources is  *)
(* none, whole, or torn where a copy stopped part way; init/ is unsealed   *)
(* until its envelope is written.                                          *)
(***************************************************************************)
EXTENDS Integers

CONSTANTS Ceilings,    \* ceilings project.json may declare: [allow, deny, roles]
          ProfileCaps, \* caps a profile or a --config may name: [allow, deny]
          AllNames,    \* every name host:* reaches
          MaxEdits     \* bound: edits of the operator's

VARIABLE root   \* the root's files, the boot under way and what was accepted

NoOne == [allow |-> {}, deny |-> {}, roles |-> {}]
Anything == [allow |-> AllNames, deny |-> {}, roles |-> {"any"}]
Wide  == [allow |-> AllNames, deny |-> {}]
None  == [as |-> "none", ceil |-> NoOne]
Idle  == [pc |-> "idle", verb |-> "none", ceil |-> NoOne, check |-> "none", deployed |-> FALSE,
          caps |-> NoOne, dlua |-> FALSE, kind |-> "none", from |-> "live"]

Verbs   == {"start", "run", "deploy", "commit"}
Profile == [caps : ProfileCaps, entry : {"none", "stdlib", "native", "file"}, dlua : BOOLEAN, listed : BOOLEAN]

\* The findings that block and are not about a ceiling or an entry.
Findings == {"no project.json", "pin mismatch", "bad profile filename", "declared profile missing",
             "no default profile", "undeclared profile", "args"}
-----------------------------------------------------------------------------
Reach(c)   == c.allow \ c.deny
Unnamed(c) == c.allow = {} /\ c.deny = {}

\* InstanceConfig::check_attenuation on the caps.
Attenuates(parent, child) == child.allow \subseteq Reach(parent) /\ parent.deny \subseteq child.deny

\* config::ceiling: caps that name nothing are the wide default.
Ceiling(c) == IF Unnamed(c) THEN Wide ELSE [allow |-> c.allow, deny |-> c.deny]

\* What was answered for (history): an entry on record replaces it, where
\* somebody had answered for as much.
Answered(c) == \E k \in root.known : Reach(c) \subseteq Reach(k) /\ (k.roles = {"any"} \/ c.roles \subseteq k.roles)
Recorded(c) == IF Answered(c) THEN {c} ELSE root.known

\* Mutant: an additive difference, which a dropped deny adds nothing to.
WidenAdditive(new, accepted) == new.allow \subseteq accepted.allow /\ new.roles \subseteq accepted.roles

\* widen_check_ceiling: attenuation, and no role added.
WidenCheck(new, accepted) == Attenuates(accepted, new) /\ new.roles \subseteq accepted.roles

\* consent::check on a project that declares a ceiling.
Check(ceil, consent) ==
    CASE consent.as = "none" -> "first"
      [] consent.as \in {"foreign", "peers"} -> "failure"
      [] consent.as = "all" -> "blanket"
      [] consent.as = "listed" /\ consent.ceil = ceil -> "unchanged"
      [] consent.as = "listed" /\ consent.ceil # ceil ->
            IF WidenCheck(ceil, consent.ceil) THEN "narrowed" ELSE "widened"

\* read_json: a file that will not parse is as one that is not there.
Parsed(consent) == IF consent.as = "torn" THEN None ELSE consent
-----------------------------------------------------------------------------
Over     == [root EXCEPT !.boot = Idle]
At(pc)   == root.boot.pc = pc
Goes(pc) == [root EXCEPT !.boot.pc = pc]

Edited   == [root EXCEPT !.edits = @ + 1]
MayEdit  == root.edits < MaxEdits

\* project.json's ceiling.
Edit == MayEdit /\ \E c \in Ceilings : c # root.ceil /\ root' = [Edited EXCEPT !.ceil = c]

\* dollup writes the operator's consent: blanket, for another root, or with
\* a peer bound.
Consents ==
    /\ MayEdit
    /\ \/ root' = [Edited EXCEPT !.consent = [None EXCEPT !.as = "all"], !.known = {Anything}]
       \/ \E c \in {"foreign", "peers"} : root' = [Edited EXCEPT !.consent = [None EXCEPT !.as = c]]

\* A verb that boots.
Invoke ==
    /\ At("idle")
    /\ \E v \in Verbs : root' = [root EXCEPT !.boot = [Idle EXCEPT !.pc = "read", !.verb = v]]

\* check_pin and check_profile_dir, declared_profiles, the profile that is
\* picked and merge_args: what they find is in the files as they stand.
CheckPin(finding)        == finding = "pin mismatch"
CheckProfileDir(finding) == finding = "declared profile missing"
Declared(finding)        == finding = "bad profile filename"
Picked(finding)          == finding \in {"no default profile", "undeclared profile"}
MergeArgs(finding)       == finding = "args"

\* check_ceiling: every listed profile, the one that runs or not.
CheckCeiling(ceil, listed) == \E c \in listed : ~Attenuates(ceil, c)

\* take_profile_fields, and check_entry against where the profile deploys from.
TakeProfileFields(p) == p.entry = "none"
CheckEntry(p)        == p.entry = "file" /\ ~p.listed

\* resolve: the findings that stop a start.
Blocked(ceil, consent, p, others, finding) ==
    \/ finding = "no project.json" \/ CheckPin(finding) \/ CheckProfileDir(finding) \/ Declared(finding)
    \/ Unnamed(ceil) \/ Check(ceil, consent) = "failure"
    \/ CheckCeiling(ceil, {p.caps, others})
    \/ Picked(finding) \/ TakeProfileFields(p) \/ CheckEntry(p) \/ MergeArgs(finding)

\* Root::read and what resolve makes of it; the first finding ends the boot.
Resolve ==
    /\ At("read")
    /\ \E p \in Profile, others \in ProfileCaps, finding \in Findings \cup {"none"} :
         root' = IF Blocked(root.ceil, Parsed(root.consent), p, others, finding) THEN Over
                 ELSE [root EXCEPT !.boot = [@ EXCEPT
                         !.pc = "nesting", !.ceil = root.ceil, !.check = Check(root.ceil, Parsed(root.consent)),
                         !.caps = p.caps, !.dlua = p.dlua, !.kind = p.entry,
                         !.deployed = root.live # "none"]]

\* The inner root's policy on being nested.
Nesting == At("nesting") /\ (root' = Over \/ root' = Goes("profile"))

\* profile_config and entry_runnable: a stdlib program the build carries; a
\* native one needs no consent.
ProfileConfig ==
    /\ At("profile")
    /\ \/ root.boot.kind = "stdlib" /\ root' = Over
       \/ root' = Goes(IF root.boot.kind = "native" THEN "config" ELSE "gate")

\* gate: silent, answered by its own flag, asked, or refused by name where
\* there is no terminal to ask at.
Gate ==
    /\ At("gate")
    /\ \E yes, accept_changes, interactive \in BOOLEAN :
         LET ceil == root.boot.ceil
             check == root.boot.check
             flag == IF check = "first" THEN yes ELSE accept_changes IN
         root' = CASE check \in {"blanket", "unchanged"} -> Goes("config")
                   [] check = "narrowed" -> Goes("write")
                   [] check \in {"first", "widened"} /\ flag -> [Goes("write") EXCEPT !.known = @ \cup {ceil}]
                   [] check \in {"first", "widened"} /\ ~flag -> IF interactive THEN Goes("ask") ELSE Over

\* The answer, to the ceiling that was printed.
Answer ==
    /\ At("ask")
    /\ \/ root' = Over
       \/ root' = [Goes("write") EXCEPT !.known = @ \cup {root.boot.ceil}]

\* write_entry: consent.json is truncated, then holds the entry; nothing
\* of what was there but the entry for the root's own realm is replaced.
WriteEntry ==
    \/ At("write") /\ root' = [Goes("writing") EXCEPT !.consent.as = "torn"]
    \/ At("writing") /\ root' = [Goes("config") EXCEPT !.consent = [as |-> "listed", ceil |-> root.boot.ceil],
                                                        !.known = Recorded(root.boot.ceil)]

\* Mutant: --config replaces the profile without the check.
ConfigFlagUnchecked ==
    /\ At("config")
    /\ \/ root' = Goes("wire")
       \/ \E c \in ProfileCaps : root' = [Goes("wire") EXCEPT !.boot.caps = c, !.boot.from = "flag"]

\* A --config inside a root is checked against the ceiling as read, and
\* then it is the config, its program with it.
ConfigFlag ==
    /\ At("config")
    /\ \/ root' = Goes("wire")
       \/ \E c \in ProfileCaps :
            root' = IF Attenuates(root.boot.ceil, c)
                    THEN [Goes("wire") EXCEPT !.boot.caps = c, !.boot.from = "flag"] ELSE Over

\* The connectors are wired and the grants checked against them.
Wire == At("wire") /\ (root' = Over \/ root' = Goes("verb"))

\* start: a native entry reports, and what is deployed stays so without --rm.
StartVerb ==
    /\ At("verb") /\ root.boot.verb = "start"
    /\ \E rm \in BOOLEAN :
         root' = IF root.boot.kind = "native" \/ (root.boot.deployed /\ ~rm) THEN Over ELSE Goes("deploy")

\* run: live/ as it stood when it was read.
RunProfile ==
    /\ At("verb") /\ root.boot.verb = "run"
    /\ LET b == root.boot IN
       root' = IF \/ ~b.deployed \/ b.kind = "native"
                  \/ b.from = "live" /\ b.kind # "file" THEN Over ELSE Goes("running")

DeployVerb == At("verb") /\ root.boot.verb = "deploy" /\ root' = Goes("deploy")
CommitVerb ==
    /\ At("verb") /\ root.boot.verb = "commit"
    /\ root' = IF root.live = "none" THEN Over ELSE Goes("commit")
-----------------------------------------------------------------------------
Source(b) == IF b.dlua \/ root.init \in {"unsealed", "sealed"} THEN "whole" ELSE root.init

\* deploy: what was live is cleared, where there is something to copy.
Deploy ==
    /\ At("deploy")
    /\ root' = IF Source(root.boot) = "none" THEN Over ELSE [Goes("copying") EXCEPT !.live = "torn"]

\* copy_tree: file by file; a limit or an error part way leaves the half.
CopyTree ==
    /\ At("copying")
    /\ \/ root' = Over
       \/ root' = [(IF root.boot.verb = "start" THEN Goes("running") ELSE Over) EXCEPT !.live = Source(root.boot)]

\* commit: live into init, then the envelope over what init holds.
Commit ==
    \/ At("commit") /\ root' = [Goes("capturing") EXCEPT !.init = "torn"]
    \/ At("capturing") /\ (root' = Over \/ root' = [Goes("envelope") EXCEPT
                                                           !.init = IF root.live = "whole" THEN "unsealed" ELSE "torn"])
    \/ At("envelope") /\ root' = [Over EXCEPT !.init = IF @ = "unsealed" THEN "sealed" ELSE @]

\* rm, without a boot.
Rm == At("idle") /\ root.live # "none" /\ root' = [root EXCEPT !.live = "none"]

\* run of a file, code or stdin: the config the command line assembled.
RunCode ==
    /\ At("idle")
    /\ \E c \in ProfileCaps :
         root' = [root EXCEPT !.boot = [Idle EXCEPT !.pc = "running", !.verb = "code", !.ceil = root.ceil,
                                          !.caps = c, !.from = "code"]]

\* The program ends, or the boot is killed where it stands.
Ends    == At("running") /\ root' = Over
Crashes == ~At("idle") /\ ~At("running") /\ root' = Over
-----------------------------------------------------------------------------
Init ==
    \E c \in Ceilings :
        root = [ceil |-> c, consent |-> None, known |-> {}, init |-> "none", live |-> "none",
                edits |-> 0, boot |-> Idle]

Next ==
    \/ Edit \/ Consents \/ Invoke \/ Resolve \/ Nesting \/ ProfileConfig \/ Gate \/ Answer \/ WriteEntry \/ ConfigFlag
    \/ Wire \/ StartVerb \/ RunProfile \/ DeployVerb \/ CommitVerb \/ Deploy \/ CopyTree \/ Commit \/ Rm \/ RunCode \/ Ends \/ Crashes

Spec == Init /\ [][Next]_root
-----------------------------------------------------------------------------
Consented == At("running") /\ root.boot.verb \in Verbs

(* Whatever was edited, killed or torn on the way, a program that a boot   *)
(* started runs under a ceiling that reaches no further, in names or in    *)
(* roles, than one somebody answered for and no later record narrowed, and *)
(* the caps that were named for it stay inside that ceiling.               *)
RunsWithin ==
    Consented =>
        /\ Answered(root.boot.ceil)
        /\ ~Unnamed(root.boot.caps) => Reach(root.boot.caps) \subseteq Reach(root.boot.ceil)

(* "The ceiling is the root's, whatever the profile asked for ... running  *)
(* the intersection rather than the declaration": what a program started   *)
(* inside a root holds is within the root's ceiling.                       *)
CeilingIsTheRoots == Consented => Reach(Ceiling(root.boot.caps)) \subseteq Reach(root.boot.ceil)

(* "the alternative is learning the limit from the kernel with a           *)
(* half-written live/": what runs from live/ was deployed whole.           *)
RunsWhole == Consented /\ root.boot.from = "live" /\ root.boot.kind = "file" => root.live # "torn"
=============================================================================
