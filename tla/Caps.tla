-------------------------------- MODULE Caps --------------------------------
(***************************************************************************)
(* Capability sets (crates/drt-caps/src/lib.rs), what a spawned instance   *)
(* derives from its parent's, and what a key that signs in over SSH gets   *)
(* of the deployment's (Keys in drt/src/sshd.rs, ceiling in config.rs).    *)
(*                                                                         *)
(* A name is a sequence of characters; one that ends in "*" and is longer  *)
(* than that is a pattern.  Scopes are left to the connectors.             *)
(***************************************************************************)
EXTENDS Integers, Sequences, FiniteSets, SequencesExt

CONSTANTS Names,     \* names and patterns a grant may carry
          Wants,     \* names that are asked for
          MaxGrants  \* bound: grants of a set

VARIABLE caps   \* the ceiling, and the set derived from it

Grant == [effect : {"grant", "deny"}, capability : Names]
Sets  == {s \in SUBSET Grant : Cardinality(s) <= MaxGrants}
With(s, effect) == {g.capability : g \in {h \in s : h.effect = effect}}
-----------------------------------------------------------------------------
\* implies: the whole name, or the pattern's prefix.
Implies(held, want) ==
    IF Len(held) > 1 /\ Last(held) = "*" THEN IsPrefix(Front(held), want) ELSE held = want

Covers(names, want) == \E n \in names : Implies(n, want)

\* CapSet::holds: a grant implies it and no deny does.
Holds(s, want) == Covers(With(s, "grant"), want) /\ ~Covers(With(s, "deny"), want)

\* "Granting is holding": a pattern is asked for by its own spelling.
MayGrant(s, capability) == Holds(s, capability)

\* Mutant: what the parent is denied is the parent's concern.
DeniesDropped(parent, grants) == TRUE

\* Every deny of the parent's is covered by one of the child's.
DeniesKept(parent, grants) == \A d \in With(parent, "deny") : Covers(With(grants, "deny"), d)

\* CapSet::attenuate.
Attenuates(parent, grants) ==
    (\A g \in With(grants, "grant") : MayGrant(parent, g)) /\ DeniesKept(parent, grants)

\* ceiling: a config that names no caps holds everything a host answers.
Ceiling(named, all) == IF named = {} THEN {[effect |-> "grant", capability |-> all]} ELSE named

\* Mutant: a principal's grants are what its entry says.
PrincipalUnbounded(ceiling, entry) == entry

\* Keys::from_sources: a principal's own grants, with the ceiling's denies.
PrincipalGrants(ceiling, entry) == entry \cup {g \in ceiling : g.effect = "deny"}
-----------------------------------------------------------------------------
Init == \E all \in Names, named \in Sets :
          Last(all) = "*" /\ Len(all) = 2 /\ caps = [ceiling |-> Ceiling(named, all), by |-> "nobody", derived |-> {}]

\* A child's grants are checked against the parent's, denies too.
Spawn ==
    /\ caps.by = "nobody"
    /\ \E grants \in Sets :
         IF Attenuates(caps.ceiling, grants)
         THEN caps' = [caps EXCEPT !.by = "spawn", !.derived = grants]
         ELSE caps' = [caps EXCEPT !.by = "refused"]

\* A principal's are checked against the ceiling, and its denies added; a
\* key of authorized_keys that is no principal's gets the ceiling itself.
SignIn ==
    /\ caps.by = "nobody"
    /\ \/ \E entry \in Sets :
            IF \A g \in With(entry, "grant") : MayGrant(caps.ceiling, g)
            THEN caps' = [caps EXCEPT !.by = "principal", !.derived = PrincipalGrants(caps.ceiling, entry)]
            ELSE caps' = [caps EXCEPT !.by = "refused"]
       \/ caps' = [caps EXCEPT !.by = "authorized", !.derived = caps.ceiling]

Next == Spawn \/ SignIn
Spec == Init /\ [][Next]_caps
-----------------------------------------------------------------------------
\* Authority only narrows, whatever mix of names, patterns and denies is
\* asked for: what a derived set holds, the one above it holds ("granting is
\* holding", CapSet::attenuate).
Narrows == caps.by = "spawn" => \A w \in Wants : Holds(caps.derived, w) => Holds(caps.ceiling, w)

\* "A principal holds a part of what the deployment does, never more"
\* (Keys::from_sources).
PrincipalWithin ==
    caps.by \in {"principal", "authorized"} => \A w \in Wants : Holds(caps.derived, w) => Holds(caps.ceiling, w)
=============================================================================
