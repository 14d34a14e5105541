-------------------------------- MODULE Ldap --------------------------------
(***************************************************************************)
(* ldap/search, ldap/bind and ldap/groups (connectors/ldap/src/lib.rs):    *)
(* one connection per call, which binds as the service account when the    *)
(* grant names one, finds an entry, and for a login binds again as it.     *)
(*                                                                         *)
(* The directory is external.  It takes a bind with an empty password as   *)
(* an anonymous one and accepts it, and it may hold a size limit below the *)
(* one the call asks for.                                                  *)
(***************************************************************************)
EXTENDS Naturals

CONSTANTS MAX_ENTRIES,  \* entries of one answer
          MaxHeld       \* bound: entries of the directory a filter finds

VARIABLE ldap   \* the call, the connection it holds and what the directory has

Scopes == [scheme : {"ldap", "ldaps", "http"}, starttls : {"unset", "on", "off"}, loopback : BOOLEAN,
           bind : {"neither", "half", "both"}, holes : BOOLEAN, groups : {"inside", "outside"}]
Args == [user : {"empty", "named"}, password : {"empty", "wrong", "right"}, base : {"inside", "outside"},
         filter : {"good", "bad"}, limit : 0..(MAX_ENTRIES + 1)]
Directory == [held : 0..MaxHeld, sizelimit : 0..MaxHeld, service : {"right", "wrong"}, base : BOOLEAN]
Unmet == [held |-> 0, sizelimit |-> 0, service |-> "right", base |-> TRUE]

\* LdapScope::transport: a password never crosses a network in the clear.
Transport(s) ==
    CASE s.scheme = "ldaps" /\ s.starttls = "unset" -> "ldaps"
      [] s.scheme = "ldap" /\ s.starttls # "off" -> "starttls"
      [] s.scheme = "ldap" /\ s.starttls = "off" /\ s.loopback -> "plain"
      [] OTHER -> "refused"

\* LdapScope::validate: both halves of a service bind, a filter with its
\* hole, and a group base inside the base.
Valid(s) == Transport(s) # "refused" /\ s.bind # "half" /\ s.holes /\ s.groups = "inside"
-----------------------------------------------------------------------------
Over(l, result) == [l EXCEPT !.pc = "over", !.result = result]
Nobody(l) == Over(l, IF l.verb = "bind" THEN "not ok" ELSE "absent")

\* LdapScope::parse, once for the call.
Parse ==
    /\ ldap.pc = "parse"
    /\ \E s \in Scopes :
         ldap' = IF Valid(s) THEN [ldap EXCEPT !.pc = "call", !.over = Transport(s), !.bind = s.bind]
                 ELSE Over(ldap, "error")

\* What a search refuses before it connects: a filter, base or limit that
\* is not its to use.
SearchRefused(a) == a.filter = "bad" \/ a.base = "outside" \/ a.limit = 0 \/ a.limit > MAX_ENTRIES

Asks(a) == [ldap EXCEPT !.pc = "connect", !.password = a.password, !.limit = a.limit]

\* Mutant: the empty password is left to the directory.
BeginEmpty ==
    /\ ldap.pc = "call"
    /\ \E a \in Args :
         ldap' = IF ldap.verb = "search" /\ SearchRefused(a) THEN Over(ldap, "error")
                 ELSE IF ldap.verb # "search" /\ a.user = "empty" THEN Nobody(ldap)
                 ELSE Asks(a)

\* The arguments: an empty user or password is answered here, not sent.
Begin ==
    /\ ldap.pc = "call"
    /\ \E a \in Args :
         ldap' = IF ldap.verb = "search" /\ SearchRefused(a) THEN Over(ldap, "error")
                 ELSE IF \/ ldap.verb # "search" /\ a.user = "empty"
                         \/ ldap.verb = "bind" /\ a.password = "empty"
                      THEN Nobody(ldap)
                      ELSE Asks(a)

\* connect: the transport and its certificate, or an error.
Connect ==
    /\ ldap.pc = "connect"
    /\ \/ ldap' = Over(ldap, "error")
       \/ \E d \in Directory : ldap' = [ldap EXCEPT !.pc = "service", !.dir = d]

\* service_bind: nothing where the grant names no account, an error where
\* the directory refuses it.
ServiceBind ==
    /\ ldap.pc = "service"
    /\ ldap' = IF ldap.bind = "neither" THEN [ldap EXCEPT !.pc = ldap.then]
               ELSE IF ldap.dir.service = "wrong" THEN Over(ldap, "error")
               ELSE [ldap EXCEPT !.pc = ldap.then, !.as = "service"]

\* The entries the directory sends for a size limit, and its code: its own
\* limit may be the lower one (0 is none).
Sends(d, asked) ==
    LET most == IF d.sizelimit # 0 /\ d.sizelimit < asked THEN d.sizelimit ELSE asked
        held == IF d.base THEN d.held ELSE 0 IN
    [n |-> IF held > most THEN most ELSE held,
     rc |-> IF ~d.base THEN "no such object" ELSE IF held > most THEN "size limit" ELSE "success"]

\* Mutant: the directory's own limit is not a truncation.
RunSearchWhole(d, limit) ==
    LET sent == Sends(d, limit + 1) IN
    [found |-> IF sent.n > limit THEN limit ELSE sent.n, truncated |-> sent.n > limit]

\* run_search: one past the limit, so that a full page and an overfull one
\* differ; a base that names nothing is an empty answer.
RunSearch(d, limit) ==
    LET sent == Sends(d, limit + 1) IN
    [found |-> IF sent.n > limit THEN limit ELSE sent.n,
     truncated |-> sent.n > limit \/ sent.rc = "size limit"]

\* search's own find; any other code of the directory is an error.
Search ==
    /\ ldap.pc = "find" /\ ldap.verb = "search"
    /\ \/ ldap' = Over(ldap, "error")
       \/ ldap' = [Over(ldap, "entries") EXCEPT !.answer = RunSearch(ldap.dir, ldap.limit)]

\* find_user: exactly one of the two asked for.
FindUser ==
    /\ ldap.pc = "find" /\ ldap.verb # "search"
    /\ \/ ldap' = Over(ldap, "error")
       \/ ldap' = IF RunSearch(ldap.dir, 2).found # 1 THEN Nobody(ldap)
                  ELSE [ldap EXCEPT !.pc = IF ldap.verb = "bind" THEN "bind" ELSE "groups"]

\* simple_bind as the entry found, with the program's password.
BindUser ==
    /\ ldap.pc = "bind"
    /\ \/ ldap' = Over(ldap, "error")
       \/ /\ ldap.password = "wrong"
          /\ ldap' = Nobody(ldap)
       \/ /\ ldap.password # "wrong"
          /\ ldap' = [ldap EXCEPT
               !.as = IF ldap.password = "empty" THEN "anonymous" ELSE "user",
               !.proved = @ \/ ldap.password = "right",
               !.then = "groups", !.pc = IF ldap.bind = "both" THEN "service" ELSE "groups"]

\* find_groups, under whoever the connection is bound as by then.
FindGroups ==
    /\ ldap.pc = "groups"
    /\ \/ ldap' = Over(ldap, "error")
       \/ ldap' = [Over(ldap, "ok") EXCEPT !.read = ldap.as]

\* The deadline over the whole of the work.
TimedOut == ldap.pc \notin {"parse", "call", "over"} /\ ldap' = Over(ldap, "timed out")
-----------------------------------------------------------------------------
Init ==
    \E v \in {"search", "bind", "groups"} :
        ldap = [pc |-> "parse", verb |-> v, over |-> "none", bind |-> "neither", password |-> "empty",
                limit |-> 0, dir |-> Unmet, then |-> "find", as |-> "anonymous", proved |-> FALSE,
                read |-> "nobody", result |-> "none", answer |-> [found |-> 0, truncated |-> FALSE]]

Next ==
    \/ Parse \/ Begin \/ Connect \/ ServiceBind \/ Search \/ FindUser \/ BindUser \/ FindGroups \/ TimedOut

Spec == Init /\ [][Next]_ldap
-----------------------------------------------------------------------------
(* A login answered ok proved the user's own password on this connection,  *)
(* and its groups were read as the service account wherever the grant      *)
(* names one, as that user and nobody else where it names none.            *)
LoginEarned ==
    ldap.verb = "bind" /\ ldap.result = "ok" =>
        /\ ldap.proved
        /\ ldap.read = (IF ldap.bind = "both" THEN "service" ELSE "user")

(* A search says it was cut short exactly when the directory holds more    *)
(* than it answered, whichever of the two limits did the cutting.          *)
TruncationTold ==
    ldap.result = "entries" =>
        (ldap.answer.truncated <=> ldap.dir.base /\ ldap.dir.held > ldap.answer.found)

(* "an ambiguous filter is seen as ambiguous rather than as the first of   *)
(* several people": an answer about a user is about the only entry found.  *)
OnePerson == ldap.verb # "search" /\ ldap.result = "ok" => ldap.dir.held = 1
=============================================================================
