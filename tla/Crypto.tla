------------------------------- MODULE Crypto -------------------------------
(***************************************************************************)
(* host:crypto/* (connectors/crypto/src/lib.rs): the subkeys one scope's   *)
(* key yields, the labels a caller derives from it and owns, the tokens    *)
(* they sign and check, and one-time codes.                                *)
(*                                                                         *)
(* A key is the term that derives it: two are the same bytes when they are *)
(* the same term, and a signature or MAC is the term of the key it was     *)
(* made with.  Text is left out: a token is its header's two members, the  *)
(* key its signature is under and its times.  A refused call changes       *)
(* nothing, so a refusal is a call that is not taken.  crypto/random,      *)
(* crypto/hash, crypto/totp and crypto/turn_credential keep no state and   *)
(* are left out.                                                           *)
(***************************************************************************)
EXTENDS Integers, Sequences, FiniteSets

CONSTANTS Callers, Labels,    \* instances, and labels they may derive
          Permits,            \* caller -> the labels the patterns of its derive grants imply
          Configured,         \* names crypto.secrets and crypto.signing_keys may use
          TTL_MAX,            \* the longest ttl
          TOTP_WINDOW_MAX,    \* the widest window
          Base,               \* how many values a digit of a code has (10 in the code)
          MaxTime, MaxTokens  \* bounds of the model: the clock, tokens about

VARIABLE crypto   \* the scope, the labels registered, the tokens about, the last verdict

Names  == Labels \cup Configured
NoName == "none"
NoTime == -1
Absent == -1      \* an argument that is not there
-----------------------------------------------------------------------------
\* Keys.

\* hmac_sha256 of a master under one of the KDF labels, which are distinct.
Subkey(master, use) == Append(master, use)

\* Keys::derive: what the master yields, and nothing keeps the master.
k_hmac  == Subkey(<<"master">>, "hmac")
k_jwt   == Subkey(<<"master">>, "jwt")
k_label == Subkey(<<"master">>, "derive")

\* LabelKeys::derive: a function of the label and its alg and of nothing else,
\* so that two nodes that derive one label reach one key.
LabelKeys(label, alg) ==
    LET master == Subkey(k_label, label)
    IN  [hmac |-> Subkey(master, "hmac"),
         totp |-> Subkey(master, "totp"),
         jwt  |-> [alg |-> alg, key |-> Subkey(master, IF alg = "HS256" THEN "jwt" ELSE "eddsa")]]

\* The peer's bytes of a configured secret and the key of a signing entry.
Raw(name) == <<"configured", name>>

\* Keys::derive refuses a signing key named like a secret: one name, one key.
Wired(secrets, signing) == secrets \cap signing = {}

\* verify_only and keys: a scope with no key answers jwt_verify {jwks} and, of
\* the calls here, no other; every other first takes the scope's keys.
Keyed == crypto.scope = "keyed"

\* clamp_ttl: a ttl that is no policy is the default, here one tick.
ClampTtl(ttl) == IF ttl \in 1..TTL_MAX THEN ttl ELSE 1

\* The entry of the label table, as the set of its alg: at most one.
Held(c, label) == {alg \in {"HS256", "EdDSA"} : <<c, label, alg>> \in crypto.labels}

\* named_jwt_key: a configured signing key, or a label of the caller's own.
NamedJwtKey(c, name) ==
    IF name \in crypto.signing THEN {[alg |-> "EdDSA", key |-> Raw(name)]}
    ELSE {LabelKeys(name, alg).jwt : alg \in Held(c, name)}

\* do_hmac's key: the scope's own, a configured secret, a label's hmac subkey,
\* or none.  No name falls back to another key.
HmacKey(c, name) ==
    IF name = NoName THEN {k_hmac}
    ELSE IF name \in crypto.secrets THEN {Raw(name)}
    ELSE {LabelKeys(name, alg).hmac : alg \in Held(c, name)}

\* totp_seed: a configured secret's bytes, unless they are to be handed out,
\* or the seed of a label of the caller's own.
TotpSeed(c, name, enrolling) ==
    IF name \in crypto.secrets THEN IF enrolling THEN {} ELSE {Raw(name)}
    ELSE {LabelKeys(name, alg).totp : alg \in Held(c, name)}
-----------------------------------------------------------------------------
\* Labels.

\* do_derive: a label the grant names, that shadows nothing configured, under
\* the one alg it has been derived with if it has.
DeriveAllowed(c, label, alg) ==
    /\ label \in Permits[c]
    /\ label \notin crypto.secrets /\ label \notin crypto.signing
    /\ Held(c, label) \subseteq {alg}

Derive ==
    Keyed /\ \E c \in crypto.live, label \in Names, alg \in {"HS256", "EdDSA"} :
        /\ DeriveAllowed(c, label, alg)
        /\ crypto' = [crypto EXCEPT !.labels = @ \cup {<<c, label, alg>>}]

\* release: the labels of a node go with it.
Release ==
    \E c \in crypto.live :
        crypto' = [crypto EXCEPT !.live = @ \ {c}, !.labels = {l \in @ : l[1] # c}]
-----------------------------------------------------------------------------
\* Tokens.

\* kid_header_b64: the header a key writes, which names it; the constant
\* header of the default key names none.
HeaderFor(k, name) == [kid |-> name, alg |-> k.alg]
JwtHeader          == [kid |-> NoName, alg |-> "HS256"]

\* do_jwt_sign's payload: the host owns iat and exp, and drops the program's
\* iat, exp and nbf.
Payload(claims, ttl) == [iat |-> crypto.now, exp |-> crypto.now + ttl, nbf |-> NoTime]

Token(header, key, times, by, made) ==
    [header |-> header, sig |-> key, iat |-> times.iat, exp |-> times.exp, nbf |-> times.nbf,
     by |-> by, made |-> made]

\* Another token about.  Codes and tokens share the labels and nothing else,
\* so a behaviour follows the one or the other.
Circulate(t) ==
    /\ crypto.account = NoName /\ Cardinality(crypto.tokens) < MaxTokens
    /\ crypto' = [crypto EXCEPT !.tokens = @ \cup {t}]

\* What a program may put in claims, or another issuer in a token.
Times == [iat : {0}, exp : {NoTime, MaxTime + TTL_MAX + 1}, nbf : {NoTime, 1}]

\* do_jwt_sign: under the default key, a signing key or a label of the
\* caller's own; never under a configured secret, whose bytes a peer has.
JwtSign ==
    Keyed /\ \E c \in crypto.live, name \in Names \cup {NoName}, ttl \in {Absent, TTL_MAX, TTL_MAX + 1}, claims \in Times :
        LET times == Payload(claims, ClampTtl(ttl)) IN
        \/ name = NoName /\ Circulate(Token(JwtHeader, k_jwt, times, c, "jwt_sign"))
        \/ /\ name \notin crypto.secrets
           /\ \E k \in NamedJwtKey(c, name) :
                  Circulate(Token(HeaderFor(k, name), k.key, times, c, "jwt_sign"))

\* A token a program puts together itself, under a MAC it can get.
Assembled(c, key) ==
    \E kid \in Names \cup {NoName}, alg \in {"HS256", "EdDSA"} :
        Circulate(Token([kid |-> kid, alg |-> alg], key,
                        [iat |-> 0, exp |-> MaxTime + TTL_MAX + 1, nbf |-> NoTime], c, "program"))

\* do_hmac over the bytes of such a token; do_totp_enroll, which hands out a
\* label's seed, with which the program makes a MAC of its own.
Hmac   == Keyed /\ \E c \in crypto.live, name \in Names \cup {NoName} : \E k \in HmacKey(c, name) : Assembled(c, k)
Enroll == Keyed /\ \E c \in crypto.live, name \in Names : \E k \in TotpSeed(c, name, TRUE) : Assembled(c, k)

\* A token of another issuer's, which names its keys as it likes.
Issuer == <<"issuer", "EdDSA">>
Issued == \E kid \in Names, times \in Times :
              Circulate(Token([kid |-> kid, alg |-> "EdDSA"], Issuer, times, "issuer", "issuer"))

\* verified_claims: exp is required, and nbf is minded.
VerifiedClaims(t) ==
    IF t.exp = NoTime \/ crypto.now >= t.exp THEN "expired"
    ELSE IF t.nbf # NoTime /\ crypto.now < t.nbf THEN "not_yet_valid" ELSE "ok"

\* jwt_signature_ok, and the claims only after it.
Signed(t, key) == IF t.sig # key THEN "signature" ELSE VerifiedClaims(t)

\* do_jwt_verify: the key by the header's kid and nothing else, then the whole
\* header against the one that key writes.
JwtVerdict(c, t) ==
    LET keys == NamedJwtKey(c, t.header.kid)
        k    == CHOOSE k \in keys : TRUE
    IN  IF t.header.kid # NoName
        THEN IF keys = {} THEN "kid"
             ELSE IF t.header # HeaderFor(k, t.header.kid) THEN "alg" ELSE Signed(t, k.key)
        ELSE IF t.header # JwtHeader THEN "alg"
             ELSE IF ~crypto.accept_unkeyed THEN "unkeyed" ELSE Signed(t, k_jwt)

\* do_public_key: the public half of an EdDSA key, under its name.
Jwk(name, key, usable) == [kid |-> name, key |-> key, usable |-> usable]

PublicKey ==
    Keyed /\ \E c \in crypto.live, name \in Names : \E k \in NamedJwtKey(c, name) :
        /\ k.alg = "EdDSA"
        /\ crypto' = [crypto EXCEPT !.published = @ \cup {Jwk(name, k.key, TRUE)}]

\* jwks_keys: the entries of a key set that are Ed25519 keys for signatures;
\* any other is skipped.
JwksKeys(jwks, kid) == {i \in DOMAIN jwks : jwks[i].usable /\ jwks[i].kid = kid}

\* Key sets a program may hand in: what this host published, what another
\* issuer did, an entry of another type, in any order and more than once.
KeySets ==
    LET about == crypto.published \cup {Jwk(n, Issuer, u) : n \in Names, u \in BOOLEAN}
    IN  {<<a>> : a \in about} \cup {<<a, b>> : a, b \in about}

\* do_jwt_verify_jwks: the one usable key of that kid, and no key of this host's.
JwksVerdict(jwks, t) ==
    LET found == JwksKeys(jwks, t.header.kid) IN
    IF t.header.kid = NoName \/ Cardinality(found) # 1 THEN "kid"
    ELSE IF t.header # [kid |-> t.header.kid, alg |-> "EdDSA"] THEN "alg"
    ELSE Signed(t, jwks[CHOOSE i \in found : TRUE].key)

NoVerdict == [valid |-> FALSE]

Answer(t, reason, own) ==
    crypto' = [crypto EXCEPT !.verdict =
        IF reason = "ok" THEN [valid |-> TRUE, token |-> t, at |-> crypto.now, own |-> own] ELSE NoVerdict]

JwtVerify  == Keyed /\ \E c \in crypto.live, t \in crypto.tokens : Answer(t, JwtVerdict(c, t), TRUE)
JwksVerify == \E t \in crypto.tokens, jwks \in KeySets : Answer(t, JwksVerdict(jwks, t), FALSE)
-----------------------------------------------------------------------------
\* One-time codes.

\* bounded_int: the default, or the value if it is in range, or a refusal.
BoundedInt(v, default, min, max) == IF v = Absent THEN {default} ELSE {v} \cap (min..max)

\* hotp: a step's truncated MAC (here the step), cut to its low digits; the
\* digits are part of the code, a leading zero among them.
Hotp(step, digits) == [digits |-> digits, value |-> step % (Base ^ digits)]

\* do_totp_verify's scan: the steps of the window whose code it is and that are
\* later than the step the program says it last took.
Matched(code, window, after) ==
    {s \in (crypto.now - window)..(crypto.now + window) :
        s >= 0 /\ Hotp(s, code.digits) = code /\ (after # Absent => s > after)}

\* do_totp_verify, for a program that checks one account with one number of
\* digits: it keeps the step it was answered and passes it as after.
TotpVerify ==
    Keyed /\ \E c \in crypto.live, v \in {Absent, 0, TOTP_WINDOW_MAX, TOTP_WINDOW_MAX + 1} :
        \E window \in BoundedInt(v, 1, 0, TOTP_WINDOW_MAX), value \in 0..(Base ^ crypto.digits - 1) :
            LET taken == crypto.accepted
                after == IF taken = <<>> THEN Absent ELSE taken[Len(taken)]
                hits  == Matched([digits |-> crypto.digits, value |-> value], window, after)
            IN  /\ TotpSeed(c, crypto.account, FALSE) # {} /\ hits # {}
                /\ crypto' = [crypto EXCEPT !.accepted = Append(@, CHOOSE s \in hits : \A h \in hits : s <= h)]

\* now_secs, one step of a code a tick.
Tick == crypto.now < MaxTime /\ crypto' = [crypto EXCEPT !.now = @ + 1]
-----------------------------------------------------------------------------
\* CryptoScopeType::validate has let the scope in.
Init ==
    \E unkeyed \in BOOLEAN, scope \in {"keyed", "verify_only"}, account \in Names \cup {NoName}, digits \in 1..2,
       secrets, signing \in SUBSET Configured :
        /\ Wired(secrets, signing)
        /\ scope = "verify_only" => secrets \cup signing = {} /\ unkeyed
        /\ (scope = "verify_only" \/ account = NoName) => digits = 1
        /\ crypto = [live |-> Callers, scope |-> scope, secrets |-> secrets, signing |-> signing,
                     accept_unkeyed |-> unkeyed, account |-> account, digits |-> digits, labels |-> {},
                     tokens |-> {}, published |-> {}, verdict |-> NoVerdict, now |-> 0, accepted |-> <<>>]

\* call_as, the clock, the other issuer, and the end of a node.
Next == Derive \/ JwtSign \/ Hmac \/ Enroll \/ JwtVerify \/ JwksVerify \/ PublicKey \/ TotpVerify
        \/ Issued \/ Tick \/ Release

Spec == Init /\ [][Next]_crypto
-----------------------------------------------------------------------------
(* "which is what keeps crypto/hmac {key = label} from being a forging     *)
(* oracle": a token found valid is inside its times; one found valid under *)
(* this host's keys was made by jwt_sign, with an exp no further off than  *)
(* a ttl may be, and if it names a label, for a caller whose grant names   *)
(* that label; one found valid under a key set was signed, by this host or *)
(* by the issuer of that set.                                              *)
OnlySigned ==
    crypto.verdict.valid =>
        LET t == crypto.verdict.token
            v == crypto.verdict
        IN  /\ t.exp # NoTime /\ v.at < t.exp /\ t.nbf <= v.at
            /\ t.made \in (IF v.own THEN {"jwt_sign"} ELSE {"jwt_sign", "issuer"})
            /\ t.made = "jwt_sign" => t.exp - t.iat \in 1..TTL_MAX
            /\ t.made = "jwt_sign" /\ t.header.kid \in Labels => t.header.kid \in Permits[t.by]

(* "whatever it signed still verifies and whoever needs it again derives   *)
(* it again" (release): a token jwt_sign made under a label is valid until *)
(* its exp for every caller that holds the label with that alg, the signer *)
(* alive or not.                                                           *)
SignedVerifies ==
    \A t \in crypto.tokens, c \in crypto.live :
        t.made = "jwt_sign" /\ t.header.kid \notin crypto.signing \cup {NoName}
        /\ <<c, t.header.kid, t.header.alg>> \in crypto.labels /\ crypto.now < t.exp
        => JwtVerdict(c, t) = "ok"

(* A program that hands back the step it last took never takes a code      *)
(* twice, whatever codes the steps of the window share.                    *)
CodesOnce == \A i, j \in DOMAIN crypto.accepted : i < j => crypto.accepted[i] < crypto.accepted[j]
=============================================================================
