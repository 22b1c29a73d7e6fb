------------------------------- MODULE Runes -------------------------------
(***************************************************************************)
(* Runes, the tokens that say which calls a device may make: how they are  *)
(* created (gl-client/src/signer/mod.rs), carved (gl-client/src/runes.rs)  *)
(* and verified by the signer.                                             *)
(*                                                                         *)
(* A restriction is the set of its alternatives, of which one must hold; a *)
(* rune holds the set of its restrictions, all of which must.  The         *)
(* authcode binds a rune to the seed it was made from: it stands here as   *)
(* `issuer', the node of that seed.  The first restriction of every rune   *)
(* holds its unique id and version, one constant in this code, and is left *)
(* out, as is the `time' field.  A method name is the sequence of its      *)
(* words, so that a prefix of a name is a prefix of a sequence.            *)
(***************************************************************************)
EXTENDS Naturals, Sequences, FiniteSets

\* What a text that is no restriction parses to: nothing.
Malformed == {}

Alternative(field, cond, value) == [field |-> field, cond |-> cond, value |-> value]

\* `pubkey=<key>', the restriction that binds a rune to a device.
BoundTo(key) == {Alternative("pubkey", "=", key)}

IsPrefixOf(p, s) == Len(p) <= Len(s) /\ SubSeq(s, 1, Len(p)) = p

\* Context::check_alternative: a field nobody knows has the empty value.
Passes(ctx, alt) ==
    LET value == CASE alt.field = "pubkey" -> ctx.pubkey
                   [] alt.field = "method" -> ctx.method
                   [] OTHER                -> <<>>
    IN  CASE alt.cond = "=" -> value = alt.value
          [] alt.cond = "/" -> value # alt.value
          [] alt.cond = "^" -> IsPrefixOf(alt.value, value)

Satisfies(ctx, restrs) == \A r \in restrs : \E alt \in r : Passes(ctx, alt)

\* to_lowercase, word by word.
LowerCase == [Get |-> "get", List |-> "list", Pay |-> "pay", Peers |-> "peers",
              Approve |-> "approve", Pairing |-> "pairing"]
Lower(method) == [i \in DOMAIN method |-> LowerCase[method[i]]]

Services == {"cln.Node", "greenlight.Node"}

NamesPubkey(restrs) == \E r \in restrs : \E a \in r : a.field = "pubkey" /\ a.cond = "="

(***************************************************************************)
(* Signer::verify_rune, by the signer of `node': the rune names a public   *)
(* key, the call is for a known service, and the rune was made from this   *)
(* seed and lets the caller's key make the call.                           *)
(***************************************************************************)
Verified(node, call) ==
    /\ NamesPubkey(call.rune.restrs)
    /\ call.service \in Services
    /\ call.rune.issuer = node
    /\ Satisfies([pubkey |-> call.pubkey, method |-> Lower(call.method)], call.rune.restrs)

-----------------------------------------------------------------------------

\* Signer::create_rune without a rune: every text parses, one names a key.
Creates(texts) == Malformed \notin texts /\ NamesPubkey(texts)

\* Signer::create_rune: a rune of the signer of `node', when Creates(texts).
NewRune(node, texts) == [issuer |-> node, restrs |-> texts]

\* Mutant of AddRestrictions: the texts become alternatives of what is there.
AddAlternatives(rune, texts) ==
    [rune EXCEPT !.restrs = {r \cup UNION texts : r \in @}]

(***************************************************************************)
(* Signer::create_rune with a rune: adds each restriction in place.  The   *)
(* error of one that does not parse is dropped, and so is the restriction. *)
(***************************************************************************)
AddRestrictions(rune, texts) ==
    [rune EXCEPT !.restrs = @ \cup {t \in texts : t # Malformed}]

(***************************************************************************)
(* DefRules::generate: each rule is one restriction, and Add merges the    *)
(* alternatives of its rules into one.  Here a rule is the set of the      *)
(* elementary rules it adds up.                                            *)
(***************************************************************************)
ReadOnly == {Alternative("method", "^", <<"Get">>), Alternative("method", "^", <<"List">>)}
PayRule == {Alternative("method", "=", <<"pay">>)}

Generate(rules) ==
    UNION {IF rule = "ReadOnly" THEN ReadOnly ELSE PayRule : rule \in rules}

\* RuneFactory::carve, for a sequence of rules given as a set.
Carve(origin, append) == AddRestrictions(origin, {Generate(rules) : rules \in append})

-----------------------------------------------------------------------------

\* AuthService::call: what a device that holds `key' signs and sends along.
CallOf(key, rune, method) ==
    [pubkey |-> key, rune |-> rune, method |-> method, service |-> "cln.Node"]

\* The pairs of a key and a method a rune lets through.
Grants(node, rune, keys, methods) ==
    {g \in keys \X methods : Verified(node, CallOf(g[1], rune, g[2]))}

=============================================================================
