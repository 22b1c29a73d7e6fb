----------------------------- MODULE MCPairing -----------------------------
(***************************************************************************)
(* Two directories: one an old release set up, and one that is new.        *)
(* Two methods tell a full rune from one restricted to reading.            *)
(***************************************************************************)
EXTENDS Pairing, TLC

MCMethods == {<<"List", "Peers">>, <<"Pay">>, <<"Approve", "Pairing">>}

\* What users ask for: nothing, reading only, and a text with a typo.
MCRequested == {{}, {{Alternative("method", "^", <<"list">>)}}, {Malformed}}

MCSymmetry == Permutations(Keys) \cup Permutations(Nodes)

=============================================================================
