---------------------------- MODULE MCTrampoline ----------------------------
(***************************************************************************)
(* Two calls, two channels, and an amount that is sent in one part or in   *)
(* two of different size.                                                  *)
(***************************************************************************)
EXTENDS Trampoline

CONSTANTS first, second, chanA, chanB

OneOrTwo == {<<3>>, <<1, 2>>}

=============================================================================
