---------------------------- MODULE MCReceiving ----------------------------
(***************************************************************************)
(* A small instance for TLC: one invoice of two parts, amounts small       *)
(* enough to enumerate, the largest of which the product of lsp_invoice    *)
(* cuts off.                                                               *)
(***************************************************************************)
EXTENDS Receiving, TLC

CONSTANTS p1, p2

MCPeerOrder == <<p1, p2>>

\* One of the two is in listincoming.
Channel(up, normal, receivable, alias) ==
    [up |-> up, normal |-> normal, receivable |-> receivable, alias |-> alias,
     incoming |-> alias = "a"]

\* Channels enough for 260 msat, and one of them not ready.
MCListings ==
    {{Channel(TRUE, TRUE, 200, "a"), Channel(TRUE, TRUE, 70, "b")},
     {Channel(TRUE, TRUE, 200, "a"), Channel(TRUE, FALSE, 70, "b")}}

\* Secrets of two bytes.
MCSecret == [l \in Labels \cup {None} |-> <<9, 0>>]

MCSymmetry == Permutations(Parts)

=============================================================================
