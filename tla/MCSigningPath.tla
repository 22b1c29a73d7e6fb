--------------------------- MODULE MCSigningPath ---------------------------
(***************************************************************************)
(* Small instances of the signing path.  Of three calls c0 is canned,      *)
(* c1 changes the node's own entry and c2 that and a new channel's.        *)
(***************************************************************************)
EXTENDS SigningPath, TLC

CONSTANTS c0, c1, c2, node, channel

MCReq == Calls \cup {Heartbeat}

MCTouches ==
    (c0 :> {}) @@ (c1 :> {node}) @@ (c2 :> {node, channel}) @@ (Heartbeat :> {node})

\* The identities of streams are interchangeable (safety runs only).
MCSymmetry == Permutations(Streams)

=============================================================================
