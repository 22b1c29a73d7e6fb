------------------------------ MODULE MCPeers ------------------------------
(***************************************************************************)
(* An instance for TLC.  A signer attaches once, and again after each      *)
(* fault that is not a restart, so that Signers + MaxFaults streams are    *)
(* enough.                                                                 *)
(***************************************************************************)
EXTENDS Peers

ASSUME Cardinality(Streams) = Cardinality(Signers) + MaxFaults

=============================================================================
