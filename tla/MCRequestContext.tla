-------------------------- MODULE MCRequestContext --------------------------
(***************************************************************************)
(* Small instances of the request context: a payment, an invoice created   *)
(* under the lock on the shared client, a configure call, and a sweep of   *)
(* the node's own.                                                         *)
(***************************************************************************)
EXTENDS RequestContext

CONSTANTS pay, lsp, configure1, sweep

=============================================================================
