--------------------------- MODULE RequestContext ---------------------------
(***************************************************************************)
(* The context of pending gRPC calls that is shown to the signer with each *)
(* hsmd request (gl-plugin/src/context.rs, SignatureContextService and     *)
(* Node::configure in gl-plugin/src/node/mod.rs), and the signer's use of  *)
(* it (Resolver and Authorizer, gl-client/src/signer).                     *)
(*                                                                         *)
(* Calls run concurrently and may be cancelled at every await, which is    *)
(* what a disconnecting client does to a handler.  One JSON-RPC client of  *)
(* lightningd is shared by the handlers of PluginNodeServer under a lock.  *)
(***************************************************************************)
EXTENDS Naturals, Sequences, Functions

CONSTANTS
    Calls,        \* signed gRPC calls
    Configures,   \* those to Node::configure
    RpcUsers,     \* others whose handler holds the shared client (lsp_invoice)
    Garbled,      \* calls of Pay with a bolt11 string that does not parse
    Background,   \* hsmd requests that no call stands behind
    None,
    Loader,       \* the task that reads the stored configuration at startup
    MaxFaults     \* bound: cancelled calls and restarts of the node

ASSUME ContextAssumption ==
    /\ Configures \subseteq Calls /\ RpcUsers \subseteq Calls /\ Garbled \subseteq Calls
    /\ Configures \cap RpcUsers = {} /\ Garbled \cap (Configures \cup RpcUsers) = {}
    /\ Background \cap Calls = {}
    /\ None \notin Calls /\ Loader \notin Calls \cup {None}
    /\ MaxFaults \in Nat

\* The hsmd requests: those a call raises, and the others.
Hsmd == Calls \cup Background

VARIABLES
    call,       \* where each call stands
    context,    \* Context.requests
    cleanup,    \* spawned tasks that will remove a call from the context
    holder,     \* who holds the shared client of lightningd
    datastore,  \* lightningd's datastore entry glconf/request
    cached,     \* SERIALIZED_CONFIGURE_REQUEST
    loader,     \* the startup task, and what it has read
    hsm,        \* where each hsmd request stands
    carried,    \* the context an hsmd request was sent with
    faults      \* faults so far

vars == <<call, context, cleanup, holder, datastore, cached, loader, hsm, carried, faults>>

configVars == <<datastore, cached, loader>>
hsmVars == <<hsm, carried>>

CallStates == {"idle", "running", "locked", "stored", "done", "gone", "torn"}

HsmStates == {"none", "asked", "sent", "signed", "refused", "lost"}

\* A call whose handler has not ended, neither with a result nor cancelled.
Pending(c) == call[c] \in {"running", "locked", "stored"}

TypeOK ==
    /\ call \in [Calls -> CallStates]
    /\ context \in Seq(Calls)
    /\ cleanup \in SUBSET Calls
    /\ holder \in Calls \cup {None, Loader}
    /\ datastore \in Calls \cup {None} /\ cached \in Calls \cup {None}
    /\ loader \in [pc : {"waiting", "read", "done"}, seen : Calls \cup {None}]
    /\ hsm \in [Hsmd -> HsmStates]
    /\ carried \in [Hsmd -> SUBSET Calls]
    /\ faults \in 0..MaxFaults

Waiting == [pc |-> "waiting", seen |-> None]

Init ==
    /\ call = [c \in Calls |-> "idle"]
    /\ context = <<>>
    /\ cleanup = {}
    /\ holder = None
    /\ datastore = None /\ cached = None
    /\ loader = Waiting
    /\ hsm = [h \in Hsmd |-> "none"]
    /\ carried = [h \in Hsmd |-> {}]
    /\ faults = 0

-----------------------------------------------------------------------------
(* SignatureContextService and the handlers behind it                      *)

\* The call is added to the context, then its handler runs.
CallStarts(c) ==
    /\ call[c] = "idle"
    /\ call' = [call EXCEPT ![c] = "running"]
    /\ context' = Append(context, c)
    /\ UNCHANGED <<cleanup, holder, configVars, hsmVars, faults>>

\* rpc_arc.lock().await
CallLocksRpc(c) ==
    /\ c \in Configures \cup RpcUsers
    /\ call[c] = "running"
    /\ holder = None
    /\ holder' = c
    /\ call' = [call EXCEPT ![c] = "locked"]
    /\ UNCHANGED <<context, cleanup, configVars, hsmVars, faults>>

\* The handler ends: its locks are dropped and the removal is spawned.
Ends(c) ==
    /\ call' = [call EXCEPT ![c] = "done"]
    /\ cleanup' = cleanup \cup {c}
    /\ holder' = IF holder = c THEN None ELSE holder

(***************************************************************************)
(* A handler other than configure returns.  lightningd does not let it     *)
(* while the hsmd request it raised has no answer, and a refused one gets  *)
(* none.                                                                   *)
(***************************************************************************)
CallReturns(c) ==
    /\ c \notin Configures
    /\ call[c] = IF c \in RpcUsers THEN "locked" ELSE "running"
    /\ hsm[c] \in {"none", "signed"}
    /\ Ends(c)
    /\ UNCHANGED <<context, configVars, hsmVars, faults>>

\* Mutant of Forgotten: drops the oldest call.
ForgottenFirst(c) == Tail(context)

(***************************************************************************)
(* Context::remove_request.  Signatures are unique, so that at most one    *)
(* entry goes.                                                             *)
(***************************************************************************)
Forgotten(c) ==
    LET Without(i) == [j \in 1..(Len(context) - 1) |->
                          IF j < i THEN context[j] ELSE context[j + 1]]
    IN  IF c \in Range(context)
        THEN Without(CHOOSE i \in DOMAIN context : context[i] = c)
        ELSE context

CleanUp(c) ==
    /\ c \in cleanup
    /\ cleanup' = cleanup \ {c}
    /\ context' = Forgotten(c)
    /\ UNCHANGED <<call, holder, configVars, hsmVars, faults>>

\* Mutant of Cancel: the shared client stays locked.
CancelKeepsRpc(c) ==
    /\ faults < MaxFaults
    /\ faults' = faults + 1
    /\ Pending(c)
    /\ call' = [call EXCEPT ![c] = "gone"]
    /\ UNCHANGED <<context, cleanup, holder, configVars, hsmVars>>

(***************************************************************************)
(* The client goes away and the server drops the handler at an await.      *)
(* Nothing after that await happens, the removal from the context          *)
(* included.  A configure may be torn: stored, and not in the cache.       *)
(***************************************************************************)
Cancel(c) ==
    /\ faults < MaxFaults
    /\ faults' = faults + 1
    /\ Pending(c)
    /\ call' = [call EXCEPT ![c] = IF @ = "stored" THEN "torn" ELSE "gone"]
    /\ holder' = IF holder = c THEN None ELSE holder
    /\ UNCHANGED <<context, cleanup, configVars, hsmVars>>

-----------------------------------------------------------------------------
(* Node::configure, and the configuration read back at startup             *)

(***************************************************************************)
(* What lightningd does with a value for a key when no mode is given: it   *)
(* must create the entry.  (Where the plugin wants to overwrite, as for    *)
(* the list of peers in lib.rs, it asks for CREATE_OR_REPLACE.)            *)
(***************************************************************************)
DatastoreAccepts == datastore = None

\* getinfo or the datastore fails, or the address is not of this network.
ConfigureFails(c) ==
    /\ c \in Configures
    /\ call[c] = "locked"
    /\ Ends(c)
    /\ UNCHANGED <<context, configVars, hsmVars, faults>>

\* The first of the pending calls is written to lightningd's datastore.
ConfigureStores(c) ==
    /\ c \in Configures
    /\ call[c] = "locked"
    /\ DatastoreAccepts
    /\ call' = [call EXCEPT ![c] = "stored"]
    /\ datastore' = Head(context)
    /\ UNCHANGED <<context, cleanup, holder, cached, loader, hsmVars, faults>>

\* The same goes into the cache, once its lock is free.
ConfigureCaches(c) ==
    /\ call[c] = "stored"
    /\ cached' = datastore
    /\ Ends(c)
    /\ UNCHANGED <<context, datastore, loader, hsmVars, faults>>

LoaderReads ==
    /\ loader.pc = "waiting"
    /\ holder = None
    /\ holder' = Loader
    /\ loader' = [pc |-> "read", seen |-> datastore]
    /\ UNCHANGED <<call, context, cleanup, datastore, cached, hsmVars, faults>>

\* Mutant of LoaderCaches: forgets to fill the cache.
LoaderCachesNothing ==
    /\ loader.pc = "read"
    /\ loader' = [loader EXCEPT !.pc = "done"]
    /\ holder' = IF holder = Loader THEN None ELSE holder
    /\ UNCHANGED <<call, context, cleanup, datastore, cached, hsmVars, faults>>

LoaderCaches ==
    /\ loader.pc = "read"
    /\ cached' = IF loader.seen # None THEN loader.seen ELSE cached
    /\ loader' = [loader EXCEPT !.pc = "done"]
    /\ holder' = IF holder = Loader THEN None ELSE holder
    /\ UNCHANGED <<call, context, cleanup, datastore, hsmVars, faults>>

-----------------------------------------------------------------------------
(* hsmd requests                                                           *)

\* A running call, or the node on its own account, needs the signer.
Ask(h) ==
    /\ hsm[h] = "none"
    /\ h \in Calls => /\ Pending(h)
                      /\ h \notin Configures \cup Garbled
                      /\ h \in RpcUsers => call[h] = "locked"
    /\ hsm' = [hsm EXCEPT ![h] = "asked"]
    /\ UNCHANGED <<call, context, cleanup, holder, configVars, carried, faults>>

\* Mutant of Shown: pushes the cache without looking whether it is set.
ShownUnchecked == Range(context) \cup {cached}

\* What a request is sent out with: the pending calls and the configuration.
Shown == Range(context) \cup ({cached} \ {None})

Send(h) ==
    /\ hsm[h] = "asked"
    /\ hsm' = [hsm EXCEPT ![h] = "sent"]
    /\ carried' = [carried EXCEPT ![h] = Shown]
    /\ UNCHANGED <<call, context, cleanup, holder, configVars, faults>>

(***************************************************************************)
(* The signer: Resolver::try_resolve looks for the call that justifies the *)
(* request, unless it needs no justification.                              *)
(***************************************************************************)
Resolves(h) == h \in Background \/ h \in carried[h]

\* Authorizer::authorize parses the invoice of every call of Pay it is shown.
Authorizes(h) == carried[h] \cap Garbled = {}

SignerDecides(h) ==
    /\ hsm[h] = "sent"
    /\ hsm' = [hsm EXCEPT ![h] = IF Resolves(h) /\ Authorizes(h) THEN "signed" ELSE "refused"]
    /\ UNCHANGED <<call, context, cleanup, holder, configVars, carried, faults>>

-----------------------------------------------------------------------------

\* A torn configure is one whose value the cache still lacks.
Reread(c) == IF call[c] = "torn" THEN "gone" ELSE call[c]

\* lightningd and the plugin go down together; the datastore survives.
NodeRestarts ==
    /\ faults < MaxFaults
    /\ faults' = faults + 1
    /\ call' = [c \in Calls |-> IF Pending(c) THEN "gone" ELSE Reread(c)]
    /\ context' = <<>>
    /\ cleanup' = {}
    /\ holder' = None
    /\ cached' = None
    /\ loader' = Waiting
    /\ hsm' = [h \in Hsmd |-> IF hsm[h] \in {"asked", "sent"} THEN "lost" ELSE hsm[h]]
    /\ UNCHANGED <<datastore, carried>>

CallStep(c) ==
    \/ CallLocksRpc(c) \/ CallReturns(c) \/ CleanUp(c)
    \/ ConfigureFails(c) \/ ConfigureStores(c) \/ ConfigureCaches(c)

Load == LoaderReads \/ LoaderCaches

Next ==
    \/ \E c \in Calls : CallStarts(c) \/ CallStep(c) \/ Cancel(c)
    \/ Load
    \/ \E h \in Hsmd : Ask(h) \/ Send(h) \/ SignerDecides(h)
    \/ NodeRestarts

Spec == Init /\ [][Next]_vars

(***************************************************************************)
(* Tasks and handlers that can run do, and the signer answers.  The mutex  *)
(* of the shared client hands itself to its waiters in turn.               *)
(***************************************************************************)
Fairness ==
    /\ \A c \in Calls : SF_vars(CallLocksRpc(c)) /\ WF_vars(CallStep(c))
    /\ SF_vars(LoaderReads) /\ WF_vars(LoaderCaches)
    /\ \A h \in Hsmd : WF_vars(Send(h) \/ SignerDecides(h))

FairSpec == Spec /\ Fairness

-----------------------------------------------------------------------------
(* Properties                                                              *)

(***************************************************************************)
(* The signer is always shown the call that justifies a request while that *)
(* call is pending, however many others end or are removed meanwhile.      *)
(***************************************************************************)
PendingIsShown ==
    [][\A h \in Calls : hsm[h] = "asked" /\ hsm'[h] = "sent" /\ Pending(h) => h \in carried'[h]]_vars

(***************************************************************************)
(* What is shown to signers is what a restart would read back, unless a    *)
(* configure is between the two or, since the last start, was cancelled    *)
(* there: neither contending configures nor the startup task, nor a crash  *)
(* at any point, leave the two apart.                                      *)
(***************************************************************************)
CacheFollowsDatastore ==
    \/ cached = datastore
    \/ loader.pc # "done"
    \/ \E c \in Configures : call[c] \in {"stored", "torn"}

(***************************************************************************)
(* Every call returns or is cancelled, unless its hsmd request was refused *)
(* or the shared client is held by a call whose request was.               *)
(***************************************************************************)
EveryCallEnds ==
    \A c \in Calls : Pending(c) ~>
        (~Pending(c) \/ \E h \in Calls : hsm[h] = "refused" /\ h \in {c, holder})

=============================================================================
