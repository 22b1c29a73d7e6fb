--------------------------- MODULE ContextProofs ---------------------------
(***************************************************************************)
(* Proofs about the request context, for any number of calls, faults and   *)
(* restarts: a pending call is in the context, whichever others come and   *)
(* go; and the shared client's lock orders the writers of datastore and    *)
(* cache such that the two stay together.                                  *)
(***************************************************************************)
EXTENDS RequestContext, TLAPS

\* Every call that has not ended is in the context.
Listed == \A c \in Calls : Pending(c) => c \in Range(context)

\* Only calls that have ended are about to be removed.
RemovedHaveEnded == \A c \in cleanup : call[c] = "done"

\* One at a time uses the shared client.
Exclusive ==
    /\ \A c \in Calls : call[c] \in {"locked", "stored"} => holder = c
    /\ loader.pc = "read" => holder = Loader

OnlyConfiguresStore == \A c \in Calls : call[c] \in {"stored", "torn"} => c \in Configures

\* What the startup task has read is still there, and no cache is ahead.
CacheIsBehind ==
    /\ loader.pc = "read" => loader.seen = datastore
    /\ cached # None => cached = datastore

ContextInv ==
    /\ TypeOK
    /\ Listed
    /\ RemovedHaveEnded
    /\ Exclusive
    /\ OnlyConfiguresStore
    /\ CacheIsBehind
    /\ CacheFollowsDatastore

-----------------------------------------------------------------------------
(* The sequence of pending calls                                           *)

LEMMA RangeOfAppend ==
    ASSUME NEW q \in Seq(Calls), NEW c \in Calls
    PROVE  /\ Append(q, c) \in Seq(Calls)
           /\ Range(Append(q, c)) = Range(q) \cup {c}
<1> DEFINE p == Append(q, c)
<1>1. /\ p \in Seq(Calls)
      /\ Len(p) = Len(q) + 1
      /\ Len(q) \in Nat
      /\ \A i \in 1..Len(q) : p[i] = q[i]
      /\ p[Len(q) + 1] = c
  OBVIOUS
<1> HIDE DEF p
<1>2. 1..Len(p) = (1..Len(q)) \cup {Len(q) + 1}
  BY <1>1
<1>3. ASSUME NEW x
      PROVE  x \in {p[i] : i \in 1..Len(p)} <=> x \in {q[i] : i \in 1..Len(q)} \/ x = c
  BY <1>1, <1>2
<1>4. DOMAIN q = 1..Len(q) /\ DOMAIN p = 1..Len(p)
  BY <1>1
<1>5. Range(p) = Range(q) \cup {c}
  BY <1>3, <1>4 DEF Range
<1> QED
  BY <1>1, <1>5 DEF p

LEMMA ForgottenKeepsOthers ==
    ASSUME TypeOK, NEW c \in Calls
    PROVE  /\ Forgotten(c) \in Seq(Calls)
           /\ \A d \in Range(context) : d # c => d \in Range(Forgotten(c))
<1>1. CASE c \notin Range(context)
  BY <1>1 DEF Forgotten, TypeOK
<1>2. CASE c \in Range(context)
  <2> DEFINE n == Len(context)
             k == CHOOSE i \in DOMAIN context : context[i] = c
             rest == [j \in 1..(n - 1) |-> IF j < k THEN context[j] ELSE context[j + 1]]
  <2>1. context \in Seq(Calls) /\ n \in Nat /\ DOMAIN context = 1..n
    BY DEF TypeOK
  <2>2. k \in 1..n /\ context[k] = c
    BY <1>2, <2>1 DEF Range
  <2>3. Forgotten(c) = rest
    BY <1>2 DEF Forgotten
  <2> HIDE DEF n, k
  <2>4. rest \in Seq(Calls) /\ DOMAIN rest = 1..(n - 1)
    <3>1. \A j \in 1..(n - 1) : j \in 1..n /\ j + 1 \in 1..n
      BY <2>1
    <3>2. \A j \in 1..(n - 1) : rest[j] \in Calls
      BY <2>1, <3>1 DEF n
    <3>3. n - 1 \in Nat
      BY <2>1, <2>2
    <3> QED
      BY <3>2, <3>3
  <2>5. ASSUME NEW d \in Range(context), d # c
        PROVE  d \in Range(rest)
    <3>1. PICK i \in 1..n : context[i] = d
      BY <2>1 DEF Range
    <3>2. CASE i < k
      <4>1. i \in 1..(n - 1) /\ rest[i] = d
        BY <2>1, <2>2, <3>1, <3>2
      <4> QED
        BY <2>4, <4>1 DEF Range
    <3>3. CASE i > k
      <4>1. i - 1 \in 1..(n - 1) /\ ~(i - 1 < k) /\ (i - 1) + 1 = i
        BY <2>1, <2>2, <3>1, <3>3
      <4>2. rest[i - 1] = d
        BY <3>1, <4>1
      <4> QED
        BY <2>4, <4>1, <4>2 DEF Range
    <3> QED
      BY <2>2, <2>5, <3>1, <3>2, <3>3
  <2> QED
    BY <2>3, <2>4, <2>5
<1> QED
  BY <1>1, <1>2

-----------------------------------------------------------------------------
(* The invariant is inductive                                              *)

LEMMA ContextStarts == Init => ContextInv
<1> SUFFICES ASSUME Init PROVE ContextInv
  OBVIOUS
<1> USE ContextAssumption DEF Init, Waiting
<1>1. <<>> \in Seq(Calls)
  OBVIOUS
<1>2. TypeOK
  BY <1>1 DEF TypeOK, CallStates, HsmStates
<1> QED
  BY <1>2 DEF ContextInv, Listed, RemovedHaveEnded, Exclusive, OnlyConfiguresStore,
              CacheIsBehind, CacheFollowsDatastore, Pending

\* A call enters the context before its handler runs.
LEMMA StartKeeps ==
    ASSUME ContextInv, NEW c \in Calls, CallStarts(c)
    PROVE  ContextInv'
<1> USE DEF ContextInv, CallStarts, configVars, hsmVars
<1>1. /\ context' \in Seq(Calls)
      /\ Range(context') = Range(context) \cup {c}
  BY RangeOfAppend DEF TypeOK
<1>2. TypeOK'
  BY <1>1 DEF TypeOK, CallStates
<1>3. Listed'
  BY <1>1 DEF Listed, Pending, TypeOK
<1> QED
  BY <1>2, <1>3 DEF RemovedHaveEnded, Exclusive, OnlyConfiguresStore,
                    CacheIsBehind, CacheFollowsDatastore, TypeOK

\* Only what has ended is removed, and nothing else with it.
LEMMA CleanUpKeeps ==
    ASSUME ContextInv, NEW c \in Calls, CleanUp(c)
    PROVE  ContextInv'
<1> USE DEF ContextInv, CleanUp, configVars, hsmVars
<1>1. TypeOK'
  BY ForgottenKeepsOthers DEF TypeOK
<1>2. Listed'
  BY ForgottenKeepsOthers DEF Listed, Pending, RemovedHaveEnded
<1> QED
  BY <1>1, <1>2 DEF RemovedHaveEnded, Exclusive, OnlyConfiguresStore,
                    CacheIsBehind, CacheFollowsDatastore

\* Calls take and return the shared client, end, and are cancelled.
LEMMA CallKeeps ==
    ASSUME ContextInv, NEW c \in Calls,
           CallLocksRpc(c) \/ CallReturns(c) \/ ConfigureFails(c) \/ Cancel(c)
    PROVE  ContextInv'
<1> USE ContextAssumption DEF ContextInv, configVars, hsmVars, TypeOK, CallStates
<1>1. CASE CallLocksRpc(c)
  BY <1>1 DEF CallLocksRpc, Listed, Pending, RemovedHaveEnded, Exclusive,
              OnlyConfiguresStore, CacheIsBehind, CacheFollowsDatastore
<1>2. CASE CallReturns(c) \/ ConfigureFails(c)
  <2>1. TypeOK'
    BY <1>2 DEF CallReturns, ConfigureFails, Ends
  <2>2. Listed' /\ RemovedHaveEnded'
    BY <1>2 DEF CallReturns, ConfigureFails, Ends, Listed, Pending, RemovedHaveEnded
  <2>3. Exclusive' /\ OnlyConfiguresStore' /\ CacheIsBehind'
    BY <1>2 DEF CallReturns, ConfigureFails, Ends, Exclusive, OnlyConfiguresStore, CacheIsBehind
  <2>4. CacheFollowsDatastore'
    BY <1>2 DEF CallReturns, ConfigureFails, Ends, CacheFollowsDatastore
  <2> QED
    BY <2>1, <2>2, <2>3, <2>4
<1>3. CASE Cancel(c)
  <2>1. TypeOK'
    BY <1>3 DEF Cancel, Pending
  <2>2. Listed' /\ RemovedHaveEnded'
    BY <1>3 DEF Cancel, Listed, Pending, RemovedHaveEnded
  <2>3. Exclusive' /\ OnlyConfiguresStore' /\ CacheIsBehind'
    BY <1>3 DEF Cancel, Pending, Exclusive, OnlyConfiguresStore, CacheIsBehind
  <2>4. CacheFollowsDatastore'
    BY <1>3 DEF Cancel, Pending, CacheFollowsDatastore
  <2> QED
    BY <2>1, <2>2, <2>3, <2>4
<1> QED
  BY <1>1, <1>2, <1>3

\* The writers of datastore and cache, which the shared client's lock orders.
LEMMA ConfigurationKeeps ==
    ASSUME ContextInv, NEW c \in Calls,
           ConfigureStores(c) \/ ConfigureCaches(c)
    PROVE  ContextInv'
<1> USE ContextAssumption DEF ContextInv, configVars, hsmVars, TypeOK, CallStates
<1>1. CASE ConfigureStores(c)
  <2> USE <1>1 DEF ConfigureStores, DatastoreAccepts
  <2>1. Head(context) \in Calls
    <3>1. c \in Range(context)
      BY DEF Listed, Pending
    <3>2. context # <<>>
      BY <3>1 DEF Range
    <3> QED
      BY <3>2
  <2>2. TypeOK'
    BY <2>1
  <2>3. Listed' /\ RemovedHaveEnded'
    BY DEF Listed, Pending, RemovedHaveEnded
  <2>4. Exclusive' /\ OnlyConfiguresStore'
    BY DEF Exclusive, OnlyConfiguresStore
  <2>5. CacheIsBehind' /\ CacheFollowsDatastore'
    BY DEF Exclusive, CacheIsBehind, CacheFollowsDatastore
  <2> QED
    BY <2>2, <2>3, <2>4, <2>5
<1>2. CASE ConfigureCaches(c)
  <2> USE <1>2 DEF ConfigureCaches, Ends
  <2>1. TypeOK'
    OBVIOUS
  <2>2. Listed' /\ RemovedHaveEnded'
    BY DEF Listed, Pending, RemovedHaveEnded
  <2>3. Exclusive' /\ OnlyConfiguresStore'
    BY DEF Exclusive, OnlyConfiguresStore
  <2>4. CacheIsBehind' /\ CacheFollowsDatastore'
    BY DEF CacheIsBehind, CacheFollowsDatastore
  <2> QED
    BY <2>1, <2>2, <2>3, <2>4
<1> QED
  BY <1>1, <1>2

\* The startup task, which holds the client from its read to its write.
LEMMA LoadKeeps ==
    ASSUME ContextInv, Load
    PROVE  ContextInv'
<1> USE ContextAssumption DEF ContextInv, configVars, hsmVars, TypeOK, CallStates
<1>1. CASE LoaderReads
  BY <1>1 DEF LoaderReads, Listed, Pending, RemovedHaveEnded, Exclusive,
              OnlyConfiguresStore, CacheIsBehind, CacheFollowsDatastore
<1>2. CASE LoaderCaches
  BY <1>2 DEF LoaderCaches, Listed, Pending, RemovedHaveEnded, Exclusive,
              OnlyConfiguresStore, CacheIsBehind, CacheFollowsDatastore
<1> QED
  BY <1>1, <1>2 DEF Load

\* hsmd requests look at the context and the cache and change neither.
LEMMA HsmKeeps ==
    ASSUME ContextInv, NEW h \in Hsmd, Ask(h) \/ Send(h) \/ SignerDecides(h)
    PROVE  ContextInv'
<1> USE DEF ContextInv, Ask, Send, SignerDecides, configVars
<1>1. Shown \in SUBSET Calls
  BY DEF Shown, Range, TypeOK
<1>2. TypeOK'
  BY <1>1 DEF TypeOK, HsmStates
<1> QED
  BY <1>2 DEF Listed, Pending, RemovedHaveEnded, Exclusive, OnlyConfiguresStore,
              CacheIsBehind, CacheFollowsDatastore

\* A restart ends every call and forgets all but the datastore.
LEMMA RestartKeeps ==
    ASSUME ContextInv, NodeRestarts
    PROVE  ContextInv'
<1> USE ContextAssumption DEF ContextInv, NodeRestarts, Waiting
<1>1. <<>> \in Seq(Calls)
  OBVIOUS
<1>2. \A c \in Calls : call'[c] \in CallStates \ {"running", "locked", "stored", "torn"}
  BY DEF TypeOK, CallStates, Pending, Reread
<1>3. TypeOK'
  BY <1>1 DEF TypeOK, CallStates, HsmStates, Reread
<1> QED
  BY <1>2, <1>3 DEF Listed, Pending, RemovedHaveEnded, Exclusive, OnlyConfiguresStore,
                    CacheIsBehind, CacheFollowsDatastore

LEMMA ContextKept == ContextInv /\ [Next]_vars => ContextInv'
<1> SUFFICES ASSUME ContextInv, [Next]_vars PROVE ContextInv'
  OBVIOUS
<1>1. CASE \E c \in Calls : CallStarts(c) \/ CallStep(c) \/ Cancel(c)
  BY <1>1, StartKeeps, CleanUpKeeps, CallKeeps, ConfigurationKeeps DEF CallStep
<1>2. CASE Load
  BY <1>2, LoadKeeps
<1>3. CASE \E h \in Hsmd : Ask(h) \/ Send(h) \/ SignerDecides(h)
  BY <1>3, HsmKeeps
<1>4. CASE NodeRestarts
  BY <1>4, RestartKeeps
<1>5. CASE UNCHANGED vars
  BY <1>5 DEF vars, configVars, hsmVars, ContextInv, TypeOK, Listed, Pending, RemovedHaveEnded,
              Exclusive, OnlyConfiguresStore, CacheIsBehind, CacheFollowsDatastore
<1> QED
  BY <1>1, <1>2, <1>3, <1>4, <1>5 DEF Next

LEMMA ContextInvariant == Spec => []ContextInv
  BY ContextStarts, ContextKept, PTL DEF Spec

-----------------------------------------------------------------------------
(* Theorems                                                                *)

\* The variables of the request context keep their types.
THEOREM ContextTypeCorrect == Spec => []TypeOK
<1>1. ContextInv => TypeOK
  BY DEF ContextInv
<1> QED
  BY <1>1, ContextInvariant, PTL

(***************************************************************************)
(* Datastore and cache of the configuration stay together, but for a       *)
(* configure that is between the two writes or was cancelled there         *)
(* (Node::configure and the loader of PluginNodeServer::new).              *)
(***************************************************************************)
THEOREM CacheKeepsUp == Spec => []CacheFollowsDatastore
<1>1. ContextInv => CacheFollowsDatastore
  BY DEF ContextInv
<1> QED
  BY <1>1, ContextInvariant, PTL

(***************************************************************************)
(* An hsmd request is sent with the call that raised it while that call is *)
(* pending (the snapshot in stream_hsm_requests).                          *)
(***************************************************************************)
THEOREM SignersSeeWhatIsPending == Spec => PendingIsShown
<1> DEFINE Sees == \A h \in Calls :
                       hsm[h] = "asked" /\ hsm'[h] = "sent" /\ Pending(h) => h \in carried'[h]
<1>1. ASSUME ContextInv, [Next]_vars PROVE [Sees]_vars
  <2>1. ASSUME NEW h \in Calls, hsm[h] = "asked", hsm'[h] = "sent", Pending(h)
        PROVE  h \in carried'[h]
    <3>1. h \in Range(context)
      BY <1>1, <2>1 DEF ContextInv, Listed
    <3>2. CASE \E g \in Hsmd : Send(g)
      <4>1. PICK g \in Hsmd : Send(g)
        BY <3>2
      <4>2. g = h /\ h \in Hsmd
        BY <1>1, <2>1, <4>1 DEF Send, ContextInv, TypeOK, Hsmd
      <4> QED
        BY <1>1, <3>1, <4>1, <4>2 DEF Send, Shown, ContextInv, TypeOK
    <3>3. CASE ~\E g \in Hsmd : Send(g)
      <4>1. hsm'[h] # "sent"
        BY <1>1, <2>1, <3>3 DEF Next, CallStarts, CallStep, CallLocksRpc, CallReturns, CleanUp,
           ConfigureFails, ConfigureStores, ConfigureCaches, Cancel, Load, LoaderReads,
           LoaderCaches, Ask, SignerDecides, NodeRestarts, hsmVars, vars, ContextInv, TypeOK, Hsmd
      <4> QED
        BY <2>1, <4>1
    <3> QED
      BY <3>2, <3>3
  <2> QED
    BY <2>1
<1> QED
  BY <1>1, ContextInvariant, PTL DEF Spec, PendingIsShown

=============================================================================
