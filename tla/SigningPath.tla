---------------------------- MODULE SigningPath ----------------------------
(***************************************************************************)
(* From an hsmd request of lightningd to its answer: the hsmproxy and the  *)
(* Hsm service stage it (gl-signerproxy/src/hsmproxy.rs,                   *)
(* gl-plugin/src/hsm.rs), one task per attached signer streams it out with *)
(* a snapshot of the signer state, the signer processes it and returns its *)
(* own state (gl-client/src/signer/mod.rs), and respond_hsm_request        *)
(* merges, stores and only then answers (gl-plugin/src/node/mod.rs).       *)
(*                                                                         *)
(* Plugin, hsmproxy and lightningd are started and die together, so a      *)
(* crash takes all three; what survives is the state store, and what       *)
(* lightningd has been answered.  A restarted node listens on another      *)
(* grpc_uri, so a signer's RPCs to the old one fail.                       *)
(***************************************************************************)
EXTENDS Stage, SignerState

CONSTANTS
    Signers,        \* signer processes holding the node's secret
    Attentive,      \* those that never stop reading their stream
    Heartbeat,      \* the GetHeartbeat injected as request_id 0
    None,           \* no stream, no signer
    Canned,         \* calls with a canned answer (startupmsgs, init, memleak)
    Rejectable,     \* calls a signer may refuse or fail to handle
    Touches,        \* the keys the handler of a request updates
    ChanCap,        \* capacity of the mpsc channel of a stream
    WriteIsDurable, \* does StateStore::write survive a crash once it returns
    WritesMayFail,  \* can StateStore::write return an error
    MaxFaults       \* bound: crashes, disconnects, restarts, failed writes

ASSUME PathAssumption ==
    /\ Heartbeat \notin Calls
    /\ Req = Calls \cup {Heartbeat}
    /\ Attentive \subseteq Signers
    /\ None \notin Signers /\ None \notin Streams
    /\ Canned \subseteq Calls /\ Rejectable \subseteq Calls
    /\ Touches \in [Req -> SUBSET Keys]
    /\ \A c \in Canned : Touches[c] = {}
    /\ ChanCap \in Nat \ {0}
    /\ WriteIsDurable \in BOOLEAN /\ WritesMayFail \in BOOLEAN
    /\ MaxFaults \in Nat

VARIABLES
    memory,    \* PluginNodeServer.signer_state
    store,     \* what StateStore::read will find after a crash
    commit,    \* the respond_hsm_request that holds the locks
    task,      \* per stream, the spawned task of stream_hsm_requests
    chan,      \* per stream, its mpsc channel and the wire to the signer
    open,      \* streams whose client end exists
    local,     \* per signer, Signer.state
    attached,  \* per signer, the stream run_once reads
    outbox,    \* per signer, the respond_hsm_request call it is waiting for
    faults     \* faults so far

pathVars == <<memory, store, commit, task, chan, open,
              local, attached, outbox, faults>>
vars == <<stageVars, pathVars>>

pluginVars == <<memory, store, commit>>
streamVars == <<task, chan, open>>
signerVars == <<local, attached, outbox>>

-----------------------------------------------------------------------------

Message == [req : Req, state : State]

Task == [pc : {"off", "heartbeat", "next", "snapshot", "config", "send"},
         req : Req, snap : State]

NoResponse == [kind |-> "none", req |-> Heartbeat, state |-> EmptyState]

NoCommit == [phase |-> "idle", req |-> Heartbeat, caller |-> None]

NoTask == [pc |-> "off", req |-> Heartbeat, snap |-> EmptyState]

\* A task at the head of its loop.
Ready == [pc |-> "next", req |-> Heartbeat, snap |-> EmptyState]

TypeOK ==
    /\ StageTypeOK
    /\ memory \in State /\ store \in State
    /\ commit \in [phase : {"idle", "write", "reply"}, req : Req,
                   caller : Signers \cup {None}]
    /\ task \in [Streams -> Task]
    /\ chan \in [Streams -> Seq(Message)]
    /\ open \in SUBSET Streams
    /\ local \in [Signers -> State]
    /\ attached \in [Signers -> Streams \cup {None}]
    /\ outbox \in [Signers -> [kind : {"none", "ok", "error"}, req : Req, state : State]]
    /\ faults \in 0..MaxFaults

Init ==
    /\ StageInit
    /\ memory = EmptyState /\ store = EmptyState
    /\ commit = NoCommit
    /\ task = [t \in Streams |-> NoTask]
    /\ chan = [t \in Streams |-> <<>>]
    /\ open = {}
    /\ local = [s \in Signers |-> FreshState]
    /\ attached = [s \in Signers |-> None]
    /\ outbox = [s \in Signers |-> NoResponse]
    /\ faults = 0

-----------------------------------------------------------------------------
(* lightningd, hsmproxy and the Hsm service                                *)

(***************************************************************************)
(* An hsmd request of a daemon reaches StagingHsmServer::request, which    *)
(* stages it; the daemon blocks until the answer.                          *)
(***************************************************************************)
HsmRequest(c) ==
    /\ c \notin Canned
    /\ Send(c)
    /\ UNCHANGED pathVars

\* A canned answer, or one hsmproxy gives itself, never sees the stage.
HsmRequestCanned(c) ==
    /\ c \in Canned
    /\ reply[c] = "idle"
    /\ reply' = [reply EXCEPT ![c] = "answered"]
    /\ UNCHANGED <<requests, live, backlog, queue, given, pathVars>>

-----------------------------------------------------------------------------
(* The task of PluginNodeServer::stream_hsm_requests                       *)

\* Both locks of respond_hsm_request are free.
Unlocked == commit.phase = "idle"

(***************************************************************************)
(* Signer::run_once calls stream_hsm_requests, which subscribes to the     *)
(* stage and spawns the task.                                              *)
(***************************************************************************)
Attach(s, t) ==
    /\ attached[s] = None
    /\ t \notin open
    /\ MyStream(t)
    /\ open' = open \cup {t}
    /\ attached' = [attached EXCEPT ![s] = t]
    /\ task' = [task EXCEPT ![t].pc = "heartbeat"]
    /\ UNCHANGED <<pluginVars, chan, local, outbox, faults>>

\* Mutant of Enqueue: leaves the snapshot out of the message.
EnqueueBare(t, m) ==
    chan' = IF t \in open THEN [chan EXCEPT ![t] = Append(@, m.req)] ELSE chan

\* Put a message into the stream's channel; without a client it vanishes.
Enqueue(t, m) ==
    chan' = IF t \in open THEN [chan EXCEPT ![t] = Append(@, m)] ELSE chan

(***************************************************************************)
(* The heartbeat comes first and carries the state.  A failure to send it  *)
(* is only logged.                                                         *)
(***************************************************************************)
TaskHeartbeat(t) ==
    /\ task[t].pc = "heartbeat"
    /\ Unlocked
    /\ Enqueue(t, [req |-> Heartbeat, state |-> memory])
    /\ task' = [task EXCEPT ![t].pc = "next"]
    /\ UNCHANGED <<stageVars, pluginVars, open, signerVars, faults>>

TaskNext(t, c) ==
    /\ task[t].pc = "next"
    /\ StreamNext(t, c)
    /\ task' = [task EXCEPT ![t].pc = "snapshot", ![t].req = c]
    /\ UNCHANGED <<pluginVars, chan, open, signerVars, faults>>

\* signer_state.lock().await.clone()
TaskSnapshot(t) ==
    /\ task[t].pc = "snapshot"
    /\ Unlocked
    /\ task' = [task EXCEPT ![t].pc = "config", ![t].snap = memory]
    /\ UNCHANGED <<stageVars, pluginVars, chan, open, signerVars, faults>>

(***************************************************************************)
(* SERIALIZED_CONFIGURE_REQUEST.lock().await: the guard lives to the end   *)
(* of the loop's body, so that the task holds the one lock of all streams  *)
(* while it waits for room in its own channel.                             *)
(***************************************************************************)
TaskLocksConfig(t) ==
    /\ task[t].pc = "config"
    /\ \A u \in Streams : task[u].pc # "send"
    /\ task' = [task EXCEPT ![t].pc = "send"]
    /\ UNCHANGED <<stageVars, pluginVars, chan, open, signerVars, faults>>

TaskSend(t) ==
    /\ task[t].pc = "send"
    /\ t \in open
    /\ Len(chan[t]) < ChanCap
    /\ Enqueue(t, [req |-> task[t].req, state |-> task[t].snap])
    /\ task' = [task EXCEPT ![t] = Ready]
    /\ UNCHANGED <<stageVars, pluginVars, open, signerVars, faults>>

\* The task notices that its client has gone only when it sends.
TaskSendFails(t) ==
    /\ task[t].pc = "send"
    /\ t \notin open
    /\ DropStream(t)
    /\ task' = [task EXCEPT ![t] = NoTask]
    /\ UNCHANGED <<pluginVars, chan, open, signerVars, faults>>

TaskLagged(t) ==
    /\ task[t].pc = "next"
    /\ StreamLagged(t)
    /\ task' = [task EXCEPT ![t] = NoTask]
    /\ UNCHANGED <<pluginVars, chan, open, signerVars, faults>>

-----------------------------------------------------------------------------
(* The signer                                                              *)

\* A signer whose run_once waits for the next message of its stream.
Receives(s, t) ==
    /\ attached[s] = t
    /\ t # None
    /\ outbox[s].kind = "none"
    /\ chan[t] # <<>>

\* Mutant of Learned: the signer does not merge what the node sent.
LearnedNothing(s, t) == local[s]

\* Signer::process_request up to the handler: take over what the node knows.
Learned(s, t) == Merge(local[s], Head(chan[t]).state)

(***************************************************************************)
(* The handler: every document it writes goes to the MemoryPersister at    *)
(* once, a known one with its version raised.                              *)
(***************************************************************************)
Persisted(s, t, K) == Touch(Learned(s, t), K, Head(chan[t]).req)

(***************************************************************************)
(* Signer::process_request succeeds: the response carries the signer's     *)
(* whole state, the effects of this request included.                      *)
(***************************************************************************)
SignerAccepts(s, t) ==
    /\ Receives(s, t)
    /\ LET r == Head(chan[t]).req
           after == Persisted(s, t, Touches[r])
       IN  /\ local' = [local EXCEPT ![s] = after]
           /\ outbox' = [outbox EXCEPT ![s] = [kind |-> "ok", req |-> r, state |-> after]]
    /\ chan' = [chan EXCEPT ![t] = Tail(@)]
    /\ UNCHANGED <<stageVars, pluginVars, task, open, attached, faults>>

(***************************************************************************)
(* It fails: refused by the resolver or the policy, or the handler gave up *)
(* after it had persisted some of its changes.  The response has no state. *)
(***************************************************************************)
SignerRejects(s, t) ==
    /\ Receives(s, t)
    /\ LET r == Head(chan[t]).req
       IN  /\ r \in Rejectable
           /\ \E K \in SUBSET Touches[r] :
                 local' = [local EXCEPT ![s] = Persisted(s, t, K)]
           /\ outbox' = [outbox EXCEPT ![s] =
                             [kind |-> "error", req |-> r, state |-> EmptyState]]
    /\ chan' = [chan EXCEPT ![t] = Tail(@)]
    /\ UNCHANGED <<stageVars, pluginVars, task, open, attached, faults>>

\* The stream ended on the plugin's side: run_once returns.
SignerStreamEnds(s, t) ==
    /\ attached[s] = t
    /\ t # None
    /\ t \notin live
    /\ outbox[s].kind = "none"
    /\ chan[t] = <<>>
    /\ attached' = [attached EXCEPT ![s] = None]
    /\ open' = open \ {t}
    /\ UNCHANGED <<stageVars, pluginVars, task, chan, local, outbox, faults>>

-----------------------------------------------------------------------------
(* PluginNodeServer::respond_hsm_request                                   *)

\* The call returns: its caller, if it is still there, reads on.
Return(s) ==
    outbox' = IF s \in Signers THEN [outbox EXCEPT ![s] = NoResponse] ELSE outbox

\* An error is logged and nothing else: the request stays staged.
RespondError(s) ==
    /\ outbox[s].kind = "error"
    /\ Return(s)
    /\ UNCHANGED <<stageVars, pluginVars, streamVars, local, attached, faults>>

\* Mutant of RespondMerge: answers at once and leaves the store for later.
RespondMergeAnswersFirst(s) ==
    /\ outbox[s].kind = "ok"
    /\ Unlocked
    /\ memory' = Merge(memory, outbox[s].state)
    /\ commit' = [phase |-> "write", req |-> outbox[s].req, caller |-> s]
    /\ Respond(outbox[s].req)
    /\ UNCHANGED <<store, streamVars, signerVars, faults>>

\* Both locks are taken and the returned state is merged.
RespondMerge(s) ==
    /\ outbox[s].kind = "ok"
    /\ Unlocked
    /\ memory' = Merge(memory, outbox[s].state)
    /\ commit' = [phase |-> "write", req |-> outbox[s].req, caller |-> s]
    /\ UNCHANGED <<stageVars, store, streamVars, signerVars, faults>>

(***************************************************************************)
(* StateStore::write returned Ok.  A store that buffers its writes (sled's *)
(* insert without a flush) may still lose this one in a crash.             *)
(***************************************************************************)
RespondWrite ==
    /\ commit.phase = "write"
    /\ store' \in {memory} \cup (IF WriteIsDurable THEN {} ELSE {store})
    /\ commit' = [commit EXCEPT !.phase = "reply"]
    /\ UNCHANGED <<stageVars, memory, streamVars, signerVars, faults>>

\* Mutant of RespondWriteFails: answers although the write failed.
RespondWriteFailsAnswers ==
    /\ WritesMayFail
    /\ commit.phase = "write"
    /\ faults < MaxFaults
    /\ faults' = faults + 1
    /\ Respond(commit.req)
    /\ Return(commit.caller)
    /\ commit' = NoCommit
    /\ UNCHANGED <<memory, store, streamVars, local, attached>>

(***************************************************************************)
(* The write failed: leave without an answer, but with the merged state    *)
(* still in memory.  The request stays staged.                             *)
(***************************************************************************)
RespondWriteFails ==
    /\ WritesMayFail
    /\ commit.phase = "write"
    /\ faults < MaxFaults
    /\ faults' = faults + 1
    /\ Return(commit.caller)
    /\ commit' = NoCommit
    /\ UNCHANGED <<stageVars, memory, store, streamVars, local, attached>>

RespondReply ==
    /\ commit.phase = "reply"
    /\ Respond(commit.req)
    /\ Return(commit.caller)
    /\ commit' = NoCommit
    /\ UNCHANGED <<memory, store, streamVars, local, attached, faults>>

\* The server drops a handler whose client has gone, at one of its awaits.
RespondDropped ==
    /\ ~Unlocked
    /\ commit.caller = None
    /\ commit' = NoCommit
    /\ UNCHANGED <<stageVars, memory, store, streamVars, signerVars, faults>>

-----------------------------------------------------------------------------
(* Faults                                                                  *)

\* Signer s lets go of its stream and of the call it is waiting for.
Detach(s) ==
    /\ open' = open \ {attached[s]}
    /\ chan' = [t \in Streams |-> IF t = attached[s] THEN <<>> ELSE chan[t]]
    /\ attached' = [attached EXCEPT ![s] = None]
    /\ outbox' = [outbox EXCEPT ![s] = NoResponse]
    /\ commit' = IF commit.caller = s THEN [commit EXCEPT !.caller = None] ELSE commit

\* The connection breaks; the signer keeps its memory and will reconnect.
SignerDisconnects(s) ==
    /\ faults < MaxFaults
    /\ faults' = faults + 1
    /\ attached[s] # None
    /\ Detach(s)
    /\ UNCHANGED <<stageVars, memory, store, task, local>>

\* The signer is started anew: its MemoryPersister is empty again.
SignerRestarts(s) ==
    /\ faults < MaxFaults
    /\ faults' = faults + 1
    /\ Detach(s)
    /\ local' = [local EXCEPT ![s] = FreshState]
    /\ UNCHANGED <<stageVars, memory, store, task>>

\* Mutant of NodeRestarts: starts with an empty state and not the stored one.
NodeRestartsEmpty ==
    /\ faults < MaxFaults
    /\ faults' = faults + 1
    /\ requests' = {}
    /\ reply' = [c \in Calls |-> IF reply[c] = "waiting" THEN "gone" ELSE reply[c]]
    /\ live' = {}
    /\ backlog' = [t \in Streams |-> {}]
    /\ queue' = [t \in Streams |-> <<>>]
    /\ given' = [t \in Streams |-> {}]
    /\ memory' = EmptyState
    /\ commit' = NoCommit
    /\ task' = [t \in Streams |-> NoTask]
    /\ chan' = [t \in Streams |-> <<>>]
    /\ open' = {}
    /\ attached' = [s \in Signers |-> None]
    /\ outbox' = [s \in Signers |-> NoResponse]
    /\ UNCHANGED <<store, local>>

\* The node goes down and comes back with what the store holds.
NodeRestarts ==
    /\ faults < MaxFaults
    /\ faults' = faults + 1
    /\ requests' = {}
    /\ reply' = [c \in Calls |-> IF reply[c] = "waiting" THEN "gone" ELSE reply[c]]
    /\ live' = {}
    /\ backlog' = [t \in Streams |-> {}]
    /\ queue' = [t \in Streams |-> <<>>]
    /\ given' = [t \in Streams |-> {}]
    /\ memory' = store
    /\ commit' = NoCommit
    /\ task' = [t \in Streams |-> NoTask]
    /\ chan' = [t \in Streams |-> <<>>]
    /\ open' = {}
    /\ attached' = [s \in Signers |-> None]
    /\ outbox' = [s \in Signers |-> NoResponse]
    /\ UNCHANGED <<store, local>>

-----------------------------------------------------------------------------

StreamTask(t) ==
    \/ TaskHeartbeat(t) \/ TaskSnapshot(t) \/ TaskLocksConfig(t)
    \/ TaskSend(t) \/ TaskSendFails(t) \/ TaskLagged(t)
    \/ \E c \in Calls : TaskNext(t, c)

RespondHandler ==
    RespondWrite \/ RespondReply \/ RespondDropped

Next ==
    \/ \E c \in Calls : HsmRequest(c) \/ HsmRequestCanned(c)
    \/ \E t \in Streams : StreamTask(t)
    \/ \E s \in Signers, t \in Streams :
          Attach(s, t) \/ SignerAccepts(s, t) \/ SignerRejects(s, t) \/ SignerStreamEnds(s, t)
    \/ \E s \in Signers :
          RespondError(s) \/ RespondMerge(s) \/ SignerDisconnects(s) \/ SignerRestarts(s)
    \/ RespondHandler \/ RespondWriteFails \/ NodeRestarts

Spec == Init /\ [][Next]_vars

-----------------------------------------------------------------------------
(* Properties                                                              *)

\* The answers lightningd has acted upon and that came from a signer.
Answered == {c \in Calls \ Canned : reply[c] = "answered"}

(***************************************************************************)
(* "so we don't end up committing the changes to CLN, but not to the state *)
(* store": what lightningd was answered is reflected in what a restart     *)
(* will read, whatever crashed, failed or was repeated in between.         *)
(***************************************************************************)
AnsweredIsStored == \A c \in Answered : Reflects(store, Touches[c], c)

(***************************************************************************)
(* A signer never signs on a past that lightningd has left behind: the     *)
(* state it returns reflects every call that was answered before.          *)
(***************************************************************************)
SignsOnLatestState ==
    [][\A s \in Signers :
          outbox[s].kind # "ok" /\ outbox'[s].kind = "ok" =>
              \A c \in Answered : Reflects(outbox'[s].state, Touches[c], c)]_vars

(***************************************************************************)
(* What the store returns after a crash never loses an entry or an effect  *)
(* it has held, even if a restarted signer offers its fresh version 0.     *)
(***************************************************************************)
StoreNeverRegresses ==
    [][\A k \in Keys : Precedes(store[k], store'[k])]_vars

(***************************************************************************)
(* The node, the store, and every signer that has heard a heartbeat agree: *)
(* the same version of a key is the same document everywhere, so that the  *)
(* merge may skip equal versions without looking at the document.          *)
(***************************************************************************)
CopiesAgree ==
    /\ Comparable(store, memory)
    /\ \A s \in Signers : Comparable(local[s], memory)

-----------------------------------------------------------------------------
(* Refinement                                                              *)

\* The asked calls whose effects a restart would find in the store.
Recorded == {c \in Calls \ Canned : reply[c] # "idle" /\ Reflects(store, Touches[c], c)}

Promise == INSTANCE DurableSigning WITH
    Local <- Canned,
    Effectless <- {c \in Calls : Touches[c] = {}},
    call <- reply,
    recorded <- Recorded

(***************************************************************************)
(* Every step of the signing path is a step of the promise or invisible:   *)
(* answered at most once, never before it is recorded, never unrecorded.   *)
(***************************************************************************)
KeepsPromise == Promise!Spec

-----------------------------------------------------------------------------
(* Liveness                                                                *)

(***************************************************************************)
(* Tokio runs every task that can run, the run_forever of an attentive     *)
(* signer reconnects for ever, and each RPC handler that can proceed does. *)
(* Callers, faults and refusals are under no obligation.                   *)
(***************************************************************************)
Fairness ==
    /\ \A t \in Streams : WF_vars(StreamTask(t))
    /\ \A s \in Attentive :
          /\ WF_vars(\E t \in Streams : Attach(s, t))
          /\ WF_vars(\E t \in Streams : SignerAccepts(s, t) \/ SignerStreamEnds(s, t))
          /\ WF_vars(RespondMerge(s) \/ RespondError(s))
    /\ WF_vars(RespondHandler)

FairSpec == Spec /\ Fairness

(***************************************************************************)
(* While an attentive signer neither refuses nor the store fails, every    *)
(* hsmd call is answered unless the node goes down first: a disconnect, a  *)
(* lagging stream or a restart of the signer only delays it.  So it is     *)
(* with one signer; a second one that stalls keeps all of them waiting.    *)
(***************************************************************************)
EveryCallReturns == \A c \in Calls : reply[c] = "waiting" ~> reply[c] # "waiting"

=============================================================================
