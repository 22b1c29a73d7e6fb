---------------------------- MODULE PeersProofs ----------------------------
(***************************************************************************)
(* Proofs about signers and peers, for any number of devices, streams,     *)
(* peers and users and any number of lost streams and restarts: the signer *)
(* count covers every signer that is attached, and peers with a connection *)
(* or a channel are listed but for what users and failing hooks account    *)
(* for.                                                                    *)
(*                                                                         *)
(* SIGNER_COUNT is exact for the node's stream tasks, of which each signer *)
(* that reads has one of its own; that is the invariant behind it.         *)
(***************************************************************************)
EXTENDS Peers, FiniteSetTheorems, TLAPS

\* The types, by who owns the variables.
SignersFit ==
    /\ loop \in [Signers -> {"upgrade", "info", "connect", "attached", "off"}]
    /\ uri \in [Signers -> 0..MaxFaults]
    /\ asked \subseteq Signers
    /\ stream \in [Signers -> Streams \cup {None}]

NodeFits ==
    /\ task \in [Streams -> {"none", "running", "left"}]
    /\ rec \in [Streams -> [pc : {"idle", "check", "peers", "datastore", "lock", "connect"},
                            todo : SUBSET Peers]]
    /\ rpc \in Streams \cup Users \cup {None}
    /\ socket \in {"none", "stale", "live"}
    /\ epoch \in 0..MaxFaults /\ faults \in 0..MaxFaults /\ epoch <= faults

PeersFit ==
    /\ connected \subseteq Peers /\ peerlist \subseteq Peers /\ channels \subseteq Peers
    /\ forgotten \subseteq Peers /\ missed \subseteq Peers
    /\ due \subseteq Peers /\ cutShort \in BOOLEAN

\* A call that is about a peer has one, and only a disconnect forgets.
CallsFit ==
    /\ call \in [Users -> [op : {"none"} \cup Forwarded \cup Sharing,
                           pc : {"idle", "await", "forget", "sent", "lock", "held"},
                           peer : Peers \cup {None}, polls : 0..Polls]]
    /\ \A u \in Users : call[u].op \in {"connect", "disconnect"} => call[u].peer \in Peers
    /\ \A u \in Users : call[u].pc = "forget" => call[u].op = "disconnect"

Tasks == {t \in Streams : task[t] # "none"}

\* SIGNER_COUNT, for those that are there and those that nobody reads any more.
CountIsExact == count = Cardinality(Tasks)

\* Who reads has a running task, and no other signer has it.
StreamsAreServed ==
    /\ \A s \in Signers : stream[s] # None => task[stream[s]] = "running"
    /\ \A s, z \in Signers : stream[s] # None /\ stream[s] = stream[z] => s = z

Counted == CountIsExact /\ StreamsAreServed

PeersInv == SignersFit /\ NodeFits /\ PeersFit /\ CallsFit /\ Counted /\ PeersAreListed

-----------------------------------------------------------------------------

LEMMA TasksAreFinite == IsFiniteSet(Tasks) /\ Cardinality(Tasks) \in Nat
  BY PeersConstants, FS_Subset, FS_CardinalityType DEF Tasks

LEMMA SignersUntouched == SignersFit /\ UNCHANGED signerVars => SignersFit'
  BY DEF SignersFit, signerVars

LEMMA NodeUntouched == NodeFits /\ UNCHANGED <<task, rec, rpc, socket, epoch, faults>> => NodeFits'
  BY DEF NodeFits

LEMMA PeersUntouched ==
    PeersFit /\ PeersAreListed /\ UNCHANGED peerVars => PeersFit' /\ PeersAreListed'
  BY DEF PeersFit, PeersAreListed, peerVars

\* Only the history of rounds changes.
LEMMA OnlyHistory ==
    ASSUME PeersInv, UNCHANGED <<connected, peerlist, channels, forgotten, missed, due>>,
           cutShort' \in BOOLEAN
    PROVE  PeersFit' /\ PeersAreListed'
  BY DEF PeersInv, PeersFit, PeersAreListed

LEMMA CallsUntouched == CallsFit /\ UNCHANGED call => CallsFit'
  BY DEF CallsFit

LEMMA CountUntouched == Counted /\ UNCHANGED <<task, count, stream>> => Counted'
  BY DEF Counted, CountIsExact, Tasks, StreamsAreServed

\* The parts of the state a step can leave alone together.
LEMMA OnlyLoops ==
    ASSUME PeersInv, UNCHANGED <<stream, nodeVars, peerVars, call, faults>>, SignersFit'
    PROVE  PeersInv'
  BY NodeUntouched, PeersUntouched, CallsUntouched, CountUntouched DEF PeersInv, nodeVars

LEMMA OnlyNode ==
    ASSUME PeersInv, UNCHANGED <<signerVars, task, count, call>>,
           NodeFits', PeersFit', PeersAreListed'
    PROVE  PeersInv'
  BY SignersUntouched, CallsUntouched, CountUntouched DEF PeersInv, signerVars

LEMMA OnlyCalls ==
    ASSUME PeersInv, UNCHANGED <<signerVars, task, count>>,
           NodeFits', PeersFit', PeersAreListed', CallsFit'
    PROVE  PeersInv'
  BY SignersUntouched, CountUntouched DEF PeersInv, signerVars

-----------------------------------------------------------------------------
(* The signer's loop                                                       *)

LEMMA LoopSteps ==
    ASSUME PeersInv, NEW s \in Signers,
           \/ UpgradeDone(s) \/ UpgradeRefused(s) \/ InfoAnswered(s) \/ ConnectFails(s)
           \/ Noticed(s) \/ StopAsked(s)
    PROVE  PeersInv'
<1>1. UNCHANGED <<stream, nodeVars, peerVars, call, faults>>
  BY DEF UpgradeDone, UpgradeRefused, InfoAnswered, ConnectFails, Noticed, StopAsked
<1>2. loop' \in [Signers -> {"upgrade", "info", "connect", "attached", "off"}]
  BY DEF UpgradeDone, UpgradeRefused, InfoAnswered, ConnectFails, Noticed, StopAsked, Moves,
         PeersInv, SignersFit
<1>3. uri' \in [Signers -> 0..MaxFaults] /\ asked' \subseteq Signers
  BY DEF UpgradeDone, UpgradeRefused, InfoAnswered, ConnectFails, Noticed, StopAsked,
         PeersInv, SignersFit, NodeFits
<1>4. SignersFit'
  BY <1>1, <1>2, <1>3 DEF PeersInv, SignersFit
<1> QED
  BY <1>1, <1>4, OnlyLoops

LEMMA AttachKeeps ==
    ASSUME PeersInv, NEW s \in Signers, Attach(s)
    PROVE  PeersInv'
<1> DEFINE t == CHOOSE t \in Free : TRUE
<1>1. t \in Streams /\ task[t] = "none"
  BY DEF Attach, Free
<1>2. /\ loop' = [loop EXCEPT ![s] = "attached"]
      /\ stream' = [stream EXCEPT ![s] = t]
      /\ task' = [task EXCEPT ![t] = "running"]
      /\ rec' = [rec EXCEPT ![t] = [pc |-> "check", todo |-> {}]]
      /\ count' = count + 1 /\ cutShort' = FALSE
      /\ UNCHANGED <<uri, asked, rpc, socket, epoch, call, faults>>
      /\ UNCHANGED <<connected, peerlist, channels, forgotten, missed, due>>
  BY DEF Attach, Moves
<1> HIDE DEF t
<1>3. SignersFit'
  BY <1>1, <1>2 DEF PeersInv, SignersFit
<1>4. NodeFits'
  <2>1. task' \in [Streams -> {"none", "running", "left"}]
    BY <1>1, <1>2 DEF PeersInv, NodeFits
  <2>2. rec' \in [Streams -> [pc : {"idle", "check", "peers", "datastore", "lock", "connect"},
                              todo : SUBSET Peers]]
    BY <1>1, <1>2 DEF PeersInv, NodeFits
  <2> QED
    BY <1>2, <2>1, <2>2 DEF PeersInv, NodeFits
<1>5. CountIsExact'
  <2>1. Tasks' = Tasks \cup {t} /\ t \notin Tasks
    BY <1>1, <1>2 DEF Tasks, PeersInv, NodeFits
  <2>2. Cardinality(Tasks \cup {t}) = Cardinality(Tasks) + 1
    BY <2>1, TasksAreFinite, FS_AddElement
  <2> QED
    BY <1>2, <2>1, <2>2 DEF PeersInv, Counted, CountIsExact
<1>6. StreamsAreServed'
  <2>1. \A z \in Signers : stream[z] # t
    BY <1>1, PeersConstants DEF PeersInv, Counted, StreamsAreServed
  <2> QED
    BY <1>1, <1>2, <2>1, PeersConstants
       DEF PeersInv, Counted, StreamsAreServed, SignersFit, NodeFits
<1>7. PeersFit' /\ PeersAreListed'
  BY <1>2, OnlyHistory
<1> QED
  BY <1>2, <1>3, <1>4, <1>5, <1>6, <1>7, CallsUntouched DEF PeersInv, Counted

\* A signer that leaves its stream: the task stays counted.
LEMMA LeavesStream ==
    ASSUME PeersInv, NEW s \in Signers, stream' = [stream EXCEPT ![s] = None],
           task' = IF stream[s] = None THEN task ELSE [task EXCEPT ![stream[s]] = "left"],
           UNCHANGED count
    PROVE  /\ Counted'
           /\ task' \in [Streams -> {"none", "running", "left"}]
           /\ stream' \in [Signers -> Streams \cup {None}]
<1>1. /\ task' \in [Streams -> {"none", "running", "left"}]
      /\ stream' \in [Signers -> Streams \cup {None}]
  BY DEF PeersInv, SignersFit, NodeFits
<1>2. Tasks' = Tasks
  BY DEF Tasks, PeersInv, SignersFit, NodeFits, Counted, StreamsAreServed
<1>3. StreamsAreServed'
  BY <1>1 DEF PeersInv, SignersFit, NodeFits, Counted, StreamsAreServed
<1> QED
  BY <1>1, <1>2, <1>3 DEF PeersInv, Counted, CountIsExact

LEMMA LoseKeeps ==
    ASSUME PeersInv, NEW s \in Signers, Lose(s)
    PROVE  PeersInv'
<1>1. /\ stream' = [stream EXCEPT ![s] = None]
      /\ task' = (IF stream[s] = None THEN task ELSE [task EXCEPT ![stream[s]] = "left"])
      /\ faults' = faults + 1 /\ faults < MaxFaults
      /\ UNCHANGED <<loop, uri, asked, count, rec, rpc, socket, epoch, peerVars, call>>
  BY DEF Lose
<1>2. /\ Counted'
      /\ task' \in [Streams -> {"none", "running", "left"}]
      /\ stream' \in [Signers -> Streams \cup {None}]
  BY <1>1, LeavesStream
<1>3. SignersFit'
  BY <1>1, <1>2 DEF PeersInv, SignersFit
<1>4. NodeFits'
  BY <1>1, <1>2, PeersConstants DEF PeersInv, NodeFits
<1> QED
  BY <1>1, <1>2, <1>3, <1>4, PeersUntouched, CallsUntouched DEF PeersInv

LEMMA StopsKeeps ==
    ASSUME PeersInv, NEW s \in Signers, Stops(s)
    PROVE  PeersInv'
<1>1. /\ loop' = [loop EXCEPT ![s] = "off"]
      /\ stream' = [stream EXCEPT ![s] = None]
      /\ task' = (IF stream[s] = None THEN task ELSE [task EXCEPT ![stream[s]] = "left"])
      /\ UNCHANGED <<uri, asked, count, rec, rpc, socket, epoch, peerVars, call, faults>>
  BY DEF Stops
<1>2. /\ Counted'
      /\ task' \in [Streams -> {"none", "running", "left"}]
      /\ stream' \in [Signers -> Streams \cup {None}]
  BY <1>1, LeavesStream
<1>3. SignersFit'
  BY <1>1, <1>2 DEF PeersInv, SignersFit
<1>4. NodeFits'
  BY <1>1, <1>2 DEF PeersInv, NodeFits
<1> QED
  BY <1>1, <1>2, <1>3, <1>4, PeersUntouched, CallsUntouched DEF PeersInv

-----------------------------------------------------------------------------
(* The node                                                                *)

LEMMA TaskEndsKeeps ==
    ASSUME PeersInv, NEW t \in Streams, TaskEnds(t)
    PROVE  PeersInv'
<1>1. /\ task[t] = "left" /\ task' = [task EXCEPT ![t] = "none"]
      /\ count' = count - 1
      /\ UNCHANGED <<signerVars, rec, rpc, socket, epoch, peerVars, call, faults>>
  BY DEF TaskEnds
<1>2. SignersFit' /\ UNCHANGED stream
  BY <1>1, SignersUntouched DEF PeersInv, signerVars
<1>3. NodeFits'
  BY <1>1 DEF PeersInv, NodeFits
<1>4. CountIsExact'
  <2>1. Tasks' = Tasks \ {t} /\ t \in Tasks
    BY <1>1 DEF Tasks, PeersInv, NodeFits
  <2>2. Cardinality(Tasks \ {t}) = Cardinality(Tasks) - 1
    BY <2>1, TasksAreFinite, FS_RemoveElement
  <2> QED
    BY <1>1, <2>1, <2>2 DEF PeersInv, Counted, CountIsExact
<1>5. StreamsAreServed'
  BY <1>1, <1>2 DEF PeersInv, Counted, StreamsAreServed, SignersFit, NodeFits
<1> QED
  BY <1>1, <1>2, <1>3, <1>4, <1>5, PeersUntouched, CallsUntouched DEF PeersInv, Counted

\* What becomes of the peers when one connects, and of a connection attempt.
LEMMA HookKeeps ==
    ASSUME PeersInv, NEW p \in Peers, Hook(p), UNCHANGED <<channels, cutShort>>, due' \subseteq due
    PROVE  PeersFit' /\ PeersAreListed'
  BY DEF Hook, PeersInv, PeersFit, PeersAreListed

LEMMA ConnectsKeeps ==
    ASSUME PeersInv, NEW p \in Peers, Connects(p), UNCHANGED <<channels, cutShort>>, due' \subseteq due
    PROVE  PeersFit' /\ PeersAreListed'
<1>1. CASE Hook(p)
  BY <1>1, HookKeeps
<1>2. CASE UNCHANGED <<connected, peerlist, forgotten, missed>>
  BY <1>2 DEF PeersInv, PeersFit, PeersAreListed
<1> QED
  BY <1>1, <1>2 DEF Connects

\* A reconnecting task goes on, with peers to try that are peers.
LEMMA ReconnectsFits ==
    ASSUME PeersInv, NEW t \in Streams, NEW todo \in SUBSET Peers, NEW from,
           NEW to \in {"idle", "check", "peers", "datastore", "lock", "connect"},
           Reconnects(t, from, to, todo), rpc' \in {rpc, t, None},
           UNCHANGED <<task, socket, epoch, faults>>
    PROVE  NodeFits'
<1>1. rec' = [rec EXCEPT ![t] = [pc |-> to, todo |-> todo]]
  BY DEF Reconnects
<1>2. rec' \in [Streams -> [pc : {"idle", "check", "peers", "datastore", "lock", "connect"},
                            todo : SUBSET Peers]]
  BY <1>1 DEF PeersInv, NodeFits
<1> QED
  BY <1>2 DEF PeersInv, NodeFits

LEMMA RecKeeps ==
    ASSUME PeersInv, NEW t \in Streams, RecStep(t) \/ RecWaits(t) \/ RecFails(t)
    PROVE  PeersInv'
<1>1. rec[t].todo \in SUBSET Peers
  BY DEF PeersInv, NodeFits
<1>2. CASE RecCheck(t)
  <2>1. UNCHANGED <<signerVars, task, count, rpc, socket, epoch, peerVars, call, faults>>
    BY <1>2 DEF RecCheck
  <2>2. NodeFits'
    BY <1>2, <2>1, ReconnectsFits DEF RecCheck
  <2> QED
    BY <2>1, <2>2, PeersUntouched, OnlyNode DEF PeersInv
<1>3. CASE RecPeers(t)
  <2>1. /\ rpc' = t /\ Reconnects(t, "peers", "datastore", connected)
        /\ UNCHANGED <<signerVars, task, count, socket, epoch, peerVars, call, faults>>
    BY <1>3 DEF RecPeers, Acquire
  <2>2. NodeFits'
    BY <2>1, ReconnectsFits DEF PeersInv, PeersFit
  <2> QED
    BY <2>1, <2>2, PeersUntouched, OnlyNode DEF PeersInv
<1>4. CASE RecDatastore(t)
  <2>1. /\ rpc' = None /\ Reconnects(t, "datastore", "lock", rec[t].todo \cup peerlist)
        /\ UNCHANGED <<signerVars, task, count, socket, epoch, peerVars, call, faults>>
    BY <1>4 DEF RecDatastore
  <2>2. NodeFits'
    BY <1>1, <2>1, ReconnectsFits DEF PeersInv, PeersFit
  <2> QED
    BY <2>1, <2>2, PeersUntouched, OnlyNode DEF PeersInv
<1>5. CASE RecLock(t)
  <2>1. /\ rpc' = t /\ Reconnects(t, "lock", "connect", rec[t].todo)
        /\ UNCHANGED <<signerVars, task, count, socket, epoch, peerVars, call, faults>>
    BY <1>5 DEF RecLock, Acquire
  <2>2. NodeFits'
    BY <1>1, <2>1, ReconnectsFits
  <2> QED
    BY <2>1, <2>2, PeersUntouched, OnlyNode DEF PeersInv
<1>6. CASE RecConnect(t)
  <2>1. PICK p \in rec[t].todo :
           /\ Reconnects(t, "connect", "connect", rec[t].todo \ {p})
           /\ Connects(p)
           /\ due' = due \ {p}
    BY <1>6 DEF RecConnect
  <2>2. UNCHANGED <<signerVars, task, count, rpc, socket, epoch, channels, cutShort, call, faults>>
    BY <1>6 DEF RecConnect
  <2>3. NodeFits'
    BY <1>1, <2>1, <2>2, ReconnectsFits
  <2>4. PeersFit' /\ PeersAreListed'
    BY <1>1, <2>1, <2>2, ConnectsKeeps
  <2> QED
    BY <2>2, <2>3, <2>4, OnlyNode
<1>7. CASE RecEnds(t)
  <2>1. /\ rpc' = None /\ Reconnects(t, "connect", "idle", {})
        /\ UNCHANGED <<signerVars, task, count, socket, epoch, peerVars, call, faults>>
    BY <1>7 DEF RecEnds
  <2>2. NodeFits'
    BY <2>1, ReconnectsFits
  <2> QED
    BY <2>1, <2>2, PeersUntouched, OnlyNode DEF PeersInv
<1>8. CASE RecFails(t)
  <2>1. /\ rpc' = None /\ cutShort' = TRUE
        /\ UNCHANGED <<signerVars, task, count, socket, epoch, call, faults>>
        /\ UNCHANGED <<connected, peerlist, channels, forgotten, missed, due>>
    BY <1>8 DEF RecFails
  <2>2. Reconnects(t, "peers", "idle", {}) \/ Reconnects(t, "datastore", "idle", {})
    BY <1>8 DEF RecFails
  <2>3. NodeFits'
    BY <2>1, <2>2, ReconnectsFits
  <2> QED
    BY <2>1, <2>3, OnlyHistory, OnlyNode
<1> QED
  BY <1>2, <1>3, <1>4, <1>5, <1>6, <1>7, <1>8 DEF RecStep, RecWaits

LEMMA RestartKeeps ==
    ASSUME PeersInv, Restart
    PROVE  PeersInv'
<1>1. /\ faults < MaxFaults /\ faults' = faults + 1 /\ epoch' = epoch + 1
      /\ socket' \in {"none", "stale"}
      /\ task' = [t \in Streams |-> "none"] /\ count' = 0
      /\ rec' = [t \in Streams |-> Resting] /\ rpc' = None
      /\ stream' = [s \in Signers |-> None]
      /\ call' = [u \in Users |-> Idle]
      /\ connected' = {} /\ due' = peerlist
      /\ UNCHANGED <<loop, uri, asked, peerlist, channels, forgotten, missed, cutShort>>
  BY DEF Restart
<1>2. SignersFit'
  BY <1>1 DEF PeersInv, SignersFit
<1>3. NodeFits'
  BY <1>1, PeersConstants DEF PeersInv, NodeFits, Resting
<1>4. PeersFit' /\ PeersAreListed'
  BY <1>1 DEF PeersInv, PeersFit, PeersAreListed
<1>5. CallsFit'
  BY <1>1, PeersConstants DEF CallsFit, Idle
<1>6. CountIsExact'
  <2>1. Tasks' = {}
    BY <1>1 DEF Tasks
  <2> QED
    BY <1>1, <2>1, FS_EmptySet DEF CountIsExact
<1>7. StreamsAreServed'
  BY <1>1 DEF StreamsAreServed
<1> QED
  BY <1>2, <1>3, <1>4, <1>5, <1>6, <1>7 DEF PeersInv, Counted

-----------------------------------------------------------------------------
(* Calls, lightningd and the peers                                         *)

LEMMA CallsKeeps ==
    ASSUME PeersInv, NEW u \in Users, NEW op \in Forwarded \cup Sharing,
           NEW p \in Peers \cup {None}, Calls(u, op, p)
    PROVE  PeersInv'
<1>1. UNCHANGED <<signerVars, nodeVars, peerVars, faults>>
  BY DEF Calls
<1>2. CallsFit'
  BY PeersConstants DEF Calls, PeersInv, CallsFit, Forwarded, Sharing
<1> QED
  BY <1>1, <1>2, NodeUntouched, PeersUntouched, OnlyCalls DEF PeersInv, nodeVars

LEMMA AwaitKeeps ==
    ASSUME PeersInv, NEW u \in Users, Await(u)
    PROVE  PeersInv'
<1>1. UNCHANGED <<signerVars, nodeVars, peerVars, faults>>
  BY DEF Await
<1>2. CallsFit'
  BY PeersConstants DEF Await, Passed, PeersInv, CallsFit
<1> QED
  BY <1>1, <1>2, NodeUntouched, PeersUntouched, OnlyCalls DEF PeersInv, nodeVars

LEMMA ForgetKeeps ==
    ASSUME PeersInv, NEW u \in Users, Forget(u)
    PROVE  PeersInv'
<1>1. /\ call[u].pc = "forget" /\ call' = [call EXCEPT ![u].pc = "sent"]
      /\ UNCHANGED <<signerVars, nodeVars, connected, channels, missed, cutShort, faults>>
  BY DEF Forget
<1>2. CallsFit'
  BY <1>1 DEF PeersInv, CallsFit
<1>3. call[u].peer \in Peers
  BY <1>1 DEF PeersInv, CallsFit
<1>4. PeersFit' /\ PeersAreListed'
  BY <1>1, <1>3 DEF Forget, PeersInv, PeersFit, PeersAreListed
<1> QED
  BY <1>1, <1>2, <1>4, NodeUntouched, OnlyCalls DEF PeersInv, nodeVars

LEMMA AnswerKeeps ==
    ASSUME PeersInv, NEW u \in Users, Answer(u)
    PROVE  PeersInv'
<1>1. PICK op \in Forwarded : Returns(u, op)
  BY DEF Answer, AnswerFails, AnswerRead, AnswerSign, AnswerConnect, AnswerDisconnect, Forwarded
<1>2. call[u].op = op /\ call' = [call EXCEPT ![u] = Idle]
      /\ UNCHANGED <<signerVars, nodeVars, faults>>
  BY <1>1 DEF Returns
<1>3. CallsFit'
  BY <1>2, PeersConstants DEF PeersInv, CallsFit, Idle
<1>4. PeersFit' /\ PeersAreListed'
  <2>1. CASE UNCHANGED peerVars
    BY <2>1, PeersUntouched DEF PeersInv
  <2>2. CASE AnswerConnect(u)
    <3>1. call[u].peer \in Peers /\ Connects(call[u].peer) /\ UNCHANGED <<channels, due, cutShort>>
      BY <2>2 DEF AnswerConnect, Returns, PeersInv, CallsFit
    <3> QED
      BY <3>1, ConnectsKeeps
  <2>3. CASE AnswerDisconnect(u)
    <3>1. connected' \subseteq connected /\ UNCHANGED <<peerlist, channels, forgotten, missed, due, cutShort>>
      BY <2>3 DEF AnswerDisconnect
    <3> QED
      BY <3>1 DEF PeersInv, PeersFit, PeersAreListed
  <2> QED
    BY <2>1, <2>2, <2>3 DEF Answer, AnswerFails, AnswerRead, AnswerSign
<1> QED
  BY <1>2, <1>3, <1>4, NodeUntouched, OnlyCalls DEF PeersInv, nodeVars

\* Taking the shared client, and giving it back.
LEMMA SharingKeeps ==
    ASSUME PeersInv, NEW u \in Users, Enter(u) \/ Leave(u)
    PROVE  PeersInv'
<1>1. /\ rpc' \in {u, None}
      /\ UNCHANGED <<signerVars, task, count, rec, socket, epoch, peerVars, faults>>
  BY DEF Enter, Acquire, Leave
<1>2. NodeFits'
  BY <1>1 DEF PeersInv, NodeFits
<1>3. CallsFit'
  BY PeersConstants DEF Enter, Leave, Idle, PeersInv, CallsFit
<1> QED
  BY <1>1, <1>2, <1>3, PeersUntouched, OnlyCalls DEF PeersInv

LEMMA ListenKeeps ==
    ASSUME PeersInv, Listen
    PROVE  PeersInv'
<1>1. socket' = "live"
      /\ UNCHANGED <<signerVars, task, count, rec, rpc, epoch, peerVars, call, faults>>
  BY DEF Listen
<1>2. NodeFits'
  BY <1>1 DEF PeersInv, NodeFits
<1> QED
  BY <1>1, <1>2, PeersUntouched, OnlyNode DEF PeersInv

LEMMA PeerKeeps ==
    ASSUME PeersInv, NEW p \in Peers, PeerConnects(p) \/ PeerDrops(p) \/ OpenChannel(p)
    PROVE  PeersInv'
<1>1. UNCHANGED <<signerVars, nodeVars, call, faults>>
  BY DEF PeerConnects, PeerDrops, OpenChannel
<1>2. PeersFit' /\ PeersAreListed'
  <2>1. CASE PeerConnects(p)
    BY <2>1, HookKeeps DEF PeerConnects
  <2>2. CASE PeerDrops(p)
    BY <2>2 DEF PeerDrops, PeersInv, PeersFit, PeersAreListed
  <2>3. CASE OpenChannel(p)
    BY <2>3 DEF OpenChannel, PeersInv, PeersFit, PeersAreListed
  <2> QED
    BY <2>1, <2>2, <2>3
<1> QED
  BY <1>1, <1>2, NodeUntouched, OnlyNode DEF PeersInv, nodeVars

-----------------------------------------------------------------------------

LEMMA PeersInvInductive ==
    /\ Init => PeersInv
    /\ PeersInv /\ [Next]_vars => PeersInv'
<1>1. ASSUME Init
      PROVE  PeersInv
  <2>1. SignersFit
    BY <1>1, PeersConstants DEF Init, SignersFit
  <2>6. PeersFit /\ PeersAreListed
    BY <1>1 DEF Init, PeersFit, PeersAreListed
  <2>2. NodeFits
    BY <1>1, PeersConstants DEF Init, NodeFits, Resting
  <2>3. CallsFit
    BY <1>1, PeersConstants DEF Init, CallsFit, Idle
  <2>4. Tasks = {}
    BY <1>1 DEF Init, Tasks
  <2>5. Counted
    BY <1>1, <2>4, FS_EmptySet DEF Init, Counted, CountIsExact, StreamsAreServed
  <2> QED
    BY <2>1, <2>2, <2>3, <2>5, <2>6 DEF PeersInv
<1>2. ASSUME PeersInv, [Next]_vars
      PROVE  PeersInv'
  <2>1. ASSUME NEW s \in Signers,
               SignerStep(s) \/ UpgradeRefused(s) \/ Lose(s) \/ StopAsked(s)
        PROVE  PeersInv'
    BY <1>2, <2>1, LoopSteps, AttachKeeps, LoseKeeps, StopsKeeps DEF SignerStep
  <2>2. ASSUME NEW t \in Streams, TaskEnds(t) \/ RecStep(t) \/ RecWaits(t) \/ RecFails(t)
        PROVE  PeersInv'
    BY <1>2, <2>2, TaskEndsKeeps, RecKeeps
  <2>3. ASSUME NEW u \in Users, CallStep(u) \/ Enter(u)
        PROVE  PeersInv'
    BY <1>2, <2>3, AwaitKeeps, ForgetKeeps, AnswerKeeps, SharingKeeps DEF CallStep
  <2>4. ASSUME NEW u \in Users, NEW op \in Forwarded \cup Sharing,
               NEW p \in Peers \cup {None}, Calls(u, op, p)
        PROVE  PeersInv'
    BY <1>2, <2>4, CallsKeeps
  <2>5. ASSUME NEW p \in Peers, PeerConnects(p) \/ PeerDrops(p) \/ OpenChannel(p)
        PROVE  PeersInv'
    BY <1>2, <2>5, PeerKeeps
  <2>6. CASE Listen \/ Restart
    BY <1>2, <2>6, ListenKeeps, RestartKeeps
  <2>7. CASE UNCHANGED vars
    <3>1. UNCHANGED <<signerVars, nodeVars, peerVars, call, faults, stream>>
      BY <2>7 DEF vars, signerVars
    <3> QED
      BY <1>2, <3>1, SignersUntouched, OnlyLoops DEF PeersInv
  <2> QED
    BY <1>2, <2>1, <2>2, <2>3, <2>4, <2>5, <2>6, <2>7 DEF Next
<1> QED
  BY <1>1, <1>2

LEMMA PeersInvHolds == Spec => []PeersInv
  BY PeersInvInductive, PTL DEF Spec

(***************************************************************************)
(* The variables of signers, node, peers and calls keep their types; that  *)
(* SIGNER_COUNT does not fall below zero rests on its being exact for the  *)
(* stream tasks of stream_hsm_requests.                                    *)
(***************************************************************************)
THEOREM PeersTypeCorrect == Spec => []PeersTypeOK
<1>1. PeersInv => PeersTypeOK
  BY TasksAreFinite DEF PeersInv, SignersFit, NodeFits, PeersFit, CallsFit, Counted,
     CountIsExact, PeersTypeOK
<1> QED
  BY <1>1, PeersInvHolds, PTL

(***************************************************************************)
(* SIGNER_COUNT of node/mod.rs covers every signer that is attached, for   *)
(* any number of them and any streams lost before: reconnect_peers never   *)
(* gives up although its signer is there.                                  *)
(***************************************************************************)
THEOREM AttachedAreCounted == Spec => []CountCoversAttached
<1>1. ASSUME PeersInv
      PROVE  CountCoversAttached
  <2> DEFINE Readers == {s \in Signers : stream[s] # None}
             served == [s \in Readers |-> stream[s]]
  <2>1. served \in Injection(Readers, Tasks)
    <3>1. served \in [Readers -> Tasks]
      BY <1>1 DEF PeersInv, SignersFit, Counted, StreamsAreServed, Tasks
    <3>2. IsInjective(served)
      BY <1>1 DEF PeersInv, Counted, StreamsAreServed, IsInjective
    <3> QED
      BY <3>1, <3>2 DEF Injection
  <2>2. Cardinality(Readers) <= Cardinality(Tasks)
    <3> HIDE DEF Readers, served
    <3> QED
      BY <2>1, TasksAreFinite, FS_Injection
  <2> QED
    BY <1>1, <2>2 DEF PeersInv, Counted, CountIsExact, CountCoversAttached
<1> QED
  BY <1>1, PeersInvHolds, PTL

(***************************************************************************)
(* A peer with a connection or a channel that is not listed was            *)
(* disconnected by a user or missed by a hook that failed, whatever        *)
(* connections, refused disconnects, rounds of reconnects and restarts     *)
(* came before (on_peer_connected, the wrapper's disconnect).              *)
(***************************************************************************)
THEOREM UnlistedPeersHaveCause == Spec => []PeersAreListed
<1>1. PeersInv => PeersAreListed
  BY DEF PeersInv
<1> QED
  BY <1>1, PeersInvHolds, PTL

=============================================================================
