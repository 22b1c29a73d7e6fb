------------------------- MODULE DurabilityProofs -------------------------
(***************************************************************************)
(* Proof that the signing path forgets nothing it has answered, for one    *)
(* signer and a store whose writes survive a crash: whatever is lost,      *)
(* repeated, refused or restarted in between.  (With two signers it is not *)
(* so, as run TwoSigners shows, nor is it with a store that buffers.)      *)
(*                                                                         *)
(* All copies of the signer state are then points of one history.  The     *)
(* store is behind the node's memory, which is behind the signer, unless   *)
(* the signer has just restarted; it then knows nothing, and the first it  *)
(* hears, the heartbeat, is exactly the node's memory.                     *)
(***************************************************************************)
EXTENDS PathProofs

\* The node is served by a single signer.
OneSigner == \A r, s \in Signers : r = s

\* Entries that a signer which starts from nothing may have written.
Rooted(a) == \A k \in Keys : a[k] = Absent \/ Precedes(FreshState[k], a[k])

\* The states in a queue of messages.
StatesOf(q) == {q[i].state : i \in 1..Len(q)}

\* The states on their way to the signer on stream t.
Underway(t) ==
    StatesOf(chan[t]) \cup (IF task[t].pc \in {"config", "send"} THEN {task[t].snap} ELSE {})

\* A signer that has restarted and not heard from the node yet.
Behind(s) ==
    /\ local[s] = FreshState
    /\ outbox[s].kind = "none"
    /\ \A t \in Streams : attached[s] = t => Underway(t) \subseteq {memory}

ClosedAreEmpty == \A t \in Streams : t \notin open => chan[t] = <<>>

AttachedAreOpen == \A s \in Signers : attached[s] # None => attached[s] \in open

History ==
    /\ Below(store, memory)
    /\ Rooted(memory) /\ Rooted(store)
    /\ \A t \in Streams : \A a \in Underway(t) : Below(a, memory)
    /\ \A s \in Signers :
          /\ Below(FreshState, local[s])
          /\ Below(memory, local[s]) \/ Behind(s)

\* What a response carries is what the signer knows, its request included.
Responses ==
    \A s \in Signers : outbox[s].kind = "ok" =>
        /\ outbox[s].state = local[s]
        /\ Reflects(local[s], Touches[outbox[s].req], outbox[s].req)

\* Between the merge and the answer.
Committing ==
    /\ commit.phase # "idle" => Reflects(memory, Touches[commit.req], commit.req)
    /\ commit.phase = "reply" => store = memory

DurabilityInv ==
    /\ TypeOK
    /\ ClosedAreEmpty
    /\ AttachedAreOpen
    /\ History
    /\ Responses
    /\ Committing
    /\ AnsweredIsStored

-----------------------------------------------------------------------------
(* Queues of messages                                                      *)

LEMMA StatesOfEmpty == StatesOf(<<>>) = {}
BY DEF StatesOf

LEMMA StatesOfAppend ==
    ASSUME NEW q \in Seq(Message), NEW m \in Message
    PROVE  StatesOf(Append(q, m)) = StatesOf(q) \cup {m.state}
<1> DEFINE p == Append(q, m)
<1>1. /\ Len(p) = Len(q) + 1
      /\ Len(q) \in Nat
      /\ \A i \in 1..Len(q) : p[i] = q[i]
      /\ p[Len(q) + 1] = m
  OBVIOUS
<1>2. 1..Len(p) = (1..Len(q)) \cup {Len(q) + 1}
  BY <1>1
<1> HIDE DEF p
<1>3. ASSUME NEW x
      PROVE  x \in {p[i].state : i \in 1..Len(p)}
                <=> x \in {q[i].state : i \in 1..Len(q)} \/ x = m.state
  BY <1>1, <1>2
<1> QED
  BY <1>3 DEF StatesOf, p

LEMMA StatesOfTail ==
    ASSUME NEW q \in Seq(Message), q # <<>>
    PROVE  StatesOf(Tail(q)) \subseteq StatesOf(q) /\ Head(q).state \in StatesOf(q)
<1>1. /\ Head(q) = q[1]
      /\ Len(q) \in Nat \ {0}
      /\ Len(Tail(q)) = Len(q) - 1
      /\ \A i \in 1..Len(Tail(q)) : Tail(q)[i] = q[i + 1]
  OBVIOUS
<1>2. \A i \in 1..Len(Tail(q)) : i + 1 \in 1..Len(q)
  BY <1>1
<1>3. 1 \in 1..Len(q)
  BY <1>1
<1> QED
  BY <1>1, <1>2, <1>3 DEF StatesOf

LEMMA UnderwayTypes ==
    ASSUME PathTypeOK, NEW t \in Streams
    PROVE  Underway(t) \subseteq State
<1>1. chan[t] \in Seq(Message) /\ task[t].snap \in State
  BY DEF PathTypeOK, Task
<1>2. \A i \in 1..Len(chan[t]) : chan[t][i] \in Message
  BY <1>1
<1> QED
  BY <1>1, <1>2 DEF Underway, StatesOf, Message

-----------------------------------------------------------------------------

(***************************************************************************)
(* Steps that move no copy of the state forward: they pass the memory on,  *)
(* give up a response or a commit, attach, detach, or answer what the      *)
(* store reflects.                                                         *)
(***************************************************************************)
LEMMA QuietStep ==
    ASSUME DurabilityInv, TypeOK',
           UNCHANGED <<memory, store, local>>,
           \A s \in Signers : outbox'[s] \in {outbox[s], NoResponse},
           commit'.phase = "idle" \/ (commit'.phase = commit.phase /\ commit'.req = commit.req),
           \A t \in Streams : Underway(t)' \subseteq Underway(t) \cup {memory},
           \A s \in Signers, t \in Streams :
              attached'[s] = t => attached[s] = t \/ Underway(t)' = {},
           ClosedAreEmpty', AttachedAreOpen',
           \A c \in Answered' : c \in Answered \/ Reflects(store, Touches[c], c)
    PROVE  DurabilityInv'
<1>1. TypeOK /\ History /\ Responses /\ Committing /\ AnsweredIsStored
  BY DEF DurabilityInv
<1>2. memory \in State /\ PathTypeOK
  BY <1>1, TypeOKSplit DEF PathTypeOK
<1>3. ASSUME NEW t \in Streams, NEW a \in Underway(t)' PROVE Below(a, memory)'
  BY <1>1, <1>2, <1>3, BelowReflexive DEF History
<1>4. ASSUME NEW s \in Signers, Behind(s) PROVE Behind(s)'
  <2>1. outbox'[s].kind = "none"
    BY <1>4 DEF Behind, NoResponse
  <2>2. ASSUME NEW t \in Streams, attached'[s] = t PROVE Underway(t)' \subseteq {memory}
    <3>1. attached[s] = t \/ Underway(t)' = {}
      BY <2>2
    <3> QED BY <1>4, <2>2, <3>1 DEF Behind
  <2> QED BY <1>4, <2>1, <2>2 DEF Behind
<1>5. History'
  <2>1. ASSUME NEW s \in Signers PROVE (Below(FreshState, local[s]) /\ (Below(memory, local[s]) \/ Behind(s)))'
    BY <1>1, <1>4 DEF History
  <2>2. (Below(store, memory) /\ Rooted(memory) /\ Rooted(store))'
    BY <1>1 DEF History
  <2> QED BY <1>3, <2>1, <2>2 DEF History
<1>6. Responses'
  BY <1>1 DEF Responses, NoResponse
<1>7. Committing'
  BY <1>1 DEF Committing
<1>8. AnsweredIsStored'
  BY <1>1 DEF AnsweredIsStored
<1> QED
  BY <1>5, <1>6, <1>7, <1>8 DEF DurabilityInv

\* What a change to one stream's task and channel does to what is underway.
LEMMA UnderwayUnchanged ==
    ASSUME NEW t \in Streams, chan'[t] = chan[t], task'[t] = task[t]
    PROVE  Underway(t)' = Underway(t)
BY DEF Underway

\* The calls of the quiet actions, one at a time.
LEMMA QuietActions ==
    ASSUME OneSigner, DurabilityInv, TypeOK',
           \/ \E c \in Calls : HsmRequest(c) \/ HsmRequestCanned(c)
           \/ \E t \in Streams : StreamTask(t)
           \/ \E s \in Signers, t \in Streams : Attach(s, t) \/ SignerStreamEnds(s, t)
           \/ \E s \in Signers : RespondError(s) \/ SignerDisconnects(s)
           \/ RespondReply \/ RespondDropped \/ RespondWriteFails
           \/ UNCHANGED vars
    PROVE  DurabilityInv'
<1>1. TypeOK /\ ClosedAreEmpty /\ AttachedAreOpen /\ Committing
  BY DEF DurabilityInv
<1>2. StageTypeOK /\ PathTypeOK
  BY <1>1, TypeOKSplit
<1>3. ASSUME NEW c \in Calls, HsmRequest(c) \/ HsmRequestCanned(c) PROVE DurabilityInv'
  <2>1. UNCHANGED pathVars
    BY <1>3 DEF HsmRequest, HsmRequestCanned
  <2>2. Answered' = Answered
    BY <1>2, <1>3 DEF HsmRequest, HsmRequestCanned, Send, Answered, StageTypeOK
  <2>3. \A t \in Streams : Underway(t)' = Underway(t)
    BY <2>1, UnderwayUnchanged DEF pathVars
  <2>4. ClosedAreEmpty' /\ AttachedAreOpen'
    BY <1>1, <2>1 DEF ClosedAreEmpty, AttachedAreOpen, pathVars
  <2> QED BY <2>1, <2>2, <2>3, <2>4, QuietStep DEF pathVars
<1>4. ASSUME NEW t \in Streams, TaskHeartbeat(t) PROVE DurabilityInv'
  <2>1. UNCHANGED <<requests, reply, memory, store, commit, local, attached, outbox, open>>
    BY <1>4 DEF TaskHeartbeat, pluginVars, signerVars, stageVars
  <2> DEFINE m == [req |-> Heartbeat, state |-> memory]
  <2>2. m \in Message /\ m.state = memory
    BY <1>2, ResetValues DEF PathTypeOK, Message
  <2>3. Underway(t)' \subseteq Underway(t) \cup {memory}
    <3>1. chan[t] \in Seq(Message)
      BY <1>2 DEF PathTypeOK
    <3>2. chan'[t] = chan[t] \/ chan'[t] = Append(chan[t], m)
      BY <1>2, <1>4 DEF TaskHeartbeat, Enqueue, PathTypeOK
    <3>3. task'[t].pc \notin {"config", "send"}
      BY <1>2, <1>4 DEF TaskHeartbeat, PathTypeOK
    <3>4. StatesOf(chan[t])' \subseteq StatesOf(chan[t]) \cup {memory}
      <4> HIDE DEF m
      <4> QED BY <2>2, <3>1, <3>2, StatesOfAppend
    <3> QED BY <3>3, <3>4 DEF Underway
  <2>4. \A u \in Streams : u # t => Underway(u)' = Underway(u)
    BY <1>2, <1>4, UnderwayUnchanged DEF TaskHeartbeat, Enqueue, PathTypeOK
  <2>5. ClosedAreEmpty' /\ AttachedAreOpen'
    BY <1>1, <1>2, <1>4, <2>1 DEF ClosedAreEmpty, AttachedAreOpen, TaskHeartbeat, Enqueue, PathTypeOK
  <2>6. Answered' = Answered
    BY <2>1 DEF Answered
  <2> QED BY <2>1, <2>3, <2>4, <2>5, <2>6, QuietStep
<1>5. ASSUME NEW t \in Streams, NEW c \in Calls, TaskNext(t, c) PROVE DurabilityInv'
  <2>1. UNCHANGED <<requests, reply, memory, store, commit, local, attached, outbox, open, chan>>
    BY <1>5 DEF TaskNext, StreamNext, pluginVars, signerVars
  <2>2. \A u \in Streams : Underway(u)' \subseteq Underway(u)
    <3>1. task'[t].pc \notin {"config", "send"} /\ \A u \in Streams : u # t => task'[u] = task[u]
      BY <1>2, <1>5 DEF TaskNext, PathTypeOK
    <3> QED BY <2>1, <3>1 DEF Underway
  <2>3. ClosedAreEmpty' /\ AttachedAreOpen' /\ Answered' = Answered
    BY <1>1, <2>1 DEF ClosedAreEmpty, AttachedAreOpen, Answered
  <2> QED BY <2>1, <2>2, <2>3, QuietStep
<1>6. ASSUME NEW t \in Streams, TaskSnapshot(t) \/ TaskLocksConfig(t) PROVE DurabilityInv'
  <2>1. UNCHANGED <<requests, reply, memory, store, commit, local, attached, outbox, open, chan>>
    BY <1>6 DEF TaskSnapshot, TaskLocksConfig, pluginVars, signerVars, stageVars
  <2>2. \A u \in Streams : Underway(u)' \subseteq Underway(u) \cup {memory}
    <3>1. \A u \in Streams : u # t => task'[u] = task[u]
      BY <1>2, <1>6 DEF TaskSnapshot, TaskLocksConfig, PathTypeOK, Task
    <3>2. task'[t].snap = memory \/ (task[t].pc = "config" /\ task'[t].snap = task[t].snap)
      BY <1>2, <1>6 DEF TaskSnapshot, TaskLocksConfig, PathTypeOK, Task
    <3> QED BY <2>1, <3>1, <3>2 DEF Underway
  <2>3. ClosedAreEmpty' /\ AttachedAreOpen' /\ Answered' = Answered
    BY <1>1, <2>1 DEF ClosedAreEmpty, AttachedAreOpen, Answered
  <2> QED BY <2>1, <2>2, <2>3, QuietStep
<1>7. ASSUME NEW t \in Streams, TaskSend(t) PROVE DurabilityInv'
  <2>1. UNCHANGED <<requests, reply, memory, store, commit, local, attached, outbox, open>>
    BY <1>7 DEF TaskSend, pluginVars, signerVars, stageVars
  <2> DEFINE m == [req |-> task[t].req, state |-> task[t].snap]
  <2>2. m \in Message /\ m.state = task[t].snap
    BY <1>2 DEF PathTypeOK, Message, Task
  <2>3. Underway(t)' \subseteq Underway(t)
    <3>1. chan[t] \in Seq(Message) /\ task[t].pc = "send"
      BY <1>2, <1>7 DEF PathTypeOK, TaskSend
    <3>2. chan'[t] = Append(chan[t], m)
      BY <1>2, <1>7 DEF TaskSend, Enqueue, PathTypeOK, Task
    <3>3. task'[t].pc \notin {"config", "send"}
      BY <1>2, <1>7 DEF TaskSend, PathTypeOK, Ready
    <3>4. StatesOf(chan[t])' = StatesOf(chan[t]) \cup {task[t].snap}
      <4> HIDE DEF m
      <4> QED BY <2>2, <3>1, <3>2, StatesOfAppend
    <3> QED BY <3>1, <3>3, <3>4 DEF Underway
  <2>4. \A u \in Streams : u # t => Underway(u)' = Underway(u)
    BY <1>2, <1>7, UnderwayUnchanged DEF TaskSend, Enqueue, PathTypeOK, Task
  <2>5. ClosedAreEmpty' /\ AttachedAreOpen' /\ Answered' = Answered
    BY <1>1, <1>2, <1>7, <2>1 DEF ClosedAreEmpty, AttachedAreOpen, Answered, TaskSend, Enqueue, PathTypeOK, Task
  <2> QED BY <2>1, <2>3, <2>4, <2>5, QuietStep
<1>8. ASSUME NEW t \in Streams, TaskSendFails(t) \/ TaskLagged(t) PROVE DurabilityInv'
  <2>1. UNCHANGED <<requests, reply, memory, store, commit, local, attached, outbox, open, chan>>
    BY <1>8 DEF TaskSendFails, TaskLagged, StreamLagged, DropStream, pluginVars, signerVars
  <2>2. \A u \in Streams : Underway(u)' \subseteq Underway(u)
    <3>1. task'[t].pc \notin {"config", "send"} /\ \A u \in Streams : u # t => task'[u] = task[u]
      BY <1>2, <1>8 DEF TaskSendFails, TaskLagged, PathTypeOK, NoTask
    <3> QED BY <2>1, <3>1 DEF Underway
  <2>3. ClosedAreEmpty' /\ AttachedAreOpen' /\ Answered' = Answered
    BY <1>1, <2>1 DEF ClosedAreEmpty, AttachedAreOpen, Answered
  <2> QED BY <2>1, <2>2, <2>3, QuietStep
<1>9. ASSUME NEW s \in Signers, NEW t \in Streams, Attach(s, t) PROVE DurabilityInv'
  <2>1. UNCHANGED <<requests, reply, memory, store, commit, local, outbox, chan>>
    BY <1>9 DEF Attach, MyStream, pluginVars
  <2>2. /\ attached' = [attached EXCEPT ![s] = t] /\ open' = open \cup {t}
        /\ chan[t] = <<>> /\ t # None
    BY <1>1, <1>9, PathAssumption DEF Attach, ClosedAreEmpty
  <2>3. task'[t].pc \notin {"config", "send"} /\ \A u \in Streams : u # t => task'[u] = task[u]
    BY <1>2, <1>9 DEF Attach, PathTypeOK
  <2>4. Underway(t)' = {} /\ \A u \in Streams : u # t => Underway(u)' = Underway(u)
    BY <2>1, <2>2, <2>3, StatesOfEmpty DEF Underway
  <2>5. ClosedAreEmpty' /\ AttachedAreOpen' /\ Answered' = Answered
    BY <1>1, <1>2, <2>1, <2>2 DEF ClosedAreEmpty, AttachedAreOpen, Answered, PathTypeOK
  <2>6. \A r \in Signers, u \in Streams :
           attached'[r] = u => attached[r] = u \/ Underway(u)' = {}
    BY <1>2, <2>2, <2>4 DEF PathTypeOK
  <2> QED BY <2>1, <2>4, <2>5, <2>6, QuietStep
<1>10. ASSUME NEW s \in Signers, NEW t \in Streams, SignerStreamEnds(s, t) PROVE DurabilityInv'
  <2>1. UNCHANGED <<requests, reply, memory, store, commit, local, outbox, chan, task>>
    BY <1>10 DEF SignerStreamEnds, stageVars, pluginVars
  <2>2. /\ attached' = [attached EXCEPT ![s] = None] /\ open' = open \ {t} /\ chan[t] = <<>>
        /\ attached[s] = t
    BY <1>10 DEF SignerStreamEnds
  <2>3. \A u \in Streams : Underway(u)' = Underway(u)
    BY <2>1, UnderwayUnchanged
  <2>4. ClosedAreEmpty' /\ Answered' = Answered
    BY <1>1, <2>1, <2>2 DEF ClosedAreEmpty, Answered
  <2>5. \A r \in Signers, u \in Streams : attached'[r] = u => attached[r] = u
    BY <1>2, <2>2, PathAssumption DEF PathTypeOK
  <2>6. AttachedAreOpen'
    BY <1>2, <2>2 DEF OneSigner, AttachedAreOpen, PathTypeOK
  <2> QED BY <2>1, <2>3, <2>4, <2>5, <2>6, QuietStep
<1>11. ASSUME NEW s \in Signers, RespondError(s) PROVE DurabilityInv'
  <2>1. UNCHANGED <<requests, reply, memory, store, commit, local, chan, task, open, attached>>
    BY <1>11 DEF RespondError, stageVars, pluginVars, streamVars
  <2>2. outbox' = [outbox EXCEPT ![s] = NoResponse]
    BY <1>11 DEF RespondError, Return
  <2>3. \A r \in Signers : outbox'[r] \in {outbox[r], NoResponse}
    BY <1>2, <2>2 DEF PathTypeOK
  <2>4. \A u \in Streams : Underway(u)' = Underway(u)
    BY <2>1, UnderwayUnchanged
  <2>5. ClosedAreEmpty' /\ AttachedAreOpen' /\ Answered' = Answered
    BY <1>1, <2>1 DEF ClosedAreEmpty, AttachedAreOpen, Answered
  <2> QED BY <2>1, <2>3, <2>4, <2>5, QuietStep
<1>12. ASSUME NEW s \in Signers, SignerDisconnects(s) PROVE DurabilityInv'
  <2>1. UNCHANGED <<requests, reply, memory, store, local, task>> /\ Detach(s)
    BY <1>12 DEF SignerDisconnects, stageVars
  <2>2. /\ attached' = [attached EXCEPT ![s] = None] /\ open' = open \ {attached[s]}
        /\ chan' = [t \in Streams |-> IF t = attached[s] THEN <<>> ELSE chan[t]]
        /\ outbox' = [outbox EXCEPT ![s] = NoResponse]
    BY <2>1 DEF Detach
  <2>3. \A r \in Signers : outbox'[r] \in {outbox[r], NoResponse}
    BY <1>2, <2>2 DEF PathTypeOK
  <2>4. \A u \in Streams : Underway(u)' \subseteq Underway(u)
    BY <2>1, <2>2, StatesOfEmpty DEF Underway
  <2>5. ClosedAreEmpty' /\ Answered' = Answered
    BY <1>1, <2>1, <2>2 DEF ClosedAreEmpty, Answered
  <2>6. AttachedAreOpen'
    BY <1>2, <2>2 DEF OneSigner, AttachedAreOpen, PathTypeOK
  <2>7. \A r \in Signers, u \in Streams : attached'[r] = u => attached[r] = u
    BY <1>2, <2>2, PathAssumption DEF PathTypeOK
  <2>8. commit'.phase = commit.phase /\ commit'.req = commit.req
    BY <1>2, <2>1 DEF Detach, PathTypeOK
  <2> QED BY <2>1, <2>3, <2>4, <2>5, <2>6, <2>7, <2>8, QuietStep
<1>13. CASE RespondReply \/ RespondDropped \/ RespondWriteFails
  <2>1. UNCHANGED <<memory, store, local, chan, task, open, attached>> /\ commit' = NoCommit
    BY <1>13 DEF RespondReply, RespondDropped, RespondWriteFails, streamVars, signerVars
  <2>2. \A r \in Signers : outbox'[r] \in {outbox[r], NoResponse}
    BY <1>2, <1>13 DEF RespondReply, RespondDropped, RespondWriteFails, Return, signerVars, PathTypeOK
  <2>3. \A u \in Streams : Underway(u)' = Underway(u)
    BY <2>1, UnderwayUnchanged
  <2>4. ClosedAreEmpty' /\ AttachedAreOpen'
    BY <1>1, <2>1 DEF ClosedAreEmpty, AttachedAreOpen
  <2>5. ASSUME NEW c \in Answered' PROVE c \in Answered \/ Reflects(store, Touches[c], c)
    <3>1. CASE RespondReply
      <4>1. Respond(commit.req) /\ store = memory /\ Reflects(memory, Touches[commit.req], commit.req)
        BY <1>1, <3>1 DEF RespondReply, Committing
      <4>2. c = commit.req \/ reply'[c] = reply[c]
        BY <1>2, <4>1 DEF Respond, StageTypeOK, Answered
      <4> QED BY <4>1, <4>2 DEF Answered
    <3>2. CASE RespondDropped \/ RespondWriteFails
      BY <3>2 DEF RespondDropped, RespondWriteFails, stageVars, Answered
    <3> QED BY <1>13, <3>1, <3>2
  <2> QED BY <2>1, <2>2, <2>3, <2>4, <2>5, ResetValues, QuietStep
<1>14. CASE UNCHANGED vars
  <2>1. UNCHANGED <<reply, memory, store, commit, local, outbox, chan, task, open, attached>>
    BY <1>14 DEF vars, stageVars, pathVars
  <2>2. \A u \in Streams : Underway(u)' = Underway(u)
    BY <2>1, UnderwayUnchanged
  <2>3. ClosedAreEmpty' /\ AttachedAreOpen' /\ Answered' = Answered
    BY <1>1, <2>1 DEF ClosedAreEmpty, AttachedAreOpen, Answered
  <2> QED BY <2>1, <2>2, <2>3, QuietStep
<1> QED
  BY <1>3, <1>4, <1>5, <1>6, <1>7, <1>8, <1>9, <1>10, <1>11, <1>12, <1>13, <1>14 DEF StreamTask

-----------------------------------------------------------------------------
(* The steps that move a copy of the state                                 *)

(***************************************************************************)
(* Having taken over what came with a request, the signer knows all that   *)
(* the node does, even if it had forgotten everything.                     *)
(***************************************************************************)
LEMMA LearnedIsAhead ==
    ASSUME DurabilityInv, NEW s \in Signers, NEW t \in Streams, Receives(s, t)
    PROVE  /\ Learned(s, t) \in State
           /\ Below(memory, Learned(s, t))
           /\ Below(FreshState, Learned(s, t))
<1>1. PathTypeOK /\ History
  BY TypeOKSplit DEF DurabilityInv
<1> DEFINE seen == Head(chan[t]).state
<1>2. chan[t] \in Seq(Message) /\ chan[t] # <<>>
  BY <1>1 DEF Receives, PathTypeOK
<1>3. seen \in Underway(t)
  BY <1>2, StatesOfTail DEF Underway
<1>4. memory \in State /\ local[s] \in State /\ seen \in State /\ FreshState \in State
  BY <1>1, <1>3, UnderwayTypes, StartStates DEF PathTypeOK
<1>5. Below(seen, memory) /\ Below(FreshState, local[s])
  BY <1>1, <1>3 DEF History
<1>6. CASE Below(memory, local[s])
  <2>1. Below(seen, local[s])
    BY <1>4, <1>5, <1>6, BelowTransitive
  <2>2. Merge(local[s], seen) = local[s]
    BY <1>4, <2>1, MergeFuture
  <2> QED BY <1>4, <1>5, <1>6, <2>2 DEF Learned
<1>7. CASE Behind(s)
  <2>1. local[s] = FreshState /\ seen = memory
    BY <1>3, <1>7 DEF Behind, Receives
  <2>2. Comparable(FreshState, memory)
    <3>1. ASSUME NEW k \in Keys, memory[k] = Absent
          PROVE  Precedes(memory[k], FreshState[k])
      BY <3>1 DEF Absent, FreshState, Precedes
    <3> QED BY <1>1, <3>1 DEF History, Rooted, Comparable
  <2> QED BY <1>4, <2>1, <2>2, MergeOfComparable, MergeType DEF Learned
<1> QED
  BY <1>1, <1>6, <1>7 DEF History

\* Accepted or refused, the signer goes on from there.
LEMMA SignerKeeps ==
    ASSUME OneSigner, DurabilityInv, TypeOK', NEW s \in Signers, NEW t \in Streams,
           SignerAccepts(s, t) \/ SignerRejects(s, t)
    PROVE  DurabilityInv'
<1>1. PathTypeOK /\ History /\ ClosedAreEmpty /\ AttachedAreOpen /\ Responses /\ Committing
  BY TypeOKSplit DEF DurabilityInv
<1>2. Receives(s, t)
  BY DEF SignerAccepts, SignerRejects
<1>3. Head(chan[t]) \in Message /\ Head(chan[t]).req \in Req
  <2>1. chan[t] \in Seq(Message) /\ chan[t] # <<>>
    BY <1>1, <1>2 DEF Receives, PathTypeOK
  <2> QED BY <2>1, MessageQueues DEF Message
<1> DEFINE r == Head(chan[t]).req
<1>4. UNCHANGED <<reply, memory, store, commit, task, open, attached>>
  BY DEF SignerAccepts, SignerRejects, stageVars, pluginVars
<1>5. chan' = [chan EXCEPT ![t] = Tail(@)]
  BY DEF SignerAccepts, SignerRejects
<1>6. PICK K \in SUBSET Keys :
         /\ local' = [local EXCEPT ![s] = Touch(Learned(s, t), K, r)]
         /\ outbox'[s].kind = "ok" => /\ outbox'[s].state = local'[s]
                                      /\ outbox'[s].req = r /\ K = Touches[r]
  <2>1. CASE SignerAccepts(s, t)
    <3>1. /\ local' = [local EXCEPT ![s] = Touch(Learned(s, t), Touches[r], r)]
          /\ outbox' = [outbox EXCEPT ![s] =
                [kind |-> "ok", req |-> r, state |-> Touch(Learned(s, t), Touches[r], r)]]
      BY <2>1 DEF SignerAccepts, Persisted
    <3> QED BY <1>1, <1>3, <3>1, RequestKeys DEF PathTypeOK
  <2>2. CASE SignerRejects(s, t)
    <3>1. PICK K \in SUBSET Touches[r] : local' = [local EXCEPT ![s] = Touch(Learned(s, t), K, r)]
      BY <2>2 DEF SignerRejects, Persisted
    <3>2. outbox' = [outbox EXCEPT ![s] = [kind |-> "error", req |-> r, state |-> EmptyState]]
      BY <2>2 DEF SignerRejects
    <3>3. outbox'[s].kind = "error"
      BY <1>1, <3>2 DEF PathTypeOK
    <3> QED BY <1>3, <3>1, <3>3, RequestKeys
  <2> QED BY <2>1, <2>2
<1>7. local'[s] = Touch(Learned(s, t), K, r) /\ \A u \in Signers : u = s
  BY <1>1, <1>6 DEF PathTypeOK, OneSigner
<1>8. /\ local'[s] \in State /\ Learned(s, t) \in State
      /\ Below(Learned(s, t), local'[s]) /\ Reflects(local'[s], K, r)
  BY <1>2, <1>3, <1>7, LearnedIsAhead, TouchAdvances, TouchType
<1>9. Below(memory, local'[s]) /\ Below(FreshState, local'[s])
  <2>1. Below(memory, Learned(s, t)) /\ Below(FreshState, Learned(s, t))
    BY <1>2, LearnedIsAhead
  <2> QED BY <1>1, <1>8, <2>1, StartStates, BelowTransitive DEF PathTypeOK
<1>10. \A u \in Streams : Underway(u)' \subseteq Underway(u)
  <2>1. chan[t] \in Seq(Message) /\ chan[t] # <<>>
    BY <1>1, <1>2 DEF Receives, PathTypeOK
  <2>2. StatesOf(chan[t])' \subseteq StatesOf(chan[t])
    BY <1>1, <1>5, <2>1, StatesOfTail DEF PathTypeOK
  <2>3. \A u \in Streams : u # t => chan'[u] = chan[u]
    BY <1>1, <1>5 DEF PathTypeOK
  <2> QED BY <1>4, <2>2, <2>3 DEF Underway
<1>11. History'
  <2>1. (Below(store, memory) /\ Rooted(memory) /\ Rooted(store))'
    BY <1>1, <1>4 DEF History
  <2>2. (\A u \in Streams : \A a \in Underway(u) : Below(a, memory))'
    BY <1>1, <1>4, <1>10 DEF History
  <2>3. (\A u \in Signers : Below(FreshState, local[u]) /\ (Below(memory, local[u]) \/ Behind(u)))'
    BY <1>4, <1>7, <1>9
  <2> QED BY <2>1, <2>2, <2>3 DEF History
<1>12. Responses'
  <2>1. outbox'[s].kind = "ok" => /\ outbox'[s].state = local'[s]
                                  /\ Reflects(local'[s], Touches[outbox'[s].req], outbox'[s].req)
    BY <1>6, <1>8
  <2> QED BY <1>7, <2>1 DEF Responses
<1>13. ClosedAreEmpty' /\ AttachedAreOpen' /\ Committing' /\ AnsweredIsStored'
  <2>1. ClosedAreEmpty'
    <3>1. t \in open
      BY <1>1, <1>2 DEF Receives, ClosedAreEmpty
    <3> QED BY <1>1, <1>4, <1>5, <3>1 DEF ClosedAreEmpty, PathTypeOK
  <2>2. AttachedAreOpen' /\ Committing'
    BY <1>1, <1>4 DEF AttachedAreOpen, Committing
  <2>3. AnsweredIsStored'
    BY <1>4 DEF AnsweredIsStored, Answered, DurabilityInv
  <2> QED BY <2>1, <2>2, <2>3
<1> QED
  BY <1>11, <1>12, <1>13 DEF DurabilityInv

(***************************************************************************)
(* The merge in respond_hsm_request makes the node's memory exactly what   *)
(* the signer knows: nothing a signer returns is older than the memory.    *)
(***************************************************************************)
LEMMA MergeKeeps ==
    ASSUME OneSigner, DurabilityInv, TypeOK', NEW s \in Signers, RespondMerge(s)
    PROVE  DurabilityInv'
<1>1. PathTypeOK /\ History /\ Responses
  BY TypeOKSplit DEF DurabilityInv
<1>2. UNCHANGED <<reply, store, chan, task, open, local, attached, outbox>>
  BY DEF RespondMerge, stageVars, streamVars, signerVars
<1>3. memory \in State /\ store \in State /\ local[s] \in State
  BY <1>1 DEF PathTypeOK
<1>4. /\ outbox[s].state = local[s]
      /\ Reflects(local[s], Touches[outbox[s].req], outbox[s].req)
      /\ Below(memory, local[s]) /\ Below(FreshState, local[s])
  BY <1>1 DEF RespondMerge, Responses, History, Behind
<1>5. memory' = local[s]
  BY <1>3, <1>4, MergeFuture DEF RespondMerge
<1>6. \A t \in Streams : Underway(t)' = Underway(t)
  BY <1>2, UnderwayUnchanged
<1>7. History'
  <2>1. Below(store, memory)' /\ Rooted(memory)' /\ Rooted(store)'
    <3>1. Below(store, local[s])
      BY <1>1, <1>3, <1>4, BelowTransitive DEF History
    <3>2. Rooted(local[s])
      BY <1>4 DEF Rooted, Below
    <3> QED BY <1>1, <1>2, <1>5, <3>1, <3>2 DEF History
  <2>2. ASSUME NEW t \in Streams, NEW a \in Underway(t)' PROVE Below(a, memory)'
    <3>1. a \in State /\ Below(a, memory)
      BY <1>1, <1>6, <2>2, UnderwayTypes DEF History
    <3> QED BY <1>3, <1>4, <1>5, <3>1, BelowTransitive
  <2>3. ASSUME NEW u \in Signers
        PROVE (Below(FreshState, local[u]) /\ (Below(memory, local[u]) \/ Behind(u)))'
    <3>1. u = s
      BY DEF OneSigner
    <3> QED BY <1>2, <1>3, <1>4, <1>5, <3>1, BelowReflexive
  <2> QED BY <2>1, <2>2, <2>3 DEF History
<1>8. Responses'
  BY <1>1, <1>2 DEF Responses
<1>9. Committing'
  <2>1. commit'.phase = "write" /\ commit'.req = outbox[s].req
    BY DEF RespondMerge
  <2> QED BY <1>4, <1>5, <2>1 DEF Committing
<1>10. ClosedAreEmpty' /\ AttachedAreOpen' /\ AnsweredIsStored'
  BY <1>2 DEF ClosedAreEmpty, AttachedAreOpen, AnsweredIsStored, Answered, DurabilityInv
<1> QED
  BY <1>7, <1>8, <1>9, <1>10 DEF DurabilityInv

\* The write brings the store up to the memory.
LEMMA WriteKeeps ==
    ASSUME WriteIsDurable, DurabilityInv, TypeOK', RespondWrite
    PROVE  DurabilityInv'
<1>1. PathTypeOK /\ History /\ Responses /\ Committing
  BY TypeOKSplit DEF DurabilityInv
<1>2. UNCHANGED <<reply, memory, chan, task, open, local, attached, outbox>>
  BY DEF RespondWrite, stageVars, streamVars, signerVars
<1>3. store' = memory /\ commit'.phase = "reply" /\ commit'.req = commit.req
  BY <1>1 DEF RespondWrite, PathTypeOK
<1>4. memory \in State /\ store \in State
  BY <1>1 DEF PathTypeOK
<1>5. \A t \in Streams : Underway(t)' = Underway(t)
  BY <1>2, UnderwayUnchanged
<1>6. \A s \in Signers : Behind(s)' = Behind(s)
  BY <1>2, <1>5 DEF Behind
<1>7. History'
  <2>1. Below(store, memory)' /\ Rooted(memory)' /\ Rooted(store)'
    BY <1>1, <1>2, <1>3, <1>4, BelowReflexive DEF History
  <2>2. (\A t \in Streams : \A a \in Underway(t) : Below(a, memory))'
    BY <1>1, <1>2, <1>5 DEF History
  <2>3. (\A s \in Signers : Below(FreshState, local[s]) /\ (Below(memory, local[s]) \/ Behind(s)))'
    BY <1>1, <1>2, <1>6 DEF History
  <2> QED BY <2>1, <2>2, <2>3 DEF History
<1>8. Responses' /\ Committing'
  BY <1>1, <1>2, <1>3 DEF Responses, Committing, RespondWrite
<1>9. AnsweredIsStored'
  <2>1. ASSUME NEW c \in Answered PROVE Reflects(memory, Touches[c], c)
    <3>1. Reflects(store, Touches[c], c) /\ c \in Req
      BY PathAssumption DEF DurabilityInv, AnsweredIsStored, Answered
    <3> QED BY <1>1, <1>4, <3>1, RequestKeys, BelowReflects DEF History
  <2> QED BY <1>2, <1>3, <2>1 DEF AnsweredIsStored, Answered
<1>10. ClosedAreEmpty' /\ AttachedAreOpen'
  BY <1>2 DEF ClosedAreEmpty, AttachedAreOpen, DurabilityInv
<1> QED
  BY <1>7, <1>8, <1>9, <1>10 DEF DurabilityInv

\* A signer that starts anew is behind until it hears the heartbeat.
LEMMA SignerRestartKeeps ==
    ASSUME OneSigner, DurabilityInv, TypeOK', NEW s \in Signers, SignerRestarts(s)
    PROVE  DurabilityInv'
<1>1. PathTypeOK /\ History /\ Responses /\ Committing /\ ClosedAreEmpty
  BY TypeOKSplit DEF DurabilityInv
<1>2. UNCHANGED <<reply, memory, store, task>> /\ Detach(s)
  BY DEF SignerRestarts, stageVars
<1>3. /\ attached'[s] = None /\ outbox'[s].kind = "none" /\ local'[s] = FreshState
      /\ open' = open \ {attached[s]}
      /\ chan' = [t \in Streams |-> IF t = attached[s] THEN <<>> ELSE chan[t]]
      /\ commit'.phase = commit.phase /\ commit'.req = commit.req
  BY <1>1, <1>2 DEF SignerRestarts, Detach, PathTypeOK, NoResponse
<1>4. \A u \in Signers : u = s
  BY DEF OneSigner
<1>5. \A t \in Streams : Underway(t)' \subseteq Underway(t)
  BY <1>2, <1>3, StatesOfEmpty DEF Underway
<1>6. History'
  <2>1. (Below(store, memory) /\ Rooted(memory) /\ Rooted(store))'
    BY <1>1, <1>2 DEF History
  <2>2. (\A t \in Streams : \A a \in Underway(t) : Below(a, memory))'
    BY <1>1, <1>2, <1>5 DEF History
  <2>3. Behind(s)'
    BY <1>3, PathAssumption DEF Behind
  <2>4. Below(FreshState, local'[s])
    BY <1>3, StartStates, BelowReflexive
  <2> QED BY <1>4, <2>1, <2>2, <2>3, <2>4 DEF History
<1>7. Responses' /\ Committing' /\ AnsweredIsStored'
  BY <1>1, <1>2, <1>3, <1>4 DEF Responses, Committing, AnsweredIsStored, Answered, DurabilityInv
<1>8. ClosedAreEmpty' /\ AttachedAreOpen'
  BY <1>1, <1>3, <1>4 DEF ClosedAreEmpty, AttachedAreOpen
<1> QED
  BY <1>6, <1>7, <1>8 DEF DurabilityInv

\* The node comes back with the store, which the signer is not behind of.
LEMMA NodeRestartKeeps ==
    ASSUME DurabilityInv, TypeOK', NodeRestarts
    PROVE  DurabilityInv'
<1>1. PathTypeOK /\ History
  BY TypeOKSplit DEF DurabilityInv
<1>2. /\ memory' = store /\ UNCHANGED <<store, local>>
      /\ commit'.phase = "idle"
      /\ \A t \in Streams : chan'[t] = <<>> /\ task'[t].pc = "off"
      /\ \A s \in Signers : attached'[s] = None /\ outbox'[s].kind = "none"
  BY DEF NodeRestarts, NoCommit, NoTask, NoResponse
<1>3. Answered' = Answered
  BY DEF NodeRestarts, Answered
<1>4. \A t \in Streams : Underway(t)' = {}
  BY <1>2, StatesOfEmpty DEF Underway
<1>5. memory \in State /\ store \in State /\ \A s \in Signers : local[s] \in State
  BY <1>1 DEF PathTypeOK
<1>6. History'
  <2>1. Below(store, memory)' /\ Rooted(memory)' /\ Rooted(store)'
    BY <1>1, <1>2, <1>5, BelowReflexive DEF History
  <2>2. ASSUME NEW s \in Signers
        PROVE (Below(FreshState, local[s]) /\ (Below(memory, local[s]) \/ Behind(s)))'
    <3>1. CASE Below(memory, local[s])
      <4>1. Below(store, local[s])
        BY <1>1, <1>5, <3>1, BelowTransitive DEF History
      <4> QED BY <1>1, <1>2, <4>1 DEF History
    <3>2. CASE Behind(s)
      <4>1. Behind(s)'
        BY <1>2, <3>2, PathAssumption DEF Behind
      <4> QED BY <1>1, <1>2, <4>1 DEF History
    <3> QED BY <1>1, <3>1, <3>2 DEF History
  <2> QED BY <1>4, <2>1, <2>2 DEF History
<1>7. Responses' /\ Committing' /\ AnsweredIsStored'
  BY <1>2, <1>3 DEF Responses, Committing, AnsweredIsStored, DurabilityInv
<1>8. ClosedAreEmpty' /\ AttachedAreOpen'
  BY <1>2 DEF ClosedAreEmpty, AttachedAreOpen
<1> QED
  BY <1>6, <1>7, <1>8 DEF DurabilityInv

-----------------------------------------------------------------------------
(* The theorems                                                            *)

LEMMA DurabilityStarts == Init => DurabilityInv
<1> SUFFICES ASSUME Init PROVE DurabilityInv
  OBVIOUS
<1>1. TypeOK
  <2>1. <<>> \in Seq(Calls) /\ <<>> \in Seq(Message)
    OBVIOUS
  <2>2. StageTypeOK
    BY <2>1 DEF Init, StageInit, StageTypeOK, ReplyStates
  <2>3. PathTypeOK
    BY ResetValues, StartStates, PathAssumption DEF Init, PathTypeOK
  <2> QED BY <2>2, <2>3, TypeOKSplit
<1>2. \A t \in Streams : Underway(t) = {}
  BY StatesOfEmpty DEF Init, Underway, NoTask
<1>3. History
  <2>1. Below(store, memory) /\ Rooted(memory) /\ Rooted(store)
    BY StartStates, BelowReflexive DEF Init, Rooted, EmptyState
  <2>2. \A s \in Signers : Below(FreshState, local[s]) /\ Behind(s)
    BY StartStates, BelowReflexive, PathAssumption DEF Init, Behind, NoResponse
  <2> QED BY <1>2, <2>1, <2>2 DEF History
<1>4. Responses /\ Committing /\ AnsweredIsStored /\ ClosedAreEmpty /\ AttachedAreOpen
  BY DEF Init, StageInit, Responses, Committing, AnsweredIsStored, Answered, ClosedAreEmpty,
         AttachedAreOpen, NoResponse, NoCommit
<1> QED
  BY <1>1, <1>3, <1>4 DEF DurabilityInv

LEMMA DurabilityKept ==
    ASSUME OneSigner, WriteIsDurable, DurabilityInv, [Next]_vars
    PROVE  DurabilityInv'
<1>1. TypeOK'
  BY StageTypeKept, PathTypeKept DEF DurabilityInv, TypeOK, PathTypeOK
<1>2. ASSUME NEW s \in Signers, NEW t \in Streams, SignerAccepts(s, t) \/ SignerRejects(s, t)
      PROVE  DurabilityInv'
  BY <1>1, <1>2, SignerKeeps
<1>3. ASSUME NEW s \in Signers, RespondMerge(s) PROVE DurabilityInv'
  BY <1>1, <1>3, MergeKeeps
<1>4. ASSUME NEW s \in Signers, SignerRestarts(s) PROVE DurabilityInv'
  BY <1>1, <1>4, SignerRestartKeeps
<1>5. CASE RespondWrite
  BY <1>1, <1>5, WriteKeeps
<1>6. CASE NodeRestarts
  BY <1>1, <1>6, NodeRestartKeeps
<1>7. CASE ~(\/ \E s \in Signers, t \in Streams : SignerAccepts(s, t) \/ SignerRejects(s, t)
             \/ \E s \in Signers : RespondMerge(s) \/ SignerRestarts(s)
             \/ RespondWrite \/ NodeRestarts)
  BY <1>1, <1>7, QuietActions DEF Next, RespondHandler
<1> QED
  BY <1>2, <1>3, <1>4, <1>5, <1>6, <1>7

(***************************************************************************)
(* The copies of the state are points of one history, always.              *)
(***************************************************************************)
LEMMA DurabilityInvariant ==
    ASSUME OneSigner, WriteIsDurable
    PROVE  Spec => []DurabilityInv
<1>1. DurabilityInv /\ [Next]_vars => DurabilityInv'
  BY DurabilityKept
<1> QED
  BY <1>1, DurabilityStarts, PTL DEF Spec

(***************************************************************************)
(* respond_hsm_request never lets lightningd go on before the change it    *)
(* goes on from would survive a crash.                                     *)
(***************************************************************************)
THEOREM AnswersAreDurable ==
    ASSUME OneSigner, WriteIsDurable
    PROVE  Spec => []AnsweredIsStored
<1>1. DurabilityInv => AnsweredIsStored
  BY DEF DurabilityInv
<1> QED
  BY <1>1, DurabilityInvariant, PTL

(***************************************************************************)
(* Whoever restarts, store, node and signer hold points of one history, so *)
(* that State::merge loses nothing by looking at versions only.            *)
(***************************************************************************)
THEOREM OneHistory ==
    ASSUME OneSigner, WriteIsDurable
    PROVE  Spec => []CopiesAgree
<1>1. DurabilityInv => CopiesAgree
  <2>1. ASSUME DurabilityInv PROVE History
    BY <2>1 DEF DurabilityInv
  <2>2. ASSUME History, NEW s \in Signers PROVE Comparable(local[s], memory)
    <3>1. CASE Below(memory, local[s])
      BY <3>1 DEF Comparable, Below
    <3>2. CASE Behind(s)
      <4>1. ASSUME NEW k \in Keys, memory[k] = Absent
            PROVE  Precedes(memory[k], FreshState[k])
        BY <4>1 DEF Absent, FreshState, Precedes
      <4> QED BY <2>2, <3>2, <4>1 DEF History, Rooted, Comparable, Behind
    <3> QED BY <2>2, <3>1, <3>2 DEF History
  <2>3. ASSUME History PROVE Comparable(store, memory)
    BY <2>3 DEF History, Comparable, Below
  <2> QED BY <2>1, <2>2, <2>3 DEF CopiesAgree
<1> QED
  BY <1>1, DurabilityInvariant, PTL

(***************************************************************************)
(* StateStore::write never replaces an entry by an older one.              *)
(***************************************************************************)
THEOREM StoreOnlyAdvances ==
    ASSUME OneSigner, WriteIsDurable
    PROVE  Spec => StoreNeverRegresses
<1>1. ASSUME DurabilityInv, [Next]_vars
      PROVE  \A k \in Keys : Precedes(store[k], store'[k])
  <2>1. store \in State /\ Below(store, memory)
    BY <1>1, TypeOKSplit DEF DurabilityInv, PathTypeOK, History
  <2>2. store' = store \/ store' = memory
    BY <1>1 DEF Next, StreamTask, RespondHandler, HsmRequest, HsmRequestCanned, TaskHeartbeat,
       TaskNext, TaskSnapshot, TaskLocksConfig, TaskSend, TaskSendFails, TaskLagged, Attach, SignerAccepts,
       SignerRejects, SignerStreamEnds, RespondError, RespondMerge, RespondWrite, RespondReply,
       RespondDropped, RespondWriteFails, SignerDisconnects, SignerRestarts, NodeRestarts,
       pluginVars, pathVars, vars
  <2> QED BY <2>1, <2>2, BelowReflexive DEF Below
<1>2. DurabilityInv /\ [Next]_vars => [\A k \in Keys : Precedes(store[k], store'[k])]_vars
  BY <1>1
<1> QED
  BY <1>2, DurabilityInvariant, PTL DEF Spec, StoreNeverRegresses

(***************************************************************************)
(* Signer::process_request never signs from before an answered call: a     *)
(* signer with an empty memory is brought up to date by the request.       *)
(***************************************************************************)
THEOREM SignsOnTheLatest ==
    ASSUME OneSigner, WriteIsDurable
    PROVE  Spec => SignsOnLatestState
<1> DEFINE Signs == \A s \in Signers :
               outbox[s].kind # "ok" /\ outbox'[s].kind = "ok" =>
                   \A c \in Answered : Reflects(outbox'[s].state, Touches[c], c)
<1>1. ASSUME DurabilityInv, [Next]_vars, NEW s \in Signers,
             outbox[s].kind # "ok", outbox'[s].kind = "ok", NEW c \in Answered
      PROVE  Reflects(outbox'[s].state, Touches[c], c)
  <2>1. DurabilityInv' /\ PathTypeOK
    BY <1>1, DurabilityKept, TypeOKSplit DEF DurabilityInv
  <2>2. outbox'[s].state = local'[s] /\ (Below(memory, local[s]) \/ Behind(s))'
    BY <1>1, <2>1 DEF DurabilityInv, Responses, History
  <2>3. Below(memory, local[s])'
    BY <1>1, <2>2 DEF Behind
  <2>4. PICK t \in Streams : SignerAccepts(s, t)
    <3>1. \A r \in Signers : NoResponse.kind # "ok" /\ r = s
      BY DEF NoResponse, OneSigner
    <3>2. outbox'[s] # outbox[s] /\ outbox'[s] # NoResponse
      BY <1>1, <3>1
    <3>3. ASSUME NEW t \in Streams, SignerRejects(s, t) PROVE FALSE
      <4>1. outbox'[s].kind = "error"
        BY <2>1, <3>3 DEF SignerRejects, PathTypeOK
      <4> QED BY <1>1, <4>1
    <3>4. ASSUME NEW r \in Signers, RespondError(r) \/ SignerDisconnects(r) \/ SignerRestarts(r)
          PROVE  FALSE
      BY <2>1, <3>1, <3>2, <3>4 DEF RespondError, Return, SignerDisconnects, SignerRestarts,
         Detach, PathTypeOK
    <3>5. CASE RespondReply \/ RespondWriteFails
      BY <2>1, <3>2, <3>5 DEF RespondReply, RespondWriteFails, Return, PathTypeOK
    <3>6. CASE NodeRestarts
      BY <3>2, <3>6 DEF NodeRestarts
    <3> QED BY <1>1, <3>1, <3>2, <3>3, <3>4, <3>5, <3>6
       DEF Next, StreamTask, RespondHandler, HsmRequest, HsmRequestCanned, TaskHeartbeat,
       TaskNext, TaskSnapshot, TaskLocksConfig, TaskSend, TaskSendFails, TaskLagged, Attach, SignerStreamEnds,
       RespondMerge, RespondWrite, RespondDropped, signerVars, pathVars, vars
  <2>5. memory' = memory /\ Below(memory, local'[s])
    BY <2>3, <2>4 DEF SignerAccepts, pluginVars
  <2>6. store \in State /\ memory \in State /\ local'[s] \in State /\ Below(store, memory)
    BY <1>1, <2>1, TypeOKSplit DEF DurabilityInv, History, TypeOK, PathTypeOK
  <2>7. Reflects(store, Touches[c], c) /\ Touches[c] \in SUBSET Keys
    BY <1>1, RequestKeys, PathAssumption DEF DurabilityInv, AnsweredIsStored, Answered
  <2>8. Reflects(local'[s], Touches[c], c)
    BY <2>5, <2>6, <2>7, BelowReflects
  <2> QED BY <2>2, <2>8
<1>2. DurabilityInv /\ [Next]_vars => [Signs]_vars
  BY <1>1 DEF Signs
<1> HIDE DEF Signs
<1>3. Spec => [][Signs]_vars
  BY <1>2, DurabilityInvariant, PTL DEF Spec
<1> QED
  BY <1>3 DEF Signs, SignsOnLatestState

-----------------------------------------------------------------------------
(* The refinement                                                          *)

\* What a change of the replies alone does to the record.
LEMMA RecordedIs ==
    ASSUME NEW c
    PROVE  c \in Recorded <=>
              /\ c \in Calls /\ c \notin Canned /\ reply[c] # "idle"
              /\ Reflects(store, Touches[c], c)
BY DEF Recorded

\* The store cannot reflect a call that was not asked, if it has an effect.
LEMMA NotYetRecorded ==
    ASSUME OnlyAsked, NEW c \in Calls, reply[c] = "idle", Reflects(store, Touches[c], c)
    PROVE  Touches[c] = {}
<1> SUFFICES ASSUME NEW k \in Touches[c] PROVE FALSE
  OBVIOUS
<1>1. k \in Keys /\ c # Heartbeat
  BY PathAssumption
<1>2. store[k].val \subseteq Asked
  BY <1>1 DEF OnlyAsked, PathOver, StateOver
<1> QED
  BY <1>1, <1>2 DEF Reflects, Asked

LEMMA AskIsAsk ==
    ASSUME OnlyAsked, NEW c \in Calls, HsmRequest(c)
    PROVE  Promise!Ask(c)
<1>1. /\ c \notin Canned /\ reply[c] = "idle" /\ store' = store
      /\ reply' = [reply EXCEPT ![c] = "waiting"]
      /\ reply \in [Calls -> ReplyStates]
  BY TypeOKSplit DEF HsmRequest, Send, pathVars, OnlyAsked, StageTypeOK
<1>2. \A d \in Calls : d # c => reply'[d] = reply[d]
  BY <1>1
<1>3. reply'[c] = "waiting"
  BY <1>1
<1>4. ASSUME NEW d PROVE d \in Recorded' <=> d \in Recorded \/ (d = c /\ Touches[c] = {})
  <2>1. d \in Recorded' <=>
              /\ d \in Calls /\ d \notin Canned /\ reply'[d] # "idle"
              /\ Reflects(store, Touches[d], d)
    BY <1>1 DEF Recorded, Reflects
  <2>2. Touches[c] = {} => Reflects(store, Touches[c], c)
    BY DEF Reflects
  <2> QED BY <1>1, <1>2, <1>3, <2>1, <2>2, RecordedIs, NotYetRecorded
<1>5. Recorded' = IF c \in {d \in Calls : Touches[d] = {}} THEN Recorded \cup {c} ELSE Recorded
  BY <1>4
<1> QED
  BY <1>1, <1>5 DEF Promise!Ask

LEMMA WriteIsRecord ==
    ASSUME WriteIsDurable, DurabilityInv, RespondWrite
    PROVE  Recorded' \in SUBSET (Calls \ Canned) /\ Promise!Record(Recorded')
<1>1. reply' = reply /\ store' = memory /\ Below(store, memory)
  BY DEF RespondWrite, stageVars, DurabilityInv, History
<1>2. memory \in State /\ store \in State
  BY TypeOKSplit DEF DurabilityInv, PathTypeOK
<1>3. ASSUME NEW c \in Recorded PROVE c \in Recorded'
  <2>1. c \in Calls \ Canned /\ reply[c] # "idle" /\ Reflects(store, Touches[c], c)
    BY <1>3 DEF Recorded
  <2>2. c \in Req /\ Touches[c] \in SUBSET Keys
    BY <2>1, PathAssumption
  <2>3. Reflects(memory, Touches[c], c)
    BY <1>1, <1>2, <2>1, <2>2, BelowReflects
  <2> QED BY <1>1, <2>1, <2>3 DEF Recorded
<1>4. Recorded' \subseteq Calls \ Canned /\ \A c \in Recorded' : reply[c] # "idle"
  BY <1>1 DEF Recorded
<1>5. Recorded' = Recorded \cup Recorded'
  BY <1>3
<1> QED
  BY <1>1, <1>4, <1>5 DEF Promise!Record

\* An answer releases a caller that waits for it, or nobody.
LEMMA ReplyIsAnswer ==
    ASSUME DurabilityInv, OnlyAsked, RespondReply
    PROVE  (\E c \in Calls : Promise!Answer(c)) \/ UNCHANGED <<reply, Recorded>>
<1> DEFINE c == commit.req
<1>1. /\ requests \subseteq Calls /\ reply \in [Calls -> ReplyStates]
      /\ store' = store
      /\ reply' = IF c \in requests /\ reply[c] = "waiting"
                  THEN [reply EXCEPT ![c] = "answered"] ELSE reply
      /\ Reflects(store, Touches[c], c)
  BY TypeOKSplit DEF RespondReply, Respond, OnlyAsked, StageTypeOK, DurabilityInv, Committing
<1> HIDE DEF c
<1>2. \A d \in Calls : reply'[d] # "idle" <=> reply[d] # "idle"
  BY <1>1
<1>3. Recorded' = Recorded
  BY <1>1, <1>2 DEF Recorded, Reflects
<1>4. CASE c \in requests /\ reply[c] = "waiting"
  <2>1. c \in Calls /\ c \notin Canned
    BY <1>1, <1>4 DEF OnlyAsked
  <2>2. c \in Recorded
    BY <1>1, <1>4, <2>1 DEF Recorded
  <2> QED BY <1>1, <1>3, <1>4, <2>1, <2>2 DEF Promise!Answer
<1> QED
  BY <1>1, <1>3, <1>4

LEMMA OtherIsInvisible ==
    ASSUME UNCHANGED <<reply, store>>
    PROVE  UNCHANGED <<reply, Recorded>>
BY DEF Recorded, Reflects

LEMMA PromiseStep ==
    ASSUME WriteIsDurable, DurabilityInv, OnlyAsked, [Next]_vars
    PROVE  [Promise!Next]_(Promise!vars)
<1>1. reply \in [Calls -> ReplyStates]
  BY TypeOKSplit DEF OnlyAsked, StageTypeOK
<1>2. ASSUME NEW c \in Calls, HsmRequest(c) PROVE Promise!Next
  BY <1>2, AskIsAsk DEF Promise!Next
<1>3. ASSUME NEW c \in Calls, HsmRequestCanned(c) PROVE Promise!Next
  <2>1. /\ c \in Canned /\ reply[c] = "idle" /\ store' = store
        /\ reply' = [reply EXCEPT ![c] = "answered"]
    BY <1>3 DEF HsmRequestCanned, pathVars
  <2>2. \A d \in Calls \ Canned : reply'[d] = reply[d]
    BY <2>1
  <2>3. Recorded' = Recorded
    BY <2>1, <2>2 DEF Recorded, Reflects
  <2> QED BY <2>1, <2>3 DEF Promise!Next, Promise!AnswerLocally
<1>4. CASE RespondWrite
  BY <1>4, WriteIsRecord DEF Promise!Next
<1>5. CASE RespondReply
  BY <1>5, ReplyIsAnswer DEF Promise!Next, Promise!vars
<1>6. CASE NodeRestarts
  <2>1. /\ reply' = [c \in Calls |-> IF reply[c] = "waiting" THEN "gone" ELSE reply[c]]
        /\ store' = store
    BY <1>6 DEF NodeRestarts
  <2>2. \A c \in Calls : reply'[c] # "idle" <=> reply[c] # "idle"
    BY <1>1, <2>1
  <2>3. Recorded' = Recorded
    BY <2>1, <2>2 DEF Recorded, Reflects
  <2> QED BY <2>1, <2>3 DEF Promise!Next, Promise!Crash
<1>7. CASE UNCHANGED <<reply, store>>
  BY <1>7, OtherIsInvisible DEF Promise!vars
<1>8. ASSUME NEW t \in Streams, StreamTask(t) PROVE UNCHANGED <<reply, store>>
  BY <1>8 DEF StreamTask, TaskHeartbeat, TaskNext, StreamNext, TaskSnapshot, TaskLocksConfig,
     TaskSend, TaskSendFails, TaskLagged, StreamLagged, DropStream, pluginVars, stageVars
<1>9. ASSUME NEW s \in Signers, NEW t \in Streams,
             Attach(s, t) \/ SignerAccepts(s, t) \/ SignerRejects(s, t) \/ SignerStreamEnds(s, t)
      PROVE  UNCHANGED <<reply, store>>
  BY <1>9 DEF Attach, MyStream, SignerAccepts, SignerRejects, SignerStreamEnds, pluginVars,
     stageVars
<1>10. ASSUME NEW s \in Signers,
              RespondError(s) \/ RespondMerge(s) \/ SignerDisconnects(s) \/ SignerRestarts(s)
       PROVE  UNCHANGED <<reply, store>>
  BY <1>10 DEF RespondError, RespondMerge, SignerDisconnects, SignerRestarts, pluginVars,
     stageVars
<1>11. CASE RespondDropped \/ RespondWriteFails \/ UNCHANGED vars
  BY <1>7, <1>11 DEF RespondDropped, RespondWriteFails, stageVars, pathVars, vars
<1> QED
  BY <1>2, <1>3, <1>4, <1>5, <1>6, <1>7, <1>8, <1>9, <1>10, <1>11 DEF Next, RespondHandler

(***************************************************************************)
(* hsmproxy, stage, streams, signer and respond_hsm_request together are   *)
(* the durable signer lightningd counts on: a call is answered at most     *)
(* once, never before its change is recorded, and no record is ever lost.  *)
(***************************************************************************)
THEOREM PathKeepsPromise ==
    ASSUME OneSigner, WriteIsDurable
    PROVE  Spec => KeepsPromise
<1>1. Init => Promise!Init
  BY DEF Init, StageInit, Promise!Init, Recorded
<1>2. DurabilityInv /\ OnlyAsked /\ [Next]_vars => [Promise!Next]_(Promise!vars)
  BY PromiseStep
<1> QED
  BY <1>1, <1>2, DurabilityInvariant, OnlyAskedInvariant, PTL
     DEF Spec, KeepsPromise, Promise!Spec

=============================================================================
