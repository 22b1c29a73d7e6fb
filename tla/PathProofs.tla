---------------------------- MODULE PathProofs ----------------------------
(***************************************************************************)
(* Proofs about the signing path, for any number of calls, streams and     *)
(* keys, any capacities and any number of faults.  First about the two     *)
(* modules it is composed of: that the stage loses and repeats nothing,    *)
(* and what State::merge and the persister's updates do to a signer state; *)
(* then about the path itself.                                             *)
(***************************************************************************)
EXTENDS SigningPath, TLAPS

-----------------------------------------------------------------------------
(* The stage                                                               *)

\* Sending appends to what is queued, receiving takes from it.
LEMMA QueuedAfterAppend ==
    ASSUME NEW q \in Seq(Calls), NEW c \in Calls
    PROVE  /\ Append(q, c) \in Seq(Calls)
           /\ {Append(q, c)[i] : i \in 1..Len(Append(q, c))} = {q[i] : i \in 1..Len(q)} \cup {c}
<1> DEFINE p == Append(q, c)
<1>1. /\ p \in Seq(Calls)
      /\ Len(p) = Len(q) + 1
      /\ Len(q) \in Nat
      /\ \A i \in 1..Len(q) : p[i] = q[i]
      /\ p[Len(q) + 1] = c
  OBVIOUS
<1>2. 1..Len(p) = (1..Len(q)) \cup {Len(q) + 1}
  BY <1>1
<1> QED
  BY <1>1, <1>2, Zenon

LEMMA QueuedBeforeTail ==
    ASSUME NEW q \in Seq(Calls), q # <<>>
    PROVE  /\ Tail(q) \in Seq(Calls)
           /\ Head(q) \in Calls
           /\ {q[i] : i \in 1..Len(q)} = {Tail(q)[i] : i \in 1..Len(Tail(q))} \cup {Head(q)}
<1>1. /\ Tail(q) \in Seq(Calls)
      /\ Head(q) \in Calls
      /\ Head(q) = q[1]
      /\ Len(q) \in Nat \ {0}
      /\ Len(Tail(q)) = Len(q) - 1
      /\ \A i \in 1..Len(Tail(q)) : Tail(q)[i] = q[i + 1]
  OBVIOUS
<1>2. \A i \in 1..Len(q) : i = 1 \/ (i - 1 \in 1..Len(Tail(q)) /\ q[i] = Tail(q)[i - 1])
  BY <1>1
<1>3. \A i \in 1..Len(Tail(q)) : i + 1 \in 1..Len(q)
  BY <1>1
<1>4. ASSUME NEW i \in 1..Len(q)
      PROVE  q[i] \in {Tail(q)[j] : j \in 1..Len(Tail(q))} \cup {Head(q)}
  BY <1>1, <1>2
<1>5. ASSUME NEW j \in 1..Len(Tail(q))
      PROVE  Tail(q)[j] \in {q[i] : i \in 1..Len(q)}
  BY <1>1, <1>3
<1>6. Head(q) \in {q[i] : i \in 1..Len(q)}
  BY <1>1
<1> QED
  BY <1>1, <1>4, <1>5, <1>6

-----------------------------------------------------------------------------

(***************************************************************************)
(* The state of the stage keeps its shape: each of its operations.         *)
(***************************************************************************)
LEMMA StageStepType ==
    ASSUME StageTypeOK, [StageNext]_stageVars
    PROVE  StageTypeOK'
<1> USE DEF StageTypeOK, ReplyStates
<1>1. ASSUME NEW c \in Calls, Send(c) PROVE StageTypeOK'
  <2>1. \A t \in Streams : Append(queue[t], c) \in Seq(Calls)
    BY QueuedAfterAppend
  <2> QED BY <1>1, <2>1 DEF Send
<1>2. ASSUME NEW c \in Calls, Cancel(c) PROVE StageTypeOK'
  BY <1>2 DEF Cancel
<1>3. ASSUME NEW c \in Calls, Respond(c) PROVE StageTypeOK'
  BY <1>3 DEF Respond
<1>4. ASSUME NEW t \in Streams, MyStream(t) PROVE StageTypeOK'
  <2>1. <<>> \in Seq(Calls) OBVIOUS
  <2> QED BY <1>4, <2>1 DEF MyStream
<1>5. ASSUME NEW t \in Streams, DropStream(t) PROVE StageTypeOK'
  <2>1. <<>> \in Seq(Calls) OBVIOUS
  <2> QED BY <1>5, <2>1 DEF DropStream
<1>6. ASSUME NEW t \in Streams, StreamLagged(t) PROVE StageTypeOK'
  BY <1>5, <1>6 DEF StreamLagged
<1>7. ASSUME NEW t \in Streams, NEW c \in Calls, StreamNext(t, c) PROVE StageTypeOK'
  <2>1. queue[t] # <<>> => Tail(queue[t]) \in Seq(Calls)
    BY QueuedBeforeTail
  <2> QED BY <1>7, <2>1 DEF StreamNext
<1>8. CASE UNCHANGED stageVars
  BY <1>8 DEF stageVars
<1> QED
  BY <1>1, <1>2, <1>3, <1>4, <1>5, <1>6, <1>7, <1>8 DEF StageNext

(***************************************************************************)
(* The variables of Stage, StageStream and the callers' channels hold      *)
(* values of their types in every reachable state.                         *)
(***************************************************************************)
THEOREM StageTypeCorrect == StageSpec => []StageTypeOK
<1>1. StageInit => StageTypeOK
  <2>1. <<>> \in Seq(Calls) OBVIOUS
  <2> QED BY <2>1 DEF StageInit, StageTypeOK, ReplyStates
<1>2. StageTypeOK /\ [StageNext]_stageVars => StageTypeOK'
  BY StageStepType
<1> QED
  BY <1>1, <1>2, PTL DEF StageSpec

-----------------------------------------------------------------------------

(***************************************************************************)
(* What makes the next invariants inductive: a request that is staged, or  *)
(* on its way to a stream, has been sent, so no later `send' repeats it.   *)
(***************************************************************************)
Sent == {c \in Calls : reply[c] # "idle"}

OnlySent ==
    /\ requests \subseteq Sent
    /\ \A t \in live : backlog[t] \cup Queued(t) \cup given[t] \subseteq Sent

StageInv ==
    /\ StageTypeOK
    /\ OnlySent
    /\ StreamsCoverStage
    /\ NeverTwicePerStream
    /\ WaitersAreStaged

\* What each operation does to the messages queued for a stream.
LEMMA QueuedStep ==
    ASSUME StageTypeOK, NEW u \in Streams
    PROVE  /\ \A c \in Calls : Send(c) /\ u \in live => Queued(u)' = Queued(u) \cup {c}
           /\ UNCHANGED queue => Queued(u)' = Queued(u)
           /\ queue'[u] = queue[u] => Queued(u)' = Queued(u)
           /\ queue'[u] = <<>> => Queued(u)' = {}
           /\ queue[u] # <<>> /\ queue'[u] = Tail(queue[u]) =>
                 Queued(u) = Queued(u)' \cup {Head(queue[u])}
<1> USE DEF StageTypeOK, Queued
<1>1. queue[u] \in Seq(Calls)
  OBVIOUS
<1>2. ASSUME NEW c \in Calls, Send(c), u \in live
      PROVE  Queued(u)' = Queued(u) \cup {c}
  <2>1. queue'[u] = Append(queue[u], c)
    BY <1>2 DEF Send
  <2>2. PICK q \in Seq(Calls) : q = queue[u]
    BY <1>1
  <2>3. {Append(q, c)[i] : i \in 1..Len(Append(q, c))} = {q[i] : i \in 1..Len(q)} \cup {c}
    BY QueuedAfterAppend
  <2>4. Queued(u) = {q[i] : i \in 1..Len(q)}
    BY <2>2, Zenon
  <2>5. Queued(u)' = {Append(q, c)[i] : i \in 1..Len(Append(q, c))}
    BY <2>1, <2>2, Zenon
  <2> QED BY <2>3, <2>4, <2>5, Zenon
<1>3. queue'[u] = <<>> => Queued(u)' = {}
  OBVIOUS
<1>4. ASSUME queue[u] # <<>>, queue'[u] = Tail(queue[u])
      PROVE  Queued(u) = Queued(u)' \cup {Head(queue[u])}
  <2> DEFINE p == Tail(queue[u])
  <2>1. {queue[u][i] : i \in 1..Len(queue[u])} = {p[i] : i \in 1..Len(p)} \cup {Head(queue[u])}
    BY <1>1, <1>4, QueuedBeforeTail, Zenon
  <2>2. Queued(u)' = {p[i] : i \in 1..Len(p)}
    BY <1>4, Zenon
  <2> QED BY <2>1, <2>2, Zenon
<1>5. ASSUME queue'[u] = queue[u]
      PROVE  Queued(u)' = Queued(u)
  BY <1>5, Zenon
<1>6. UNCHANGED queue => Queued(u)' = Queued(u)
  BY Zenon
<1> QED
  BY <1>2, <1>3, <1>4, <1>5, <1>6

\* No message twice in a queue: kept by sending something new, and by receiving.
NoRepeat(q) == \A i, j \in 1..Len(q) : q[i] = q[j] => i = j

LEMMA NoRepeatAfterAppend ==
    ASSUME NEW q \in Seq(Calls), NEW c \in Calls, NoRepeat(q),
           c \notin {q[i] : i \in 1..Len(q)}
    PROVE  NoRepeat(Append(q, c))
<1>1. \A i \in 1..Len(q) : q[i] # c
  OBVIOUS
<1> QED
  BY <1>1 DEF NoRepeat

LEMMA NoRepeatAfterTail ==
    ASSUME NEW q \in Seq(Calls), q # <<>>, NoRepeat(q)
    PROVE  /\ NoRepeat(Tail(q))
           /\ Head(q) \notin {Tail(q)[i] : i \in 1..Len(Tail(q))}
<1>1. /\ Head(q) = q[1]
      /\ Len(q) \in Nat \ {0}
      /\ Len(Tail(q)) = Len(q) - 1
      /\ \A i \in 1..Len(Tail(q)) : Tail(q)[i] = q[i + 1]
  OBVIOUS
<1> QED
  BY <1>1 DEF NoRepeat

(***************************************************************************)
(* The invariant, one attached stream at a time.                           *)
(***************************************************************************)
StreamInv(t) ==
    /\ backlog[t] \cup Queued(t) \cup given[t] \subseteq Sent
    /\ requests \subseteq backlog[t] \cup Queued(t) \cup given[t]
    /\ backlog[t] \cap Queued(t) = {}
    /\ given[t] \cap (backlog[t] \cup Queued(t)) = {}
    /\ NoRepeat(queue[t])

LEMMA StageInvByStream ==
    StageInv <=> /\ StageTypeOK
                 /\ requests \subseteq Sent
                 /\ \A t \in live : StreamInv(t)
                 /\ WaitersAreStaged
BY DEF StageInv, OnlySent, StreamsCoverStage, NeverTwicePerStream, StreamInv, NoRepeat

\* `send' reaches the streams that exist, and nothing they had seen before.
LEMMA SendKeepsStream ==
    ASSUME StageTypeOK, requests \subseteq Sent,
           NEW c \in Calls, Send(c),
           NEW u \in live, StreamInv(u)
    PROVE  StreamInv(u)'
<1>1. c \notin Sent /\ Sent' = Sent \cup {c}
  BY DEF Send, Sent, StageTypeOK
<1>2. u \in Streams /\ queue[u] \in Seq(Calls) /\ queue'[u] = Append(queue[u], c)
  BY DEF Send, StageTypeOK
<1>3. Queued(u)' = Queued(u) \cup {c}
  BY <1>2, QueuedStep
<1>4. NoRepeat(queue[u])'
  <2>1. NoRepeat(queue[u]) /\ c \notin {queue[u][i] : i \in 1..Len(queue[u])}
    BY <1>1 DEF StreamInv, Queued
  <2>2. NoRepeat(Append(queue[u], c))
    BY <2>1, <1>2, NoRepeatAfterAppend
  <2> QED BY <2>2, <1>2 DEF NoRepeat
<1>5. requests' = requests \cup {c} /\ backlog' = backlog /\ given' = given
  BY DEF Send
<1> QED
  BY <1>1, <1>3, <1>4, <1>5 DEF StreamInv

\* `next' moves one request from the backlog or the channel to its caller.
LEMMA NextKeepsStream ==
    ASSUME StageTypeOK, NEW t \in Streams, NEW c \in Calls, StreamNext(t, c),
           NEW u \in live, StreamInv(u)
    PROVE  StreamInv(u)'
<1>1. Sent' = Sent /\ requests' = requests /\ u \in Streams
  BY DEF StreamNext, Sent, StageTypeOK
<1>2. CASE t # u
  <2>1. backlog'[u] = backlog[u] /\ queue'[u] = queue[u] /\ given'[u] = given[u]
    BY <1>1, <1>2 DEF StreamNext, StageTypeOK
  <2>2. Queued(u)' = Queued(u)
    BY <2>1, <1>1, QueuedStep
  <2> QED BY <1>1, <2>1, <2>2 DEF StreamInv, NoRepeat
<1>3. CASE t = u /\ c \in backlog[t] /\ backlog' = [backlog EXCEPT ![t] = @ \ {c}] /\ UNCHANGED queue
  <2>1. backlog'[u] = backlog[u] \ {c} /\ queue'[u] = queue[u] /\ given'[u] = given[u] \cup {c}
    BY <1>1, <1>3 DEF StreamNext, StageTypeOK
  <2>2. Queued(u)' = Queued(u)
    BY <2>1, <1>1, QueuedStep
  <2> QED BY <1>1, <1>3, <2>1, <2>2 DEF StreamInv, NoRepeat
<1>4. CASE t = u /\ c \notin backlog[t]
  <2>1. /\ queue[u] # <<>> /\ c = Head(queue[u]) /\ queue'[u] = Tail(queue[u])
        /\ backlog'[u] = backlog[u] /\ given'[u] = given[u] \cup {c}
        /\ queue[u] \in Seq(Calls)
    BY <1>1, <1>4 DEF StreamNext, StageTypeOK
  <2>2. Queued(u) = Queued(u)' \cup {c}
    BY <2>1, <1>1, QueuedStep
  <2>3. NoRepeat(Tail(queue[u])) /\ c \notin {Tail(queue[u])[i] : i \in 1..Len(Tail(queue[u]))}
    BY <2>1, NoRepeatAfterTail DEF StreamInv
  <2>4. NoRepeat(queue[u])' /\ c \notin Queued(u)'
    BY <2>1, <2>3 DEF NoRepeat, Queued
  <2> QED BY <1>1, <2>1, <2>2, <2>4 DEF StreamInv
<1> QED
  BY <1>2, <1>3, <1>4 DEF StreamNext

\* A step that leaves stream u alone, and stages nothing.
LEMMA OtherKeepsStream ==
    ASSUME StageTypeOK, NEW u \in live, StreamInv(u),
           backlog'[u] = backlog[u], queue'[u] = queue[u], given'[u] = given[u],
           requests' \subseteq requests, Sent \subseteq Sent'
    PROVE  StreamInv(u)'
<1>1. Queued(u)' = Queued(u)
  BY QueuedStep DEF StageTypeOK
<1> QED
  BY <1>1 DEF StreamInv, NoRepeat

\* A stream that attaches begins with exactly what is staged.
LEMMA MyStreamStarts ==
    ASSUME StageTypeOK, requests \subseteq Sent, NEW t \in Streams, MyStream(t)
    PROVE  StreamInv(t)'
<1>1. /\ backlog'[t] = requests /\ queue'[t] = <<>> /\ given'[t] = {}
      /\ requests' = requests /\ Sent' = Sent
  BY DEF MyStream, StageTypeOK, Sent
<1>2. Queued(t)' = {}
  BY <1>1, QueuedStep
<1>3. NoRepeat(queue[t])'
  BY <1>1 DEF NoRepeat
<1> QED
  BY <1>1, <1>2, <1>3 DEF StreamInv

-----------------------------------------------------------------------------

(***************************************************************************)
(* Every operation of the stage keeps the invariant.                       *)
(***************************************************************************)
LEMMA StageStepInv ==
    ASSUME StageInv, [StageNext]_stageVars
    PROVE  StageInv'
<1>1. StageTypeOK /\ requests \subseteq Sent /\ WaitersAreStaged
  BY StageInvByStream
<1>2. \A u \in live : StreamInv(u)
  BY StageInvByStream
<1>3. StageTypeOK'
  BY <1>1, StageStepType
<1> DEFINE Goal == /\ (requests \subseteq Sent)'
                   /\ (\A u \in live : StreamInv(u))'
                   /\ WaitersAreStaged'
<1>4. ASSUME NEW c \in Calls, Send(c) PROVE Goal
  <2>1. requests' = requests \cup {c} /\ live' = live
    BY <1>4 DEF Send
  <2>2. reply' = [reply EXCEPT ![c] = "waiting"]
    BY <1>4 DEF Send
  <2>3. (requests \subseteq Sent)' /\ WaitersAreStaged'
    BY <1>1, <2>1, <2>2 DEF Sent, StageTypeOK, WaitersAreStaged
  <2>4. ASSUME NEW u \in live' PROVE StreamInv(u)'
    BY <1>1, <1>2, <1>4, <2>1, SendKeepsStream
  <2> QED BY <2>3, <2>4
<1>5. ASSUME NEW c \in Calls, Cancel(c) \/ Respond(c) PROVE Goal
  <2>1. requests' \subseteq requests /\ live' = live
    BY <1>5 DEF Cancel, Respond
  <2>2. Sent \subseteq Sent' /\ WaitersAreStaged'
    BY <1>1, <1>5 DEF Cancel, Respond, Sent, StageTypeOK, WaitersAreStaged
  <2>3. backlog' = backlog /\ queue' = queue /\ given' = given
    BY <1>5 DEF Cancel, Respond
  <2>4. ASSUME NEW u \in live' PROVE StreamInv(u)'
    BY <1>1, <1>2, <2>1, <2>2, <2>3, OtherKeepsStream
  <2> QED BY <1>1, <2>1, <2>2, <2>4
<1>6. ASSUME NEW t \in Streams, MyStream(t) PROVE Goal
  <2>1. requests' = requests /\ reply' = reply /\ live' = live \cup {t}
    BY <1>6 DEF MyStream
  <2>2. Sent' = Sent /\ WaitersAreStaged'
    BY <1>1, <2>1 DEF Sent, WaitersAreStaged
  <2>3. ASSUME NEW u \in live, u # t PROVE StreamInv(u)'
    <3>1. backlog'[u] = backlog[u] /\ queue'[u] = queue[u] /\ given'[u] = given[u]
      BY <1>1, <1>6, <2>3 DEF MyStream, StageTypeOK
    <3> QED BY <3>1, <1>1, <1>2, <2>1, <2>2, OtherKeepsStream
  <2>4. StreamInv(t)'
    BY <1>1, <1>6, MyStreamStarts
  <2> QED BY <1>1, <2>1, <2>2, <2>3, <2>4
<1>7. ASSUME NEW t \in Streams, DropStream(t) PROVE Goal
  <2>1. requests' = requests /\ reply' = reply /\ live' = live \ {t}
    BY <1>7 DEF DropStream
  <2>2. Sent' = Sent /\ WaitersAreStaged'
    BY <1>1, <2>1 DEF Sent, WaitersAreStaged
  <2>3. ASSUME NEW u \in live' PROVE StreamInv(u)'
    <3>1. backlog'[u] = backlog[u] /\ queue'[u] = queue[u] /\ given'[u] = given[u]
      BY <1>1, <1>7, <2>1 DEF DropStream, StageTypeOK
    <3> QED BY <3>1, <1>1, <1>2, <2>1, <2>2, OtherKeepsStream
  <2> QED BY <1>1, <2>1, <2>2, <2>3
<1>8. ASSUME NEW t \in Streams, StreamLagged(t) PROVE Goal
  BY <1>7, <1>8 DEF StreamLagged
<1>9. ASSUME NEW t \in Streams, NEW c \in Calls, StreamNext(t, c) PROVE Goal
  <2>1. requests' = requests /\ reply' = reply /\ live' = live
    BY <1>9 DEF StreamNext
  <2>2. Sent' = Sent /\ WaitersAreStaged'
    BY <1>1, <2>1 DEF Sent, WaitersAreStaged
  <2>3. ASSUME NEW u \in live' PROVE StreamInv(u)'
    BY <1>1, <1>2, <1>9, <2>1, NextKeepsStream
  <2> QED BY <1>1, <2>1, <2>2, <2>3
<1>10. ASSUME UNCHANGED stageVars PROVE Goal
  <2>1. requests' = requests /\ Sent' = Sent /\ live' = live /\ WaitersAreStaged'
    BY <1>1, <1>10 DEF stageVars, Sent, WaitersAreStaged
  <2>2. backlog' = backlog /\ queue' = queue /\ given' = given
    BY <1>10 DEF stageVars
  <2>3. ASSUME NEW u \in live' PROVE StreamInv(u)'
    BY <1>1, <1>2, <2>1, <2>2, OtherKeepsStream
  <2> QED BY <1>1, <2>1, <2>3
<1>11. Goal
  <2> HIDE DEF Goal
  <2> QED BY <1>4, <1>5, <1>6, <1>7, <1>8, <1>9, <1>10 DEF StageNext
<1> QED
  BY <1>3, <1>11 DEF StageInv, OnlySent, StreamsCoverStage, NeverTwicePerStream, StreamInv, NoRepeat

LEMMA StageInvInductive == StageSpec => []StageInv
<1>1. StageInit => StageInv
  <2>1. <<>> \in Seq(Calls) OBVIOUS
  <2> QED BY <2>1 DEF StageInit, StageInv, StageTypeOK, ReplyStates, OnlySent, Sent,
                      StreamsCoverStage, NeverTwicePerStream, WaitersAreStaged
<1>2. StageInv /\ [StageNext]_stageVars => StageInv'
  BY StageStepInv
<1> QED
  BY <1>1, <1>2, PTL DEF StageSpec

(***************************************************************************)
(* However attaching, sending, responding and dropping interleave, what is *)
(* staged was handed out by each attached stream or is on its way to it.   *)
(***************************************************************************)
THEOREM NoStreamMissesARequest == StageSpec => []StreamsCoverStage
<1>1. StageInv => StreamsCoverStage
  BY DEF StageInv
<1> QED
  BY <1>1, StageInvInductive, PTL

(***************************************************************************)
(* No stream hands a request to its signer more than once.                 *)
(***************************************************************************)
THEOREM NoStreamRepeatsARequest == StageSpec => []NeverTwicePerStream
<1>1. StageInv => NeverTwicePerStream
  BY DEF StageInv
<1> QED
  BY <1>1, StageInvInductive, PTL

(***************************************************************************)
(* No caller is left waiting for a request that nobody will hand out.      *)
(***************************************************************************)
THEOREM NoWaiterIsForgotten == StageSpec => []WaitersAreStaged
<1>1. StageInv => WaitersAreStaged
  BY DEF StageInv
<1> QED
  BY <1>1, StageInvInductive, PTL

-----------------------------------------------------------------------------
(* The signer state                                                        *)

\* State a is in the past of state b, key by key.
Below(a, b) == \A k \in Keys : Precedes(a[k], b[k])

-----------------------------------------------------------------------------
(* Entries and states                                                      *)

LEMMA AbsentIsEntry == Absent \in Entry
BY DEF Absent, Entry, Version

LEMMA StartStates == EmptyState \in State /\ FreshState \in State
<1>1. [ver |-> 0, val |-> {}] \in Entry
  BY DEF Entry, Version
<1> QED
  BY <1>1, AbsentIsEntry DEF EmptyState, FreshState, State

LEMMA MergeType ==
    ASSUME NEW a \in State, NEW b \in State
    PROVE  Merge(a, b) \in State
BY DEF Merge, State

LEMMA TouchType ==
    ASSUME NEW a \in State, NEW K \in SUBSET Keys, NEW r \in Req
    PROVE  Touch(a, K, r) \in State
<1>1. ASSUME NEW k \in Keys
      PROVE  [ver |-> a[k].ver + 1, val |-> a[k].val \cup {r}] \in Entry
  BY DEF State, Entry, Version
<1> QED
  BY <1>1 DEF Touch, State

-----------------------------------------------------------------------------
(* The order of entries and of states                                      *)

LEMMA PrecedesReflexive ==
    ASSUME NEW e \in Entry
    PROVE  Precedes(e, e)
BY DEF Precedes, Entry, Version

LEMMA PrecedesTransitive ==
    ASSUME NEW d \in Entry, NEW e \in Entry, NEW f \in Entry,
           Precedes(d, e), Precedes(e, f)
    PROVE  Precedes(d, f)
BY DEF Precedes, Entry, Version

LEMMA BelowReflexive ==
    ASSUME NEW a \in State
    PROVE  Below(a, a)
BY PrecedesReflexive DEF Below, State

LEMMA BelowTransitive ==
    ASSUME NEW a \in State, NEW b \in State, NEW c \in State, Below(a, b), Below(b, c)
    PROVE  Below(a, c)
<1>1. ASSUME NEW k \in Keys PROVE Precedes(a[k], c[k])
  <2>1. a[k] \in Entry /\ b[k] \in Entry /\ c[k] \in Entry
    BY DEF State
  <2>2. Precedes(a[k], b[k]) /\ Precedes(b[k], c[k])
    BY DEF Below
  <2> QED BY <2>1, <2>2, PrecedesTransitive
<1> QED
  BY <1>1 DEF Below

\* What is reflected in a state is reflected in its future.
LEMMA BelowReflects ==
    ASSUME NEW a \in State, NEW b \in State, Below(a, b),
           NEW K \in SUBSET Keys, NEW r, Reflects(a, K, r)
    PROVE  Reflects(b, K, r)
BY DEF Below, Precedes, Reflects

-----------------------------------------------------------------------------
(* Merge                                                                   *)

(***************************************************************************)
(* A response that arrives twice changes nothing the second time.          *)
(***************************************************************************)
THEOREM MergeIdempotent ==
    ASSUME NEW a \in State, NEW b \in State
    PROVE  Merge(Merge(a, b), b) = Merge(a, b)
<1>1. \A k \in Keys : ~(b[k].ver > b[k].ver)
  BY DEF State, Entry, Version
<1> QED
  BY <1>1 DEF Merge

(***************************************************************************)
(* Merging one state after the other is merging their merge: it does not   *)
(* matter whether a snapshot went through the node on its way.             *)
(***************************************************************************)
THEOREM MergeAssociative ==
    ASSUME NEW a \in State, NEW b \in State, NEW c \in State
    PROVE  Merge(Merge(a, b), c) = Merge(a, Merge(b, c))
<1>1. ASSUME NEW k \in Keys PROVE Merge(Merge(a, b), c)[k] = Merge(a, Merge(b, c))[k]
  <2>1. a[k].ver \in Int /\ b[k].ver \in Int /\ c[k].ver \in Int
    BY DEF State, Entry, Version
  <2> QED BY <2>1 DEF Merge
<1> QED
  BY <1>1 DEF Merge

(***************************************************************************)
(* No merge lowers the version of an entry.                                *)
(***************************************************************************)
THEOREM MergeNeverLowers ==
    ASSUME NEW a \in State, NEW b \in State, NEW k \in Keys
    PROVE  Merge(a, b)[k].ver >= a[k].ver /\ Merge(a, b)[k].ver >= b[k].ver
BY DEF Merge, State, Entry, Version

(***************************************************************************)
(* State::diff names exactly the entries that State::merge would replace.  *)
(***************************************************************************)
THEOREM DiffIsWhatMergeTakes ==
    ASSUME NEW a \in State, NEW b \in State
    PROVE  Diff(a, b) = {k \in Keys : Merge(a, b)[k] # a[k]}
<1>1. ASSUME NEW k \in Keys PROVE a[k].ver < b[k].ver <=> Merge(a, b)[k] # a[k]
  <2>1. a[k].ver \in Int /\ b[k].ver \in Int
    BY DEF State, Entry, Version
  <2> QED BY <2>1 DEF Merge
<1> QED
  BY <1>1 DEF Diff

(***************************************************************************)
(* Of two states of one history the merge is their common future, whoever  *)
(* merges: the equal versions it skips are equal documents.                *)
(***************************************************************************)
THEOREM MergeOfComparable ==
    ASSUME NEW a \in State, NEW b \in State, Comparable(a, b)
    PROVE  /\ Merge(a, b) = Merge(b, a)
           /\ Below(a, Merge(a, b)) /\ Below(b, Merge(a, b))
<1>1. ASSUME NEW k \in Keys
      PROVE  /\ Merge(a, b)[k] = Merge(b, a)[k]
             /\ Precedes(a[k], Merge(a, b)[k]) /\ Precedes(b[k], Merge(a, b)[k])
  <2>1. a[k].ver \in Int /\ b[k].ver \in Int
    BY DEF State, Entry, Version
  <2>2. Precedes(a[k], b[k]) \/ Precedes(b[k], a[k])
    BY DEF Comparable
  <2>3. Precedes(a[k], a[k]) /\ Precedes(b[k], b[k])
    BY PrecedesReflexive DEF State
  <2> QED BY <2>1, <2>2, <2>3 DEF Merge, Precedes
<1> QED
  BY <1>1 DEF Merge, Below

\* A state takes over its future, and nothing from its past.
LEMMA MergeFuture ==
    ASSUME NEW a \in State, NEW b \in State, Below(a, b)
    PROVE  Merge(a, b) = b /\ Merge(b, a) = b
<1>1. ASSUME NEW k \in Keys PROVE Merge(a, b)[k] = b[k] /\ Merge(b, a)[k] = b[k]
  <2>1. a[k].ver \in Int /\ b[k].ver \in Int
    BY DEF State, Entry, Version
  <2>2. Precedes(a[k], b[k])
    BY DEF Below
  <2> QED BY <2>1, <2>2 DEF Merge, Precedes
<1> QED
  BY <1>1 DEF Merge, State

-----------------------------------------------------------------------------
(* Updates                                                                 *)

\* The persister only moves forward, and records what it was asked to.
LEMMA TouchAdvances ==
    ASSUME NEW a \in State, NEW K \in SUBSET Keys, NEW r \in Req
    PROVE  Below(a, Touch(a, K, r)) /\ Reflects(Touch(a, K, r), K, r)
<1>1. ASSUME NEW k \in Keys PROVE Precedes(a[k], Touch(a, K, r)[k])
  <2>1. a[k] \in Entry /\ a[k].ver \in Int
    BY DEF State, Entry, Version
  <2>2. Precedes(a[k], a[k])
    BY <2>1, PrecedesReflexive
  <2> QED BY <2>1, <2>2 DEF Touch, Precedes
<1>2. Reflects(Touch(a, K, r), K, r)
  BY DEF Reflects, Touch
<1> QED
  BY <1>1, <1>2 DEF Below

-----------------------------------------------------------------------------
(* The signing path: types                                                 *)

\* The part of TypeOK that is not the stage's.
PathTypeOK ==
    /\ memory \in State /\ store \in State
    /\ commit \in [phase : {"idle", "write", "reply"}, req : Req,
                   caller : Signers \cup {None}]
    /\ task \in [Streams -> Task]
    /\ chan \in [Streams -> Seq(Message)]
    /\ open \in SUBSET Streams
    /\ local \in [Signers -> State]
    /\ attached \in [Signers -> Streams \cup {None}]
    /\ outbox \in [Signers -> [kind : {"none", "ok", "error"}, req : Req, state : State]]
    /\ faults \in 0..MaxFaults

LEMMA TypeOKSplit == TypeOK <=> StageTypeOK /\ PathTypeOK
BY DEF TypeOK, PathTypeOK

\* The values a fault or a finished step resets to.
LEMMA ResetValues ==
    /\ Heartbeat \in Req
    /\ NoResponse \in [kind : {"none", "ok", "error"}, req : Req, state : State]
    /\ NoCommit \in [phase : {"idle", "write", "reply"}, req : Req, caller : Signers \cup {None}]
    /\ NoTask \in Task
    /\ Ready \in Task
    /\ NoCommit.phase = "idle"
    /\ <<>> \in Seq(Message)
<1>1. Heartbeat \in Req
  BY PathAssumption
<1>2. EmptyState \in State
  BY StartStates
<1> QED
  BY <1>1, <1>2 DEF NoResponse, NoCommit, NoTask, Ready, Task

\* A call, and what it is passed on as, is a request whose keys are known.
LEMMA RequestKeys ==
    ASSUME NEW r \in Req
    PROVE  Touches[r] \in SUBSET Keys
BY PathAssumption

LEMMA MessageQueues ==
    /\ \A q \in Seq(Message), m \in Message : Append(q, m) \in Seq(Message)
    /\ \A q \in Seq(Message) : q # <<>> => Tail(q) \in Seq(Message) /\ Head(q) \in Message
OBVIOUS

(***************************************************************************)
(* Every step on the stage keeps the stage's types; a response to the      *)
(* heartbeat is one to a request that is not staged.                       *)
(***************************************************************************)
LEMMA RespondKeepsType ==
    ASSUME StageTypeOK, NEW r \in Req, Respond(r)
    PROVE  StageTypeOK'
BY DEF Respond, StageTypeOK, ReplyStates

LEMMA StageTypeKept ==
    ASSUME TypeOK, [Next]_vars
    PROVE  StageTypeOK'
<1>1. StageTypeOK /\ PathTypeOK
  BY TypeOKSplit
<1>2. ASSUME NEW c \in Calls, HsmRequest(c) PROVE StageTypeOK'
  BY <1>1, <1>2, StageStepType DEF HsmRequest, StageNext
<1>3. ASSUME NEW c \in Calls, HsmRequestCanned(c) PROVE StageTypeOK'
  BY <1>1, <1>3 DEF HsmRequestCanned, StageTypeOK, ReplyStates
<1>4. ASSUME NEW t \in Streams, StreamTask(t) PROVE StageTypeOK'
  <2>1. [StageNext]_stageVars
    BY <1>4 DEF StreamTask, TaskHeartbeat, TaskSnapshot, TaskLocksConfig, TaskSend, TaskSendFails, TaskLagged,
                TaskNext, StageNext
  <2> QED BY <1>1, <2>1, StageStepType
<1>5. ASSUME NEW s \in Signers, NEW t \in Streams,
             Attach(s, t) \/ SignerAccepts(s, t) \/ SignerRejects(s, t) \/ SignerStreamEnds(s, t)
      PROVE  StageTypeOK'
  <2>1. [StageNext]_stageVars
    BY <1>5 DEF Attach, SignerAccepts, SignerRejects, SignerStreamEnds, StageNext
  <2> QED BY <1>1, <2>1, StageStepType
<1>6. ASSUME NEW s \in Signers,
             RespondError(s) \/ RespondMerge(s) \/ SignerDisconnects(s) \/ SignerRestarts(s)
      PROVE  StageTypeOK'
  <2>1. UNCHANGED stageVars
    BY <1>6 DEF RespondError, RespondMerge, SignerDisconnects, SignerRestarts
  <2> QED BY <1>1, <2>1, StageStepType
<1>7. CASE RespondReply
  <2>1. commit.req \in Req
    BY <1>1 DEF PathTypeOK
  <2> QED BY <1>1, <1>7, <2>1, RespondKeepsType DEF RespondReply
<1>8. CASE RespondWrite \/ RespondDropped \/ RespondWriteFails
  <2>1. UNCHANGED stageVars
    BY <1>8 DEF RespondWrite, RespondDropped, RespondWriteFails
  <2> QED BY <1>1, <2>1, StageStepType
<1>9. CASE NodeRestarts
  <2>1. <<>> \in Seq(Calls)
    OBVIOUS
  <2> QED BY <1>1, <1>9, <2>1 DEF NodeRestarts, StageTypeOK, ReplyStates
<1>10. CASE UNCHANGED vars
  BY <1>1, <1>10, StageStepType DEF vars
<1> QED
  BY <1>2, <1>3, <1>4, <1>5, <1>6, <1>7, <1>8, <1>9, <1>10 DEF Next, RespondHandler

(***************************************************************************)
(* A step of a stream's task that touches the task, and at most its        *)
(* channel, keeps the types when it keeps those two.                       *)
(***************************************************************************)
LEMMA TaskFrame ==
    ASSUME PathTypeOK, task' \in [Streams -> Task], chan' \in [Streams -> Seq(Message)],
           UNCHANGED <<pluginVars, open, signerVars, faults>>
    PROVE  PathTypeOK'
<1>1. /\ memory' = memory /\ store' = store /\ commit' = commit
      /\ open' = open /\ faults' = faults
      /\ local' = local /\ attached' = attached /\ outbox' = outbox
  BY DEF pluginVars, signerVars
<1>2. /\ memory \in State /\ store \in State
      /\ commit \in [phase : {"idle", "write", "reply"}, req : Req, caller : Signers \cup {None}]
      /\ open \in SUBSET Streams
      /\ local \in [Signers -> State]
      /\ attached \in [Signers -> Streams \cup {None}]
      /\ outbox \in [Signers -> [kind : {"none", "ok", "error"}, req : Req, state : State]]
      /\ faults \in 0..MaxFaults
  BY DEF PathTypeOK
<1> QED
  BY <1>1, <1>2, Zenon DEF PathTypeOK

\* What a task becomes at each of its steps.
LEMMA TaskSteps ==
    ASSUME NEW u \in Task, NEW c \in Req, NEW m \in State
    PROVE  /\ [u EXCEPT !.pc = "next"] \in Task
           /\ [u EXCEPT !.pc = "snapshot", !.req = c] \in Task
           /\ [u EXCEPT !.pc = "config", !.snap = m] \in Task
           /\ [u EXCEPT !.pc = "send"] \in Task
BY DEF Task

\* One task is replaced, the others stay.
LEMMA TaskReplaced ==
    ASSUME task \in [Streams -> Task], NEW t \in Streams, NEW u \in Task,
           task' = [task EXCEPT ![t] = u]
    PROVE  task' \in [Streams -> Task]
OBVIOUS

LEMMA PathTypeKept ==
    ASSUME TypeOK, [Next]_vars
    PROVE  PathTypeOK'
<1>1. StageTypeOK /\ PathTypeOK
  BY TypeOKSplit
<1> USE DEF PathTypeOK
<1>2. ASSUME NEW c \in Calls, HsmRequest(c) \/ HsmRequestCanned(c) PROVE PathTypeOK'
  BY <1>1, <1>2 DEF HsmRequest, HsmRequestCanned, pathVars
<1>a. task \in [Streams -> Task] /\ chan \in [Streams -> Seq(Message)] /\ memory \in State
  BY <1>1
<1> HIDE DEF PathTypeOK
<1>3. ASSUME NEW t \in Streams, NEW c \in Calls, TaskNext(t, c) PROVE PathTypeOK'
  <2>1. c \in Req
    BY PathAssumption
  <2>2. /\ task' = [task EXCEPT ![t] = [@ EXCEPT !.pc = "snapshot", !.req = c]]
        /\ UNCHANGED <<pluginVars, chan, open, signerVars, faults>>
    BY <1>3 DEF TaskNext
  <2>3. task[t] \in Task
    BY <1>a
  <2>4. task' \in [Streams -> Task]
    BY <1>a, <2>1, <2>2, <2>3, TaskSteps, TaskReplaced
  <2> QED BY <1>1, <1>a, <2>2, <2>4, TaskFrame
<1>4. ASSUME NEW t \in Streams, TaskHeartbeat(t) PROVE PathTypeOK'
  <2>1. [req |-> Heartbeat, state |-> memory] \in Message
    BY <1>a, ResetValues DEF Message
  <2>2. chan' \in [Streams -> Seq(Message)]
    BY <1>a, <1>4, <2>1, MessageQueues DEF TaskHeartbeat, Enqueue
  <2>3. /\ task' = [task EXCEPT ![t] = [@ EXCEPT !.pc = "next"]]
        /\ UNCHANGED <<pluginVars, open, signerVars, faults>>
    BY <1>4 DEF TaskHeartbeat
  <2>4. task[t] \in Task
    BY <1>a
  <2>5. task' \in [Streams -> Task]
    BY <1>a, <2>3, <2>4, ResetValues, TaskSteps, TaskReplaced
  <2> QED BY <1>1, <2>2, <2>3, <2>5, TaskFrame
<1>5. ASSUME NEW t \in Streams, TaskSnapshot(t) \/ TaskLocksConfig(t) PROVE PathTypeOK'
  <2>1. /\ \/ task' = [task EXCEPT ![t] = [@ EXCEPT !.pc = "config", !.snap = memory]]
           \/ task' = [task EXCEPT ![t] = [@ EXCEPT !.pc = "send"]]
        /\ UNCHANGED <<pluginVars, chan, open, signerVars, faults>>
    BY <1>5 DEF TaskSnapshot, TaskLocksConfig
  <2>2. task[t] \in Task
    BY <1>a
  <2>3. task' \in [Streams -> Task]
    BY <1>a, <2>1, <2>2, ResetValues, TaskSteps, TaskReplaced
  <2> QED BY <1>1, <1>a, <2>1, <2>3, TaskFrame
<1>6. ASSUME NEW t \in Streams, TaskSend(t) PROVE PathTypeOK'
  <2>1. [req |-> task[t].req, state |-> task[t].snap] \in Message
    BY <1>a DEF Message, Task
  <2>2. chan' \in [Streams -> Seq(Message)]
    BY <1>a, <1>6, <2>1, MessageQueues DEF TaskSend, Enqueue
  <2>3. /\ task' = [task EXCEPT ![t] = Ready]
        /\ UNCHANGED <<pluginVars, open, signerVars, faults>>
    BY <1>6 DEF TaskSend
  <2>4. task' \in [Streams -> Task]
    BY <1>a, <2>3, ResetValues, TaskReplaced
  <2> QED BY <1>1, <2>2, <2>3, <2>4, TaskFrame
<1>7. ASSUME NEW t \in Streams, TaskSendFails(t) \/ TaskLagged(t) PROVE PathTypeOK'
  <2>1. /\ task' = [task EXCEPT ![t] = NoTask]
        /\ UNCHANGED <<pluginVars, chan, open, signerVars, faults>>
    BY <1>7 DEF TaskSendFails, TaskLagged
  <2>2. task' \in [Streams -> Task]
    BY <1>a, <2>1, ResetValues, TaskReplaced
  <2> QED BY <1>1, <1>a, <2>1, <2>2, TaskFrame
<1> USE DEF PathTypeOK
<1>8. ASSUME NEW s \in Signers, NEW t \in Streams, Attach(s, t) PROVE PathTypeOK'
  <2>1. /\ task' = [task EXCEPT ![t] = [@ EXCEPT !.pc = "heartbeat"]]
        /\ open' = open \cup {t}
        /\ attached' = [attached EXCEPT ![s] = t]
        /\ UNCHANGED <<pluginVars, chan, local, outbox, faults>>
    BY <1>8 DEF Attach
  <2>2. [task[t] EXCEPT !.pc = "heartbeat"] \in Task
    BY <1>a DEF Task
  <2>3. task' \in [Streams -> Task]
    BY <1>a, <2>1, <2>2, TaskReplaced
  <2>4. open' \in SUBSET Streams /\ attached' \in [Signers -> Streams \cup {None}]
    BY <1>1, <2>1
  <2> QED BY <1>1, <2>1, <2>3, <2>4 DEF pluginVars
<1>9. ASSUME NEW s \in Signers, NEW t \in Streams, Receives(s, t)
      PROVE  /\ Head(chan[t]) \in Message
             /\ Learned(s, t) \in State
             /\ [chan EXCEPT ![t] = Tail(@)] \in [Streams -> Seq(Message)]
  <2>1. Head(chan[t]) \in Message /\ Tail(chan[t]) \in Seq(Message)
    BY <1>1, <1>9, MessageQueues DEF Receives
  <2>2. local[s] \in State /\ Head(chan[t]).state \in State
    BY <1>1, <2>1 DEF Message
  <2> QED BY <1>1, <2>1, <2>2, MergeType DEF Learned
<1>10. ASSUME NEW s \in Signers, NEW t \in Streams, SignerAccepts(s, t) PROVE PathTypeOK'
  <2> DEFINE r == Head(chan[t]).req
             after == Touch(Learned(s, t), Touches[r], r)
  <2>1. r \in Req /\ Learned(s, t) \in State
    BY <1>9, <1>10 DEF SignerAccepts, Message
  <2>2. after \in State
    BY <2>1, RequestKeys, TouchType
  <2>3. chan' \in [Streams -> Seq(Message)]
    BY <1>9, <1>10 DEF SignerAccepts
  <2>4. /\ local' = [local EXCEPT ![s] = after]
        /\ outbox' = [outbox EXCEPT ![s] = [kind |-> "ok", req |-> r, state |-> after]]
        /\ UNCHANGED <<pluginVars, task, open, attached, faults>>
    BY <1>10 DEF SignerAccepts, Persisted
  <2> HIDE DEF after, r
  <2> QED BY <1>1, <2>1, <2>2, <2>3, <2>4 DEF pluginVars
<1>11. ASSUME NEW s \in Signers, NEW t \in Streams, SignerRejects(s, t) PROVE PathTypeOK'
  <2> DEFINE r == Head(chan[t]).req
  <2>1. r \in Req /\ Learned(s, t) \in State
    BY <1>9, <1>11 DEF SignerRejects, Message
  <2>2. chan' \in [Streams -> Seq(Message)]
    BY <1>9, <1>11 DEF SignerRejects
  <2>3. PICK K \in SUBSET Touches[r] : local' = [local EXCEPT ![s] = Touch(Learned(s, t), K, r)]
    BY <1>11 DEF SignerRejects, Persisted
  <2>4. Touch(Learned(s, t), K, r) \in State
    BY <2>1, <2>3, RequestKeys, TouchType
  <2>5. /\ outbox' = [outbox EXCEPT ![s] = [kind |-> "error", req |-> r, state |-> EmptyState]]
        /\ UNCHANGED <<pluginVars, task, open, attached, faults>>
    BY <1>11 DEF SignerRejects
  <2>6. EmptyState \in State
    BY StartStates
  <2> HIDE DEF r
  <2> QED BY <1>1, <2>1, <2>2, <2>3, <2>4, <2>5, <2>6 DEF pluginVars
<1>12. ASSUME NEW s \in Signers, NEW t \in Streams, SignerStreamEnds(s, t) PROVE PathTypeOK'
  BY <1>1, <1>12 DEF SignerStreamEnds, pluginVars
<1>13. ASSUME NEW s \in Signers, RespondError(s) PROVE PathTypeOK'
  BY <1>1, <1>13, ResetValues DEF RespondError, Return, pluginVars, streamVars
<1>14. ASSUME NEW s \in Signers, RespondMerge(s) PROVE PathTypeOK'
  <2>1. Merge(memory, outbox[s].state) \in State
    BY <1>1, MergeType
  <2>2. /\ memory' = Merge(memory, outbox[s].state)
        /\ commit' = [phase |-> "write", req |-> outbox[s].req, caller |-> s]
        /\ UNCHANGED <<store, streamVars, signerVars, faults>>
    BY <1>14 DEF RespondMerge
  <2> QED BY <1>1, <2>1, <2>2 DEF streamVars, signerVars
<1>15. ASSUME NEW s \in Signers, Detach(s) PROVE
          /\ chan' \in [Streams -> Seq(Message)] /\ open' \in SUBSET Streams
          /\ attached' \in [Signers -> Streams \cup {None}]
          /\ outbox' \in [Signers -> [kind : {"none", "ok", "error"}, req : Req, state : State]]
          /\ commit' \in [phase : {"idle", "write", "reply"}, req : Req, caller : Signers \cup {None}]
  BY <1>1, <1>15, ResetValues DEF Detach
<1>16. ASSUME NEW s \in Signers, SignerDisconnects(s) PROVE PathTypeOK'
  BY <1>1, <1>15, <1>16, PathAssumption DEF SignerDisconnects
<1>17. ASSUME NEW s \in Signers, SignerRestarts(s) PROVE PathTypeOK'
  BY <1>1, <1>15, <1>17, StartStates, PathAssumption DEF SignerRestarts
<1>18. CASE RespondWrite
  BY <1>1, <1>18 DEF RespondWrite, streamVars, signerVars
<1>19. CASE RespondWriteFails
  BY <1>1, <1>19, ResetValues, PathAssumption DEF RespondWriteFails, Return, streamVars
<1>20. CASE RespondReply \/ RespondDropped
  <2>1. CASE RespondReply
    BY <1>1, <2>1, ResetValues DEF RespondReply, Return, streamVars
  <2>2. CASE RespondDropped
    BY <1>1, <2>2, ResetValues DEF RespondDropped, streamVars, signerVars
  <2> QED BY <1>20, <2>1, <2>2
<1>21. CASE NodeRestarts
  BY <1>1, <1>21, ResetValues, PathAssumption DEF NodeRestarts
<1>22. CASE UNCHANGED vars
  BY <1>1, <1>22 DEF vars, pathVars
<1> HIDE DEF PathTypeOK
<1> QED
  BY <1>2, <1>3, <1>4, <1>5, <1>6, <1>7, <1>8, <1>10, <1>11, <1>12, <1>13, <1>14,
     <1>16, <1>17, <1>18, <1>19, <1>20, <1>21, <1>22 DEF Next, RespondHandler, StreamTask

(***************************************************************************)
(* Plugin, streams and signers keep to their types, however many signers   *)
(* there are and whatever fails.                                           *)
(***************************************************************************)
THEOREM PathTypeCorrect == Spec => []TypeOK
<1>1. Init => TypeOK
  <2>1. Init => StageTypeOK
    <3>1. <<>> \in Seq(Calls) OBVIOUS
    <3> QED BY <3>1 DEF Init, StageInit, StageTypeOK, ReplyStates
  <2>2. Init => PathTypeOK
    BY ResetValues, StartStates, PathAssumption DEF Init, PathTypeOK
  <2> QED BY <2>1, <2>2, TypeOKSplit
<1>2. TypeOK /\ [Next]_vars => TypeOK'
  BY StageTypeKept, PathTypeKept DEF TypeOK, PathTypeOK
<1> QED
  BY <1>1, <1>2, PTL DEF Spec

\* A response to what need not be a staged call, such as the heartbeat.
LEMMA RespondKeepsStage ==
    ASSUME StageInv, StageTypeOK', NEW r, Respond(r)
    PROVE  StageInv'
<1>1. StageTypeOK /\ requests \subseteq Sent /\ WaitersAreStaged
  BY StageInvByStream
<1>2. requests' \subseteq requests /\ live' = live /\ Sent \subseteq Sent' /\ WaitersAreStaged'
  BY <1>1 DEF Respond, Sent, StageTypeOK, WaitersAreStaged
<1>3. ASSUME NEW u \in live' PROVE StreamInv(u)'
  <2>1. backlog' = backlog /\ queue' = queue /\ given' = given /\ StreamInv(u)
    BY <1>2, <1>3, StageInvByStream DEF Respond
  <2> QED BY <1>1, <1>2, <1>3, <2>1, OtherKeepsStream
<1>4. requests' \subseteq Sent'
  BY <1>1, <1>2
<1> QED
  BY <1>2, <1>3, <1>4 DEF StageInv, OnlySent, StreamsCoverStage, NeverTwicePerStream, StreamInv, NoRepeat

\* A canned call is answered without the stage.
LEMMA CannedKeepsStage ==
    ASSUME StageInv, StageTypeOK', NEW c \in Calls, HsmRequestCanned(c)
    PROVE  StageInv'
<1>1. StageTypeOK /\ requests \subseteq Sent /\ WaitersAreStaged
  BY StageInvByStream
<1>2. requests' = requests /\ live' = live /\ Sent \subseteq Sent' /\ WaitersAreStaged'
  BY <1>1 DEF HsmRequestCanned, Sent, StageTypeOK, WaitersAreStaged
<1>3. ASSUME NEW u \in live' PROVE StreamInv(u)'
  <2>1. backlog' = backlog /\ queue' = queue /\ given' = given /\ StreamInv(u)
    BY <1>2, <1>3, StageInvByStream DEF HsmRequestCanned
  <2> QED BY <1>1, <1>2, <1>3, <2>1, OtherKeepsStream
<1>4. requests' \subseteq Sent'
  BY <1>1, <1>2
<1> QED
  BY <1>2, <1>3, <1>4 DEF StageInv, OnlySent, StreamsCoverStage, NeverTwicePerStream, StreamInv, NoRepeat

\* After a restart nobody waits, and nothing is staged or attached.
LEMMA RestartKeepsStage ==
    ASSUME StageInv, StageTypeOK', NodeRestarts
    PROVE  StageInv'
<1>1. requests' = {} /\ live' = {}
  BY DEF NodeRestarts
<1>2. WaitersAreStaged'
  BY DEF NodeRestarts, WaitersAreStaged
<1> QED
  BY <1>1, <1>2 DEF StageInv, OnlySent, StreamsCoverStage, NeverTwicePerStream

LEMMA StageInvKept ==
    ASSUME TypeOK, [Next]_vars, StageInv
    PROVE  StageInv'
<1>1. StageTypeOK'
  BY StageTypeKept
<1>2. [StageNext]_stageVars => StageInv'
  BY StageStepInv
<1>3. ASSUME NEW c \in Calls, HsmRequest(c) \/ HsmRequestCanned(c) PROVE StageInv'
  BY <1>1, <1>2, <1>3, CannedKeepsStage DEF HsmRequest, StageNext
<1>4. ASSUME NEW t \in Streams, StreamTask(t) PROVE StageInv'
  <2>1. [StageNext]_stageVars
    BY <1>4 DEF StreamTask, TaskHeartbeat, TaskSnapshot, TaskLocksConfig, TaskSend, TaskSendFails, TaskLagged,
                TaskNext, StageNext
  <2> QED BY <1>2, <2>1
<1>5. ASSUME NEW s \in Signers, NEW t \in Streams,
             Attach(s, t) \/ SignerAccepts(s, t) \/ SignerRejects(s, t) \/ SignerStreamEnds(s, t)
      PROVE  StageInv'
  <2>1. [StageNext]_stageVars
    BY <1>5 DEF Attach, SignerAccepts, SignerRejects, SignerStreamEnds, StageNext
  <2> QED BY <1>2, <2>1
<1>6. ASSUME NEW s \in Signers,
             RespondError(s) \/ RespondMerge(s) \/ SignerDisconnects(s) \/ SignerRestarts(s)
      PROVE  StageInv'
  <2>1. UNCHANGED stageVars \/ \E r : Respond(r)
    BY <1>6 DEF RespondError, RespondMerge, SignerDisconnects, SignerRestarts
  <2> QED BY <1>1, <1>2, <2>1, RespondKeepsStage
<1>7. CASE RespondReply
  BY <1>1, <1>7, RespondKeepsStage DEF RespondReply
<1>8. CASE RespondWrite \/ RespondDropped \/ RespondWriteFails
  <2>1. UNCHANGED stageVars
    BY <1>8 DEF RespondWrite, RespondDropped, RespondWriteFails
  <2> QED BY <1>2, <2>1
<1>9. CASE NodeRestarts
  BY <1>1, <1>9, RestartKeepsStage
<1>10. CASE UNCHANGED vars
  BY <1>2, <1>10 DEF vars
<1> QED
  BY <1>3, <1>4, <1>5, <1>6, <1>7, <1>8, <1>9, <1>10 DEF Next, RespondHandler

(***************************************************************************)
(* On the whole path, with its stream tasks, canned answers, repeated      *)
(* responses and restarts of the node, no stream misses a staged request   *)
(* or hands one out twice (Stage, stream_hsm_requests).                    *)
(***************************************************************************)
THEOREM StreamsServeThePath == Spec => [](StreamsCoverStage /\ NeverTwicePerStream)
<1>1. Init => StageInv
  <2>1. <<>> \in Seq(Calls) OBVIOUS
  <2> QED BY <2>1 DEF Init, StageInit, StageInv, StageTypeOK, ReplyStates, OnlySent, Sent,
                      StreamsCoverStage, NeverTwicePerStream, WaitersAreStaged
<1>2. TypeOK /\ StageInv /\ [Next]_vars => StageInv'
  BY StageInvKept
<1>3. StageInv => StreamsCoverStage /\ NeverTwicePerStream
  BY DEF StageInv
<1> QED
  BY <1>1, <1>2, <1>3, PathTypeCorrect, PTL DEF Spec

-----------------------------------------------------------------------------
(* What the copies of the state reflect was asked                          *)

Asked == {c \in Calls : reply[c] # "idle"} \cup {Heartbeat}

\* States and messages in which nothing but the requests A occurs.
StateOver(A) == [Keys -> [ver : Version, val : SUBSET A]]
MessageOver(A) == [req : A, state : StateOver(A)]

\* The stage, and the plugin with its streams and signers, know of A only.
StageOver(A) ==
    /\ requests \subseteq A
    /\ \A t \in Streams : backlog[t] \subseteq A /\ queue[t] \in Seq(A)

PathOver(A) ==
    /\ memory \in StateOver(A) /\ store \in StateOver(A)
    /\ \A t \in Streams : /\ chan[t] \in Seq(MessageOver(A))
                          /\ task[t].req \in A /\ task[t].snap \in StateOver(A)
    /\ \A s \in Signers : local[s] \in StateOver(A) /\ outbox[s].state \in StateOver(A)

OnlyAsked ==
    /\ TypeOK
    /\ \A c \in Canned : reply[c] # "waiting"
    /\ StageOver(Asked) /\ PathOver(Asked)

LEMMA SeqGrows ==
    ASSUME NEW S, NEW T, S \subseteq T, NEW q \in Seq(S)
    PROVE  q \in Seq(T)
<1>1. Len(q) \in Nat /\ q \in [1..Len(q) -> S]
  OBVIOUS
<1>2. q \in [1..Len(q) -> T]
  BY <1>1
<1> QED
  BY <1>1, <1>2

LEMMA StateOverGrows ==
    ASSUME NEW A, NEW B, A \subseteq B
    PROVE  StateOver(A) \subseteq StateOver(B) /\ MessageOver(A) \subseteq MessageOver(B)
<1>1. StateOver(A) \subseteq StateOver(B)
  BY DEF StateOver
<1> QED
  BY <1>1 DEF MessageOver

LEMMA OverGrows ==
    ASSUME NEW A, NEW B, A \subseteq B, StageOver(A), PathOver(A)
    PROVE  StageOver(B) /\ PathOver(B)
<1>1. StateOver(A) \subseteq StateOver(B) /\ MessageOver(A) \subseteq MessageOver(B)
  BY StateOverGrows
<1>2. StageOver(B)
  BY SeqGrows DEF StageOver
<1>3. \A t \in Streams : chan[t] \in Seq(MessageOver(B))
  BY <1>1, SeqGrows DEF PathOver
<1> QED
  BY <1>1, <1>2, <1>3 DEF PathOver

LEMMA StartsOver ==
    ASSUME NEW A
    PROVE  EmptyState \in StateOver(A) /\ FreshState \in StateOver(A)
<1>1. \A v \in {-1, 0} : [ver |-> v, val |-> {}] \in [ver : Version, val : SUBSET A]
  BY DEF Version
<1> QED
  BY <1>1 DEF StateOver, EmptyState, FreshState, Absent

LEMMA MergeOver ==
    ASSUME NEW A, NEW a \in StateOver(A), NEW b \in StateOver(A)
    PROVE  Merge(a, b) \in StateOver(A)
BY DEF Merge, StateOver

LEMMA TouchOver ==
    ASSUME NEW A, NEW a \in StateOver(A), NEW K, NEW r \in A
    PROVE  Touch(a, K, r) \in StateOver(A)
<1>1. ASSUME NEW k \in Keys
      PROVE  /\ a[k] \in [ver : Version, val : SUBSET A]
             /\ [ver |-> a[k].ver + 1, val |-> a[k].val \cup {r}] \in [ver : Version, val : SUBSET A]
  <2>1. a[k].ver \in Version /\ a[k].val \subseteq A
    BY DEF StateOver
  <2>2. a[k].ver + 1 \in Version
    BY <2>1 DEF Version
  <2> QED
    BY <2>1, <2>2 DEF StateOver
<1> QED
  BY <1>1 DEF Touch, StateOver

\* What a step does to the stage.
LEMMA StageEffect ==
    ASSUME [Next]_vars
    PROVE  \/ UNCHANGED stageVars
           \/ \E c \in Calls : HsmRequest(c) \/ HsmRequestCanned(c)
           \/ \E t \in Streams :
                 MyStream(t) \/ DropStream(t) \/ \E c \in Calls : StreamNext(t, c)
           \/ Respond(commit.req)
           \/ NodeRestarts
<1>1. ASSUME NEW t \in Streams, StreamTask(t)
      PROVE  UNCHANGED stageVars \/ DropStream(t) \/ \E c \in Calls : StreamNext(t, c)
  BY <1>1 DEF StreamTask, TaskHeartbeat, TaskNext, TaskSnapshot, TaskLocksConfig, TaskSend,
     TaskSendFails, TaskLagged, StreamLagged
<1>2. ASSUME NEW s \in Signers, NEW t \in Streams,
             Attach(s, t) \/ SignerAccepts(s, t) \/ SignerRejects(s, t) \/ SignerStreamEnds(s, t)
      PROVE  UNCHANGED stageVars \/ MyStream(t)
  BY <1>2 DEF Attach, SignerAccepts, SignerRejects, SignerStreamEnds
<1>3. ASSUME NEW s \in Signers,
             RespondError(s) \/ RespondMerge(s) \/ SignerDisconnects(s) \/ SignerRestarts(s)
      PROVE  UNCHANGED stageVars
  BY <1>3 DEF RespondError, RespondMerge, SignerDisconnects, SignerRestarts
<1>4. ASSUME RespondHandler \/ RespondWriteFails
      PROVE  UNCHANGED stageVars \/ Respond(commit.req)
  BY <1>4 DEF RespondHandler, RespondWrite, RespondReply, RespondDropped, RespondWriteFails
<1>5. CASE UNCHANGED vars
  BY <1>5 DEF vars
<1> QED
  BY <1>1, <1>2, <1>3, <1>4, <1>5 DEF Next

\* What is asked stays asked.
LEMMA AskedGrows ==
    ASSUME TypeOK, [Next]_vars
    PROVE  Asked \subseteq Asked' /\ \A c \in Calls : Send(c) => c \in Asked'
<1>1. reply \in [Calls -> ReplyStates]
  BY TypeOKSplit DEF StageTypeOK
<1>2. ASSUME NEW c \in Calls, Send(c) PROVE c \in Asked'
  BY <1>1, <1>2 DEF Send, Asked
<1>3. \A c \in Calls : reply[c] # "idle" => reply'[c] # "idle"
  <2>1. ASSUME NEW t \in Streams, MyStream(t) \/ DropStream(t) \/ \E c \in Calls : StreamNext(t, c)
        PROVE  UNCHANGED reply
    BY <2>1 DEF MyStream, DropStream, StreamNext
  <2>2. commit.req \in Req
    BY TypeOKSplit DEF PathTypeOK
  <2> QED
    BY <1>1, <2>1, <2>2, StageEffect DEF HsmRequest, Send, HsmRequestCanned, Respond, NodeRestarts, stageVars
<1> QED
  BY <1>2, <1>3 DEF Asked

LEMMA SeqSteps ==
    ASSUME NEW S, NEW q \in Seq(S)
    PROVE  /\ <<>> \in Seq(S)
           /\ \A e \in S : Append(q, e) \in Seq(S)
           /\ q # <<>> => Head(q) \in S /\ Tail(q) \in Seq(S)
OBVIOUS

\* What a stream hands out was on the stage or is sent to it now.
LEMMA StageOverKept ==
    ASSUME TypeOK, [Next]_vars, NEW A, StageOver(A), \A c \in Calls : Send(c) => c \in A
    PROVE  StageOver(A)'
<1>1. StageTypeOK /\ PathTypeOK
  BY TypeOKSplit
<1> USE DEF StageTypeOK
<1>2. ASSUME NEW t \in Streams
      PROVE  /\ queue[t] \in Seq(A) /\ <<>> \in Seq(A)
             /\ \A c \in A : Append(queue[t], c) \in Seq(A)
             /\ queue[t] # <<>> => Tail(queue[t]) \in Seq(A)
  <2>1. queue[t] \in Seq(A)
    BY DEF StageOver
  <2> QED BY <2>1, SeqSteps
<1>3. ASSUME NEW c \in Calls, Send(c) PROVE StageOver(A)'
  BY <1>1, <1>2, <1>3 DEF Send, StageOver
<1>4. ASSUME NEW t \in Streams, MyStream(t) \/ DropStream(t) PROVE StageOver(A)'
  BY <1>1, <1>2, <1>4 DEF MyStream, DropStream, StageOver
<1>5. ASSUME NEW t \in Streams, NEW c \in Calls, StreamNext(t, c) PROVE StageOver(A)'
  BY <1>1, <1>2, <1>5 DEF StreamNext, StageOver
<1>6. ASSUME NEW r, Respond(r) PROVE StageOver(A)'
  BY <1>6 DEF Respond, StageOver
<1>7. CASE NodeRestarts
  BY <1>2, <1>7 DEF NodeRestarts, StageOver
<1>8. CASE UNCHANGED <<requests, backlog, queue>>
  BY <1>8 DEF StageOver
<1>9. UNCHANGED stageVars \/ (\E c \in Calls : HsmRequestCanned(c))
        => UNCHANGED <<requests, backlog, queue>>
  BY DEF stageVars, HsmRequestCanned
<1> QED
  BY <1>3, <1>4, <1>5, <1>6, <1>7, <1>8, <1>9, StageEffect DEF HsmRequest

\* A task passes on what the stage and the plugin's memory give it.
LEMMA TaskOverKept ==
    ASSUME TypeOK, NEW A, Heartbeat \in A, StageOver(A), PathOver(A),
           NEW t \in Streams, StreamTask(t)
    PROVE  PathOver(A)'
<1>1. StageTypeOK /\ PathTypeOK
  BY TypeOKSplit
<1>2. /\ UNCHANGED <<memory, store, local, outbox>>
      /\ memory \in StateOver(A) /\ task[t].req \in A /\ task[t].snap \in StateOver(A)
      /\ chan[t] \in Seq(MessageOver(A))
  BY DEF StreamTask, TaskHeartbeat, TaskNext, TaskSnapshot, TaskLocksConfig, TaskSend,
     TaskSendFails, TaskLagged, pluginVars, signerVars, PathOver
<1>3. \A u \in Streams : u # t => task'[u] = task[u] /\ chan'[u] = chan[u]
  BY <1>1 DEF StreamTask, TaskHeartbeat, TaskNext, TaskSnapshot, TaskLocksConfig, TaskSend,
     TaskSendFails, TaskLagged, Enqueue, PathTypeOK
<1>4. task'[t].req \in A /\ task'[t].snap \in StateOver(A)
  <2>1. task[t] \in Task /\ task \in [Streams -> Task]
    BY <1>1 DEF PathTypeOK
  <2>2. ASSUME NEW c \in Calls, TaskNext(t, c) PROVE c \in A
    <3>1. c \in backlog[t] \/ (queue[t] # <<>> /\ c = Head(queue[t]))
      BY <2>2 DEF TaskNext, StreamNext
    <3>2. queue[t] \in Seq(A) /\ backlog[t] \subseteq A
      BY DEF StageOver
    <3> QED BY <3>1, <3>2, SeqSteps
  <2>3. ASSUME NEW c \in Calls, TaskNext(t, c) PROVE task'[t].req = c /\ task'[t].snap = task[t].snap
    BY <2>1, <2>3 DEF TaskNext, Task
  <2>4. CASE TaskHeartbeat(t) \/ TaskSnapshot(t) \/ TaskLocksConfig(t)
    BY <1>2, <2>1, <2>4 DEF TaskHeartbeat, TaskSnapshot, TaskLocksConfig, Task
  <2>5. CASE TaskSend(t) \/ TaskSendFails(t) \/ TaskLagged(t)
    BY <2>1, <2>5, StartsOver DEF TaskSend, TaskSendFails, TaskLagged, NoTask, Ready
  <2> QED BY <1>2, <2>2, <2>3, <2>4, <2>5 DEF StreamTask
<1>5. chan'[t] \in Seq(MessageOver(A))
  <2>1. chan \in [Streams -> Seq(Message)]
    BY <1>1 DEF PathTypeOK
  <2>2. /\ [req |-> Heartbeat, state |-> memory] \in MessageOver(A)
        /\ [req |-> task[t].req, state |-> task[t].snap] \in MessageOver(A)
    BY <1>2 DEF MessageOver
  <2>3. \E m \in MessageOver(A) : chan'[t] \in {chan[t], Append(chan[t], m)}
    BY <2>1, <2>2 DEF StreamTask, TaskHeartbeat, TaskNext, TaskSnapshot, TaskLocksConfig, TaskSend,
       TaskSendFails, TaskLagged, Enqueue
  <2> QED BY <1>2, <2>3, SeqSteps
<1> QED
  BY <1>2, <1>3, <1>4, <1>5 DEF PathOver

\* A signer takes its state from the message and adds its request to it.
LEMMA SignerOverKept ==
    ASSUME TypeOK, NEW A, PathOver(A), NEW s \in Signers, NEW t \in Streams,
           SignerAccepts(s, t) \/ SignerRejects(s, t)
    PROVE  PathOver(A)'
<1> DEFINE r == Head(chan[t]).req
<1>1. PathTypeOK
  BY TypeOKSplit
<1>2. /\ UNCHANGED <<memory, store, task>>
      /\ chan' = [chan EXCEPT ![t] = Tail(@)] /\ chan[t] # <<>>
  BY DEF SignerAccepts, SignerRejects, Receives, pluginVars
<1>3. Head(chan[t]) \in MessageOver(A) /\ Tail(chan[t]) \in Seq(MessageOver(A))
  <2>1. chan[t] \in Seq(MessageOver(A))
    BY DEF PathOver
  <2> QED BY <1>2, <2>1, SeqSteps
<1>4. r \in A /\ Learned(s, t) \in StateOver(A)
  <2>1. r \in A /\ Head(chan[t]).state \in StateOver(A)
    BY <1>3 DEF MessageOver
  <2>2. local[s] \in StateOver(A)
    BY DEF PathOver
  <2> QED BY <2>1, <2>2, MergeOver DEF Learned
<1>5. \E a, b \in StateOver(A) :
         /\ local' = [local EXCEPT ![s] = a]
         /\ outbox'[s].state = b
         /\ \A u \in Signers : u # s => outbox'[u] = outbox[u]
  <2>1. \A K : Touch(Learned(s, t), K, r) \in StateOver(A)
    BY <1>4, TouchOver
  <2>2. CASE SignerAccepts(s, t)
    BY <1>1, <2>1, <2>2 DEF SignerAccepts, Persisted, PathTypeOK
  <2>3. CASE SignerRejects(s, t)
    <3>1. PICK K : local' = [local EXCEPT ![s] = Touch(Learned(s, t), K, r)]
      BY <2>3 DEF SignerRejects, Persisted
    <3>2. /\ outbox'[s].state = EmptyState
          /\ \A u \in Signers : u # s => outbox'[u] = outbox[u]
      BY <1>1, <2>3 DEF SignerRejects, PathTypeOK
    <3> QED BY <2>1, <3>1, <3>2, StartsOver
  <2> QED BY <2>2, <2>3
<1>6. \A u \in Signers : local'[u] \in StateOver(A) /\ outbox'[u].state \in StateOver(A)
  BY <1>1, <1>5 DEF PathOver, PathTypeOK
<1>7. \A u \in Streams : chan'[u] \in Seq(MessageOver(A))
  BY <1>1, <1>2, <1>3 DEF PathOver, PathTypeOK
<1> QED
  BY <1>2, <1>6, <1>7 DEF PathOver

\* Nothing else adds a request to a state.
LEMMA PathOverKept ==
    ASSUME TypeOK, [Next]_vars, NEW A, Heartbeat \in A, StageOver(A), PathOver(A)
    PROVE  PathOver(A)'
<1>1. PathTypeOK
  BY TypeOKSplit
<1>2. <<>> \in Seq(MessageOver(A)) /\ EmptyState \in StateOver(A) /\ FreshState \in StateOver(A)
  BY StartsOver
<1>3. NoResponse.state = EmptyState /\ NoTask.req = Heartbeat /\ NoTask.snap = EmptyState
  BY DEF NoResponse, NoTask
<1>4. CASE UNCHANGED <<memory, store, chan, task, local, outbox>>
  BY <1>4 DEF PathOver
<1>5. ASSUME NEW s \in Signers, NEW t \in Streams, Attach(s, t) PROVE PathOver(A)'
  <2>1. UNCHANGED <<memory, store, chan, local, outbox>>
    BY <1>5 DEF Attach, pluginVars
  <2>2. \A u \in Streams : task'[u].req = task[u].req /\ task'[u].snap = task[u].snap
    BY <1>1, <1>5 DEF Attach, PathTypeOK, Task
  <2> QED BY <2>1, <2>2 DEF PathOver
<1>6. ASSUME NEW s \in Signers, RespondError(s) PROVE PathOver(A)'
  BY <1>1, <1>2, <1>3, <1>6 DEF RespondError, Return, pluginVars, streamVars, PathOver, PathTypeOK
<1>7. ASSUME NEW s \in Signers, RespondMerge(s) PROVE PathOver(A)'
  <2>1. Merge(memory, outbox[s].state) \in StateOver(A)
    BY MergeOver DEF PathOver
  <2> QED BY <1>7, <2>1 DEF RespondMerge, streamVars, signerVars, PathOver
<1>8. ASSUME NEW s \in Signers, SignerDisconnects(s) \/ SignerRestarts(s) PROVE PathOver(A)'
  <2>1. UNCHANGED <<memory, store, task>>
    BY <1>8 DEF SignerDisconnects, SignerRestarts
  <2>2. /\ chan' = [t \in Streams |-> IF t = attached[s] THEN <<>> ELSE chan[t]]
        /\ outbox' = [outbox EXCEPT ![s] = NoResponse]
        /\ local' \in {local, [local EXCEPT ![s] = FreshState]}
    BY <1>8 DEF SignerDisconnects, SignerRestarts, Detach
  <2>3. \A t \in Streams : chan'[t] \in Seq(MessageOver(A))
    BY <1>2, <2>2 DEF PathOver
  <2>4. \A u \in Signers : local'[u] \in StateOver(A) /\ outbox'[u].state \in StateOver(A)
    BY <1>1, <1>2, <1>3, <2>2 DEF PathOver, PathTypeOK
  <2> QED BY <2>1, <2>3, <2>4 DEF PathOver
<1>9. CASE RespondWrite
  BY <1>9 DEF RespondWrite, streamVars, signerVars, PathOver
<1>10. CASE RespondWriteFails \/ RespondReply
  <2>1. UNCHANGED <<memory, store, chan, task, local>> /\ Return(commit.caller)
    BY <1>10 DEF RespondWriteFails, RespondReply, streamVars
  <2>2. \A u \in Signers : outbox'[u].state \in StateOver(A)
    BY <1>1, <1>2, <1>3, <2>1 DEF Return, PathOver, PathTypeOK
  <2> QED BY <2>1, <2>2 DEF PathOver
<1>11. CASE NodeRestarts
  BY <1>2, <1>3, <1>11 DEF NodeRestarts, PathOver
<1>12. ASSUME NEW s \in Signers, NEW t \in Streams, SignerStreamEnds(s, t) PROVE PathOver(A)'
  BY <1>12 DEF SignerStreamEnds, pluginVars, PathOver
<1>13. ASSUME NEW c \in Calls, HsmRequest(c) \/ HsmRequestCanned(c) PROVE PathOver(A)'
  BY <1>4, <1>13 DEF HsmRequest, HsmRequestCanned, pathVars
<1>14. CASE RespondDropped
  BY <1>4, <1>14 DEF RespondDropped, streamVars, signerVars
<1>15. CASE UNCHANGED vars
  BY <1>4, <1>15 DEF vars, pathVars
<1> QED
  BY <1>5, <1>6, <1>7, <1>8, <1>9, <1>10, <1>11, <1>12, <1>13, <1>14, <1>15,
     TaskOverKept, SignerOverKept DEF Next, RespondHandler

\* A call with a canned answer never waits: it is not staged.
LEMMA CannedNeverWait ==
    ASSUME TypeOK, [Next]_vars, \A c \in Canned : reply[c] # "waiting"
    PROVE  \A c \in Canned : reply'[c] # "waiting"
<1>1. reply \in [Calls -> ReplyStates] /\ commit.req \in Req /\ Canned \subseteq Calls
  BY TypeOKSplit, PathAssumption DEF StageTypeOK, PathTypeOK
<1>2. ASSUME NEW t \in Streams, MyStream(t) \/ DropStream(t) \/ \E c \in Calls : StreamNext(t, c)
      PROVE  UNCHANGED reply
  BY <1>2 DEF MyStream, DropStream, StreamNext
<1> QED
  BY <1>1, <1>2, StageEffect DEF HsmRequest, Send, HsmRequestCanned, Respond, NodeRestarts,
     stageVars

LEMMA OnlyAskedKept ==
    ASSUME OnlyAsked, [Next]_vars
    PROVE  OnlyAsked'
<1>1. TypeOK /\ TypeOK'
  BY StageTypeKept, PathTypeKept DEF OnlyAsked, TypeOK, PathTypeOK
<1>2. PICK A : A = Asked
  OBVIOUS
<1>3. PICK B : B = Asked'
  OBVIOUS
<1>4. A \subseteq B /\ Heartbeat \in B /\ \A c \in Calls : Send(c) => c \in B
  <2>1. Heartbeat \in Asked'
    BY DEF Asked
  <2> QED BY <1>1, <1>2, <1>3, <2>1, AskedGrows
<1>5. StageOver(A) /\ PathOver(A)
  BY <1>2 DEF OnlyAsked, StageOver, PathOver
<1>6. StageOver(B) /\ PathOver(B)
  BY <1>4, <1>5, OverGrows
<1>7. StageOver(B)' /\ PathOver(B)'
  BY <1>1, <1>4, <1>6, StageOverKept, PathOverKept
<1>8. (StageOver(Asked) /\ PathOver(Asked))'
  BY <1>3, <1>7 DEF StageOver, PathOver
<1>9. \A c \in Canned : reply'[c] # "waiting"
  BY <1>1, CannedNeverWait DEF OnlyAsked
<1> QED
  BY <1>1, <1>8, <1>9 DEF OnlyAsked

(***************************************************************************)
(* No copy of the signer state reflects a call before it is asked.         *)
(***************************************************************************)
LEMMA OnlyAskedInvariant == Spec => []OnlyAsked
<1>1. Init => OnlyAsked
  <2> SUFFICES ASSUME Init PROVE OnlyAsked
    OBVIOUS
  <2>1. TypeOK
    <3>1. <<>> \in Seq(Calls) OBVIOUS
    <3>2. StageTypeOK
      BY <3>1 DEF Init, StageInit, StageTypeOK, ReplyStates
    <3>3. PathTypeOK
      BY ResetValues, StartStates, PathAssumption DEF Init, PathTypeOK
    <3> QED BY <3>2, <3>3, TypeOKSplit
  <2>2. PICK A : A = Asked
    OBVIOUS
  <2>3. Heartbeat \in A /\ <<>> \in Seq(A) /\ <<>> \in Seq(MessageOver(A))
        /\ EmptyState \in StateOver(A) /\ FreshState \in StateOver(A)
    BY <2>2, StartsOver DEF Asked
  <2>4. StageOver(A) /\ PathOver(A)
    BY <2>3 DEF Init, StageInit, StageOver, PathOver, NoTask, NoResponse
  <2>5. \A c \in Canned : reply[c] # "waiting"
    BY PathAssumption DEF Init, StageInit
  <2> QED BY <2>1, <2>2, <2>4, <2>5 DEF OnlyAsked, StageOver, PathOver
<1> QED
  BY <1>1, OnlyAskedKept, PTL DEF Spec

=============================================================================
