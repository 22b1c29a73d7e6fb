------------------------------- MODULE Stage -------------------------------
(***************************************************************************)
(* The Stage of gl-plugin/src/stager.rs: hsmd requests that wait for a     *)
(* signer are kept in a map, pushed to every attached signer stream over   *)
(* one broadcast channel, and replayed to a stream that attaches later.    *)
(*                                                                         *)
(* A request stands for its request_id: hsmproxy draws the ids from one    *)
(* atomic counter, so two calls never share one.  The map has no order     *)
(* (HashMap::values), hence a backlog is the set of requests it still has  *)
(* to hand out.  hsm_connections is left out: the code never reads it.     *)
(***************************************************************************)
EXTENDS Naturals, Sequences, FiniteSets

CONSTANTS
    Calls,      \* the requests lightningd's daemons make, one id each
    Streams,    \* identities for attached signer streams
    BcastCap    \* messages the broadcast channel keeps for a slow stream

ASSUME BcastCapAssumption == BcastCap \in Nat \ {0}

VARIABLES
    requests,     \* Stage.requests: the requests nobody has answered
    reply,        \* per call, the receiving end of its mpsc channel
    live,         \* the StageStreams that exist
    backlog,      \* StageStream.backlog
    queue,        \* StageStream.bcast: messages the stream has not received
    given         \* history: the requests `next' has handed out

stageVars == <<requests, reply, live, backlog, queue, given>>

ReplyStates == {"idle", "waiting", "answered", "gone"}

StageTypeOK ==
    /\ requests \in SUBSET Calls
    /\ reply \in [Calls -> ReplyStates]
    /\ live \in SUBSET Streams
    /\ backlog \in [Streams -> SUBSET Calls]
    /\ queue \in [Streams -> Seq(Calls)]
    /\ given \in [Streams -> SUBSET Calls]

StageInit ==
    /\ requests = {}
    /\ reply = [c \in Calls |-> "idle"]
    /\ live = {}
    /\ backlog = [t \in Streams |-> {}]
    /\ queue = [t \in Streams |-> <<>>]
    /\ given = [t \in Streams |-> {}]

-----------------------------------------------------------------------------

(***************************************************************************)
(* Stage::send: under the lock, insert the request and notify every        *)
(* stream.  That nobody listens is only logged.                            *)
(***************************************************************************)
Send(c) ==
    /\ reply[c] = "idle"
    /\ requests' = requests \cup {c}
    /\ reply' = [reply EXCEPT ![c] = "waiting"]
    /\ queue' = [t \in Streams |-> IF t \in live THEN Append(queue[t], c) ELSE queue[t]]
    /\ UNCHANGED <<live, backlog, given>>

\* Mutant of MyStream: subscribes, but does not copy what is staged already.
MyStreamNoBacklog(t) ==
    /\ t \notin live
    /\ live' = live \cup {t}
    /\ backlog' = [backlog EXCEPT ![t] = {}]
    /\ queue' = [queue EXCEPT ![t] = <<>>]
    /\ given' = [given EXCEPT ![t] = {}]
    /\ UNCHANGED <<requests, reply>>

(***************************************************************************)
(* Stage::mystream: under the same lock, copy what is staged and subscribe *)
(* to what is to come.                                                     *)
(***************************************************************************)
MyStream(t) ==
    /\ t \notin live
    /\ live' = live \cup {t}
    /\ backlog' = [backlog EXCEPT ![t] = requests]
    /\ queue' = [queue EXCEPT ![t] = <<>>]
    /\ given' = [given EXCEPT ![t] = {}]
    /\ UNCHANGED <<requests, reply>>

\* The receiver was overtaken by more messages than the channel keeps.
Lagging(t) == Len(queue[t]) > BcastCap

\* Mutant of StreamNext: forgets to remove the request from the backlog.
StreamNextKeepsBacklog(t, c) ==
    /\ t \in live
    /\ c \in backlog[t]
    /\ given' = [given EXCEPT ![t] = @ \cup {c}]
    /\ UNCHANGED <<requests, reply, live, backlog, queue>>

(***************************************************************************)
(* StageStream::next: the backlog first, then the broadcast channel.       *)
(***************************************************************************)
StreamNext(t, c) ==
    /\ t \in live
    /\ \/ /\ c \in backlog[t]
          /\ backlog' = [backlog EXCEPT ![t] = @ \ {c}]
          /\ UNCHANGED queue
       \/ /\ backlog[t] = {}
          /\ queue[t] # <<>>
          /\ ~Lagging(t)
          /\ c = Head(queue[t])
          /\ queue' = [queue EXCEPT ![t] = Tail(@)]
          /\ UNCHANGED backlog
    /\ given' = [given EXCEPT ![t] = @ \cup {c}]
    /\ UNCHANGED <<requests, reply, live>>

\* Drop for StageStream
DropStream(t) ==
    /\ t \in live
    /\ live' = live \ {t}
    /\ backlog' = [backlog EXCEPT ![t] = {}]
    /\ queue' = [queue EXCEPT ![t] = <<>>]
    /\ given' = [given EXCEPT ![t] = {}]
    /\ UNCHANGED <<requests, reply>>

(***************************************************************************)
(* StageStream::next fails with Lagged.  Its only caller, the task of      *)
(* stream_hsm_requests, leaves its loop, which drops the stream.           *)
(***************************************************************************)
StreamLagged(t) ==
    /\ t \in live
    /\ backlog[t] = {}
    /\ Lagging(t)
    /\ DropStream(t)

(***************************************************************************)
(* Stage::respond: remove the request and hand the response to the caller. *)
(* A request that is not staged (any more) is taken for a duplicate.  If   *)
(* the caller has gone, the request is removed all the same.               *)
(***************************************************************************)
Respond(c) ==
    /\ requests' = requests \ {c}
    /\ reply' = IF c \in requests /\ reply[c] = "waiting"
                THEN [reply EXCEPT ![c] = "answered"]
                ELSE reply
    /\ UNCHANGED <<live, backlog, queue, given>>

\* The caller of the Hsm service goes away: its receiver is dropped.
Cancel(c) ==
    /\ reply[c] = "waiting"
    /\ reply' = [reply EXCEPT ![c] = "gone"]
    /\ UNCHANGED <<requests, live, backlog, queue, given>>

StageNext ==
    \/ \E c \in Calls : Send(c) \/ Cancel(c) \/ Respond(c)
    \/ \E t \in Streams : MyStream(t) \/ DropStream(t) \/ StreamLagged(t)
    \/ \E t \in Streams, c \in Calls : StreamNext(t, c)

StageSpec == StageInit /\ [][StageNext]_stageVars

-----------------------------------------------------------------------------

\* The requests that wait for stream t in the broadcast channel.
Queued(t) == {queue[t][i] : i \in 1..Len(queue[t])}

(***************************************************************************)
(* No attached stream misses a request: whatever is staged was handed out  *)
(* by each stream or is still on its way to it, no matter how attaching    *)
(* and sending interleave (the lock of `send' and `mystream').             *)
(***************************************************************************)
StreamsCoverStage ==
    \A t \in live : requests \subseteq backlog[t] \cup Queued(t) \cup given[t]

(***************************************************************************)
(* No stream hands out a request twice: a request sent while a stream      *)
(* attaches must not reach it in its backlog and by broadcast.             *)
(***************************************************************************)
NeverTwicePerStream ==
    \A t \in live :
        /\ backlog[t] \cap Queued(t) = {}
        /\ given[t] \cap (backlog[t] \cup Queued(t)) = {}
        /\ \A i, j \in 1..Len(queue[t]) : queue[t][i] = queue[t][j] => i = j

(***************************************************************************)
(* A caller that still waits has its request staged: `respond' never takes *)
(* a request off the stage without releasing the caller it belongs to.     *)
(***************************************************************************)
WaitersAreStaged == \A c \in Calls : reply[c] = "waiting" => c \in requests

=============================================================================
