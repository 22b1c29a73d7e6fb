----------------------------- MODULE Trampoline -----------------------------
(***************************************************************************)
(* Concurrent calls of trampoline_pay for one invoice (trampolinepay and   *)
(* do_pay in gl-plugin/src/tramp.rs, ensure_peer_connection in             *)
(* awaitables.rs).                                                         *)
(*                                                                         *)
(* A call looks for earlier attempts, waits for the peer, lists and        *)
(* allocates the channels to it, and spawns a task per part that makes it  *)
(* and waits for it.  Every step is an RPC to lightningd, so that calls    *)
(* interleave between any two of them.  A task outlives a call that fails  *)
(* or is cancelled while the tasks are spawned.                            *)
(*                                                                         *)
(* lightningd is modelled by what these calls use of it: its list of parts *)
(* sent for the invoice, the peer, and the channels that are               *)
(* re-established with it.  Which amounts go where is the subject of       *)
(* Allocation; here an allocation is any split of the amount.              *)
(***************************************************************************)
EXTENDS Integers, Sequences, FiniteSets, FiniteSetsExt

CONSTANTS
    Calls,      \* calls of trampoline_pay
    Channels,   \* channels to the trampoline node
    Splits      \* allocations of the amount: sequences of positive parts

\* What the parts of an allocation add up to.
Sent(split) == MapThenSumSet(LAMBDA i : split[i], DOMAIN split)

ASSUME TrampolineAssumption ==
    /\ Splits \subseteq Seq(Nat \ {0})
    /\ <<>> \notin Splits

VARIABLES
    peer,       \* lightningd: what it knows of the trampoline node
    sendpays,   \* lightningd: the parts sent for the invoice
    pc,         \* where each call stands
    group,      \* the group its parts belong to
    kept,       \* the channels it is going to use
    alloc,      \* its allocation
    task,       \* its spawned parts, in order
    result      \* what it answered

vars == <<peer, sendpays, pc, group, kept, alloc, task, result>>

lightningd == <<peer, sendpays>>
plan == <<group, kept, alloc>>

\* A part that lightningd has sent, and the call it was sent for.
Part == [by : Calls, group : Nat, id : Nat, msat : Nat,
         status : {"pending", "complete", "failed"}]

\* "none" is also that of a call whose client left, and "refused" any error
\* that is not about a part of the payment.
Results == {"none", "preimage", "failed", "refused"}

TypeOK ==
    /\ peer \in {"unknown", "away", "connected"}
    /\ sendpays \in SUBSET Part
    /\ pc \in [Calls -> {"idle", "earlier", "peer", "channels", "await",
                         "allocate", "spawn", "join", "done"}]
    /\ group \in [Calls -> Nat]
    /\ kept \in [Calls -> SUBSET Channels]
    /\ alloc \in [Calls -> Splits \cup {<<>>}]
    /\ task \in [Calls -> Seq({"spawned", "sent", "paid", "failed"})]
    /\ result \in [Calls -> Results]

Init ==
    /\ peer \in {"unknown", "away", "connected"}
    /\ sendpays = {}
    /\ pc = [c \in Calls |-> "idle"]
    /\ group = [c \in Calls |-> 0]
    /\ kept = [c \in Calls |-> {}]
    /\ alloc = [c \in Calls |-> <<>>]
    /\ task = [c \in Calls |-> <<>>]
    /\ result = [c \in Calls |-> "none"]

With(status) == {p \in sendpays : p.status = status}

Msat(parts) == MapThenSumSet(LAMBDA p : p.msat, parts)

LastGroup == IF sendpays = {} THEN 0 ELSE Max({p.group : p \in sendpays})

Moves(c, from, to) == pc[c] = from /\ pc' = [pc EXCEPT ![c] = to]

Answers(c, from, answer) ==
    /\ Moves(c, from, "done")
    /\ result' = [result EXCEPT ![c] = answer]

-----------------------------------------------------------------------------
(* trampolinepay up to the allocation                                      *)

\* Mutant of Tried: only looks for attempts that are under way.
TriedPending == With("pending") # {}

\* Some payment listsendpays reports has not failed.
Tried == \E p \in sendpays : p.status # "failed"

List(c) ==
    /\ IF Tried
       THEN Moves(c, "idle", "earlier") /\ UNCHANGED group
       ELSE Moves(c, "idle", "peer") /\ group' = [group EXCEPT ![c] = LastGroup + 1]
    /\ UNCHANGED <<lightningd, kept, alloc, task, result>>

(***************************************************************************)
(* waitsendpay without a part and a group: lightningd takes the last       *)
(* group.  Which of its parts is not for the plugin to say.                *)
(***************************************************************************)
WaitEarlier(c) ==
    /\ \E p \in sendpays :
        /\ p.group = LastGroup /\ p.status # "pending"
        /\ Answers(c, "earlier", IF p.status = "complete" THEN "preimage" ELSE "failed")
    /\ UNCHANGED <<lightningd, plan, task>>

\* AwaitablePeer::wait: connects to a peer that is known and away.
AwaitPeer(c) ==
    /\ \/ peer = "unknown" /\ Answers(c, "peer", "refused") /\ UNCHANGED peer
       \/ peer = "connected" /\ Moves(c, "peer", "channels") /\ UNCHANGED <<peer, result>>
       \/ /\ peer = "away"
          /\ \/ Moves(c, "peer", "channels") /\ peer' = "connected" /\ UNCHANGED result
             \/ Answers(c, "peer", "refused") /\ UNCHANGED peer
    /\ UNCHANGED <<sendpays, plan, task>>

(***************************************************************************)
(* The peer's features, the amounts of call and invoice, and then those    *)
(* listpeerchannels that can spend more than their minimum.                *)
(***************************************************************************)
ListChannels(c) ==
    /\ \/ Answers(c, "channels", "refused") /\ UNCHANGED kept
       \/ /\ Moves(c, "channels", "await")
          /\ \E usable \in SUBSET Channels \ {{}} : kept' = [kept EXCEPT ![c] = usable]
          /\ UNCHANGED result
    /\ UNCHANGED <<lightningd, group, alloc, task>>

(***************************************************************************)
(* reestablished_channels.  timeout_at is given the future that makes an   *)
(* AwaitableChannel, which is ready at once; the AwaitableChannel it makes *)
(* is never polled.                                                        *)
(***************************************************************************)
AwaitChannels(c) ==
    /\ Moves(c, "await", "allocate")
    /\ UNCHANGED <<lightningd, plan, task, result>>

\* find_allocation, and lightningd's approval of the invoice.
Allocate(c) ==
    /\ \/ /\ Moves(c, "allocate", "spawn")
          /\ \E split \in Splits :
                /\ Len(split) <= Cardinality(kept[c])
                /\ alloc' = [alloc EXCEPT ![c] = split]
          /\ UNCHANGED result
       \/ Answers(c, "allocate", "refused") /\ UNCHANGED alloc
    /\ UNCHANGED <<lightningd, group, kept, task>>

\* The connection to lightningd, the invoice or the list of payments fails.
Refuse(c) ==
    /\ Answers(c, "idle", "refused")
    /\ UNCHANGED <<lightningd, plan, task>>

-----------------------------------------------------------------------------
(* The parts                                                               *)

\* Mutant of PartId: numbers the parts of an invoice through.
PartIdOnward(c, i) == Cardinality(sendpays) + i

\* part_id: 0 for the only part, else counted from 1.
PartId(c, i) == IF Len(alloc[c]) = 1 THEN 0 ELSE i

(***************************************************************************)
(* One round of the loop: a connection to lightningd, and a task.  Without *)
(* a connection the call fails, and the tasks spawned so far go on.        *)
(***************************************************************************)
SpawnPart(c) ==
    /\ Len(task[c]) < Len(alloc[c])
    /\ \/ /\ Moves(c, "spawn", IF Len(task[c]) + 1 = Len(alloc[c]) THEN "join" ELSE "spawn")
          /\ task' = [task EXCEPT ![c] = Append(@, "spawned")]
          /\ UNCHANGED result
       \/ Answers(c, "spawn", "refused") /\ UNCHANGED task
    /\ UNCHANGED <<lightningd, plan>>

Continues(c, i, from, to) ==
    /\ task[c][i] = from
    /\ task' = [task EXCEPT ![c][i] = to]

(***************************************************************************)
(* lightningd's sendpay.  It has no second group in flight, sends no part  *)
(* twice, and no more parts once they cover the total the call states; for *)
(* a part that is pending and for an invoice that is paid it sends nothing *)
(* and reports success.                                                    *)
(***************************************************************************)
Joins(g, id) ==
    \/ With("complete") # {}
    \/ \E p \in With("pending") : p.group = g /\ p.id = id

Refuses(g, id, total) ==
    \/ \E p \in With("pending") : p.group # g
    \/ \E p \in With("failed") : p.group = g /\ p.id = id
    \/ Msat(With("pending")) >= total

\* do_pay up to the answer of sendpay.
SendPart(c, i) ==
    LET g == group[c]
        id == PartId(c, i)
        New(status) == [by |-> c, group |-> g, id |-> id, msat |-> alloc[c][i],
                        status |-> status]
    IN  /\ \/ /\ Joins(g, id)
              /\ Continues(c, i, "spawned", "sent")
              /\ UNCHANGED sendpays
           \/ /\ ~Joins(g, id) /\ ~Refuses(g, id, Sent(alloc[c]))
              /\ \/ Continues(c, i, "spawned", "sent") /\ sendpays' = sendpays \cup {New("pending")}
                 \/ Continues(c, i, "spawned", "failed") /\ sendpays' = sendpays \cup {New("failed")}
           \/ /\ ~Joins(g, id)
              /\ Continues(c, i, "spawned", "failed")
              /\ UNCHANGED sendpays
        /\ UNCHANGED <<peer, pc, plan, result>>

\* waitsendpay for the part, which fails at once for one that was never sent.
WaitPart(c, i) ==
    LET mine == {p \in sendpays : p.group = group[c] /\ p.id = PartId(c, i)}
    IN  /\ mine \cap With("pending") = {}
        /\ Continues(c, i, "sent", IF mine \cap With("complete") # {} THEN "paid" ELSE "failed")
        /\ UNCHANGED <<lightningd, pc, plan, result>>

Ended(c) == {i \in DOMAIN task[c] : task[c][i] \in {"paid", "failed"}}

\* Mutant of Joined: try_join_all, which does not wait for the rest after an error.
JoinedOrFailed(c) ==
    \/ Ended(c) = DOMAIN alloc[c]
    \/ \E i \in Ended(c) : task[c][i] = "failed"

\* Mutant of Joined: waits for every part to be paid.
JoinedPaid(c) == \A i \in DOMAIN alloc[c] : i \in Ended(c) /\ task[c][i] = "paid"

\* Mutant of Folded: reports a partial completion.
FoldedPartly(c) ==
    IF \A i \in DOMAIN task[c] : task[c][i] = "paid" THEN "preimage"
    ELSE IF \E i \in DOMAIN task[c] : task[c][i] = "paid" THEN "partial" ELSE "failed"

\* join_all
Joined(c) == Ended(c) = DOMAIN alloc[c]

\* Mutant of Folded: the first preimage makes the call succeed.
FoldedAny(c) == IF \E i \in DOMAIN task[c] : task[c][i] = "paid" THEN "preimage" ELSE "failed"

\* The results are folded with ?: one failed part makes the call fail.
Folded(c) == IF \A i \in DOMAIN task[c] : task[c][i] = "paid" THEN "preimage" ELSE "failed"

Join(c) ==
    /\ Joined(c)
    /\ Answers(c, "join", Folded(c))
    /\ UNCHANGED <<lightningd, plan, task>>

\* The client goes away and the handler is dropped; spawned tasks go on.
Cancel(c) ==
    /\ pc[c] \notin {"idle", "done"}
    /\ pc' = [pc EXCEPT ![c] = "done"]
    /\ UNCHANGED <<lightningd, plan, task, result>>

-----------------------------------------------------------------------------
(* lightningd and the trampoline node                                      *)

Becomes(p, status) ==
    /\ p \in With("pending")
    /\ sendpays' = (sendpays \ {p}) \cup {[p EXCEPT !.status = status]}
    /\ UNCHANGED <<peer, pc, plan, task, result>>

(***************************************************************************)
(* The trampoline node fulfils the parts of a group when they cover the    *)
(* amount (any split's, they are all of one amount), and then all of them. *)
(***************************************************************************)
Covered(g) ==
    LET parts == {p \in sendpays : p.group = g /\ p.status # "failed"}
    IN  \E split \in Splits : Msat(parts) >= Sent(split)

Fulfil(p) == Covered(p.group) /\ Becomes(p, "complete")

\* A part that is not being fulfilled with its group can fail.
Fail(p) ==
    /\ \A q \in With("complete") : q.group # p.group
    /\ Becomes(p, "failed")

Settle(p) == Fulfil(p) \/ Fail(p)

-----------------------------------------------------------------------------

CallStep(c) ==
    \/ List(c) \/ WaitEarlier(c) \/ AwaitPeer(c) \/ ListChannels(c)
    \/ Refuse(c) \/ AwaitChannels(c) \/ Allocate(c) \/ SpawnPart(c) \/ Join(c)

TaskStep(c, i) == SendPart(c, i) \/ WaitPart(c, i)

Next ==
    \/ \E c \in Calls : CallStep(c) \/ Cancel(c)
    \/ \E c \in Calls : \E i \in DOMAIN task[c] : TaskStep(c, i)
    \/ \E p \in sendpays : Settle(p)

Spec == Init /\ [][Next]_vars

(***************************************************************************)
(* Calls and tasks that can run do, and the parts are settled one way or   *)
(* the other, at the latest when their HTLCs time out.                     *)
(***************************************************************************)
Fairness ==
    /\ \A c \in Calls : WF_vars(CallStep(c))
    /\ \A c \in Calls : WF_vars(\E i \in DOMAIN task[c] : TaskStep(c, i))
    /\ WF_vars(\E p \in sendpays : Settle(p))

FairSpec == Spec /\ Fairness

-----------------------------------------------------------------------------
(* Properties                                                              *)

(***************************************************************************)
(* "A second invocation ... must not send any htlc": a call that starts    *)
(* when the invoice is paid, by whatever call and part, spawns no part.    *)
(***************************************************************************)
PaidIsNotSentAgain ==
    \A c \in Calls : [](With("complete") # {} /\ pc[c] = "idle" => [](task[c] = <<>>))

(***************************************************************************)
(* However calls overlap, fail and are repeated, what is paid is the       *)
(* amount once, as long as the calls that share a group split it alike.    *)
(***************************************************************************)
SplitAlike ==
    \A c, d \in Calls :
        group[c] # group[d] \/ alloc[c] = <<>> \/ alloc[d] = <<>> \/ alloc[c] = alloc[d]

PaidOnce ==
    SplitAlike => \A c \in Calls : alloc[c] # <<>> => Msat(With("complete")) <= Sent(alloc[c])

(***************************************************************************)
(* A preimage that a call reports for parts of its own stands for all of   *)
(* them: whoever sent them, what is paid by then is the amount in full.    *)
(***************************************************************************)
PaidInFull ==
    SplitAlike =>
        \A c \in Calls : alloc[c] # <<>> /\ result[c] = "preimage" =>
            Msat(With("complete")) >= Sent(alloc[c])

\* What of a call shows in Payment: where it stands, ...
StageOf(c) ==
    CASE pc[c] = "idle" -> "idle"
      [] pc[c] = "earlier" -> "asking"
      [] pc[c] \notin {"idle", "earlier", "done"} -> "paying"
      [] pc[c] = "done" /\ result[c] \in {"preimage", "failed"} -> result[c]
      [] OTHER -> IF group[c] = 0 THEN "over" ELSE "gone"

Stages == [c \in Calls |-> StageOf(c)]

\* ... and whether it has a part in flight.
Flying == {p.by : p \in With("pending")}

Promise == INSTANCE Payment WITH
    stage <- Stages, flying <- Flying, paid <- With("complete") # {}

(***************************************************************************)
(* Calls, tasks and parts together keep what Payment promises: what a call *)
(* does about the invoice depends on what it finds when it starts, and     *)
(* nothing leaves the node for it after its answer or for a paid invoice.  *)
(***************************************************************************)
KeepsPromise == Promise!Spec

\* Every call answers, or its client has left.
EveryCallAnswers == \A c \in Calls : pc[c] # "idle" ~> pc[c] = "done"

=============================================================================
