-------------------------- MODULE TrampolineProofs --------------------------
(***************************************************************************)
(* Proofs about concurrent trampoline payments of one invoice, for any     *)
(* number of calls and channels and any set of allocations: a preimage     *)
(* that is reported is one, an answer about the parts comes when none of   *)
(* them is in flight any more, what is paid is the amount, once and in     *)
(* full, and calls, tasks and parts together implement Payment.            *)
(***************************************************************************)
EXTENDS Trampoline, FiniteSetTheorems, WellFoundedInduction, TLAPS

\* A call that reports a preimage is right: a part of the invoice is paid.
PreimageIsPaid ==
    \A c \in Calls : result[c] = "preimage" => With("complete") # {}

(***************************************************************************)
(* A call that answers with what became of its parts has none in flight,   *)
(* whichever of them failed first: no money is left behind an error.       *)
(***************************************************************************)
AnswersWhenSettled ==
    \A p \in With("pending") : result[p.by] \notin {"preimage", "failed"}

\* Some part belongs to the last group: groups are counted from what is there.
HasLastGroup ==
    sendpays # {} => \E p \in sendpays : \A q \in sendpays : q.group <= p.group

\* Parts are spawned for the allocation a call has made, and not before.
SpawnedAsAllocated ==
    \A c \in Calls :
        /\ Len(task[c]) <= Len(alloc[c])
        /\ pc[c] \in {"spawn", "join"} => alloc[c] \in Splits
        /\ pc[c] \notin {"spawn", "join", "done"} => task[c] = <<>>

\* Every part in flight has a task that waits for it.
InFlightIsAwaited ==
    \A p \in With("pending") : \E i \in DOMAIN task[p.by] :
        /\ task[p.by][i] = "sent"
        /\ p.group = group[p.by] /\ p.id = PartId(p.by, i)

\* After an answer about the parts every task has ended.
AnsweredHasEnded ==
    \A c \in Calls : result[c] \in {"preimage", "failed"} =>
        pc[c] = "done" /\ \A i \in DOMAIN task[c] : task[c][i] \in {"paid", "failed"}

\* A task reports a preimage only if a part is paid.
TaskPaidIsPaid ==
    \A c \in Calls : \A i \in DOMAIN task[c] : task[c][i] = "paid" => With("complete") # {}

TrampolineInv ==
    /\ TypeOK
    /\ HasLastGroup
    /\ SpawnedAsAllocated
    /\ InFlightIsAwaited
    /\ AnsweredHasEnded
    /\ TaskPaidIsPaid
    /\ PreimageIsPaid

-----------------------------------------------------------------------------

\* The group a call takes for its parts is a number.
LEMMA LastGroupType ==
    ASSUME TypeOK, HasLastGroup
    PROVE  LastGroup \in Nat
<1>1. CASE sendpays = {}
  BY <1>1 DEF LastGroup
<1>2. CASE sendpays # {}
  <2> DEFINE S == {p.group : p \in sendpays}
  <2>1. S \subseteq Nat
    BY DEF TypeOK, Part
  <2>2. \E x \in S : \A y \in S : x >= y
    <3>1. PICK p \in sendpays : \A q \in sendpays : q.group <= p.group
      BY <1>2 DEF HasLastGroup
    <3>2. p.group \in S /\ \A y \in S : p.group >= y
      BY <3>1, <2>1
    <3> QED
      BY <3>2
  <2>3. Max(S) \in S
    BY <2>2 DEF Max
  <2> QED
    BY <1>2, <2>1, <2>3 DEF LastGroup
<1> QED
  BY <1>1, <1>2

\* A step that touches neither parts nor tasks keeps what is said about them.
LEMMA PartsUntouched ==
    ASSUME HasLastGroup, InFlightIsAwaited, TaskPaidIsPaid,
           UNCHANGED <<sendpays, group, alloc, task>>
    PROVE  HasLastGroup' /\ InFlightIsAwaited' /\ TaskPaidIsPaid'
  BY DEF HasLastGroup, InFlightIsAwaited, TaskPaidIsPaid, With, PartId

\* Before the parts are spawned a call has none in flight.
LEMMA NoneBeforeSpawn ==
    ASSUME TypeOK, SpawnedAsAllocated, InFlightIsAwaited,
           NEW c \in Calls, pc[c] \notin {"spawn", "join", "done"}
    PROVE  \A p \in With("pending") : p.by # c
<1> SUFFICES ASSUME NEW p \in With("pending"), p.by = c
             PROVE  FALSE
  OBVIOUS
<1>1. task[c] = <<>>
  BY DEF SpawnedAsAllocated
<1>2. PICK i \in DOMAIN task[c] : TRUE
  BY DEF InFlightIsAwaited
<1> QED
  BY <1>1, <1>2

-----------------------------------------------------------------------------
(* The steps of a call                                                     *)

LEMMA ListKeeps ==
    ASSUME TrampolineInv, NEW c \in Calls, List(c)
    PROVE  TrampolineInv'
<1> USE DEF TrampolineInv
<1>1. LastGroup + 1 \in Nat
  BY LastGroupType
<1>2. pc[c] = "idle" /\ UNCHANGED <<peer, sendpays, kept, alloc, task, result>>
  BY DEF List, Moves, lightningd
<1>3. pc' \in [Calls -> {"idle", "earlier", "peer", "channels", "await",
                         "allocate", "spawn", "join", "done"}]
      /\ pc'[c] \in {"earlier", "peer"} /\ \A d \in Calls \ {c} : pc'[d] = pc[d]
  BY DEF List, Moves, TypeOK
<1>4. group' \in [Calls -> Nat] /\ \A d \in Calls \ {c} : group'[d] = group[d]
  BY <1>1 DEF List, TypeOK
<1>5. TypeOK'
  BY <1>2, <1>3, <1>4 DEF TypeOK
<1>6. SpawnedAsAllocated'
  BY <1>2, <1>3 DEF SpawnedAsAllocated
<1>7. InFlightIsAwaited'
  <2> SUFFICES ASSUME NEW p \in With("pending")
               PROVE  \E i \in DOMAIN task[p.by] :
                        /\ task[p.by][i] = "sent"
                        /\ p.group = group'[p.by] /\ p.id = PartId(p.by, i)
    BY <1>2 DEF InFlightIsAwaited, With, PartId
  <2>1. p.by # c /\ p.by \in Calls
    BY <1>2, NoneBeforeSpawn DEF TypeOK, With, Part
  <2> QED
    BY <2>1, <1>4 DEF InFlightIsAwaited
<1>8. AnsweredHasEnded'
  BY <1>2, <1>3 DEF AnsweredHasEnded
<1>9. HasLastGroup' /\ TaskPaidIsPaid' /\ PreimageIsPaid'
  BY <1>2 DEF HasLastGroup, TaskPaidIsPaid, PreimageIsPaid, With
<1> QED
  BY <1>5, <1>6, <1>7, <1>8, <1>9

\* A call that ends before it has spawned a part.
LEMMA EarlyAnswerKeeps ==
    ASSUME TrampolineInv, NEW c \in Calls,
           NEW from \in {"idle", "earlier", "peer", "channels", "allocate"},
           NEW answer \in {"preimage", "failed", "refused"},
           Answers(c, from, answer),
           answer = "preimage" => With("complete") # {},
           UNCHANGED <<lightningd, plan, task>>
    PROVE  TrampolineInv'
<1> USE DEF TrampolineInv
<1>1. /\ pc[c] = from /\ UNCHANGED <<peer, sendpays, group, kept, alloc, task>>
      /\ pc' = [pc EXCEPT ![c] = "done"] /\ result' = [result EXCEPT ![c] = answer]
  BY DEF Answers, Moves, lightningd, plan
<1>2. task[c] = <<>>
  BY <1>1 DEF SpawnedAsAllocated
<1>3. TypeOK'
  BY <1>1 DEF TypeOK, Results
<1>4. SpawnedAsAllocated'
  BY <1>1 DEF SpawnedAsAllocated, TypeOK
<1>5. HasLastGroup' /\ InFlightIsAwaited' /\ TaskPaidIsPaid'
  BY <1>1, PartsUntouched
<1>6. AnsweredHasEnded'
  <2> SUFFICES ASSUME NEW d \in Calls, result'[d] \in {"preimage", "failed"}
               PROVE  pc'[d] = "done" /\ \A i \in DOMAIN task[d] : task[d][i] \in {"paid", "failed"}
    BY <1>1 DEF AnsweredHasEnded
  <2>1. CASE d = c
    BY <2>1, <1>1, <1>2 DEF TypeOK
  <2>2. CASE d # c
    BY <2>2, <1>1 DEF AnsweredHasEnded, TypeOK
  <2> QED
    BY <2>1, <2>2
<1>7. PreimageIsPaid'
  BY <1>1 DEF PreimageIsPaid, With, TypeOK
<1> QED
  BY <1>3, <1>4, <1>5, <1>6, <1>7

\* A call that goes on before it has spawned a part.
LEMMA EarlyMoveKeeps ==
    ASSUME TrampolineInv, NEW c \in Calls,
           NEW from \in {"idle", "earlier", "peer", "channels", "await"},
           NEW to \in {"channels", "await", "allocate"},
           Moves(c, from, to),
           peer' \in {"unknown", "away", "connected"},
           kept' \in [Calls -> SUBSET Channels],
           UNCHANGED <<sendpays, group, alloc, task, result>>
    PROVE  TrampolineInv'
<1> USE DEF TrampolineInv
<1>1. pc[c] = from /\ pc' = [pc EXCEPT ![c] = to]
  BY DEF Moves
<1>2. TypeOK'
  BY <1>1 DEF TypeOK
<1>3. SpawnedAsAllocated'
  BY <1>1 DEF SpawnedAsAllocated, TypeOK
<1>4. HasLastGroup' /\ InFlightIsAwaited' /\ TaskPaidIsPaid'
  BY PartsUntouched
<1>5. AnsweredHasEnded'
  BY <1>1 DEF AnsweredHasEnded, TypeOK
<1>6. PreimageIsPaid'
  BY DEF PreimageIsPaid, With
<1> QED
  BY <1>2, <1>3, <1>4, <1>5, <1>6

LEMMA AllocateKeeps ==
    ASSUME TrampolineInv, NEW c \in Calls, Moves(c, "allocate", "spawn"),
           NEW split \in Splits, alloc' = [alloc EXCEPT ![c] = split],
           UNCHANGED <<peer, sendpays, group, kept, task, result>>
    PROVE  TrampolineInv'
<1> USE DEF TrampolineInv
<1>1. pc[c] = "allocate" /\ pc' = [pc EXCEPT ![c] = "spawn"]
  BY DEF Moves
<1>2. task[c] = <<>>
  BY <1>1 DEF SpawnedAsAllocated
<1>3. split \in Seq(Nat \ {0})
  BY TrampolineAssumption
<1>4. TypeOK'
  BY <1>1 DEF TypeOK
<1>5. SpawnedAsAllocated'
  <2> SUFFICES ASSUME NEW d \in Calls
               PROVE  /\ Len(task[d]) <= Len(alloc'[d])
                      /\ pc'[d] \in {"spawn", "join"} => alloc'[d] \in Splits
                      /\ pc'[d] \notin {"spawn", "join", "done"} => task[d] = <<>>
    BY DEF SpawnedAsAllocated
  <2>1. CASE d = c
    <3>1. alloc'[d] = split /\ Len(split) \in Nat /\ Len(task[d]) = 0
      BY <2>1, <1>2, <1>3 DEF TypeOK
    <3> QED
      BY <2>1, <3>1, <1>1 DEF TypeOK
  <2>2. CASE d # c
    BY <2>2, <1>1 DEF SpawnedAsAllocated, TypeOK
  <2> QED
    BY <2>1, <2>2
<1>6. InFlightIsAwaited'
  <2> SUFFICES ASSUME NEW p \in With("pending")
               PROVE  \E i \in DOMAIN task[p.by] :
                        /\ task[p.by][i] = "sent"
                        /\ p.group = group[p.by] /\ p.id = PartId(p.by, i)'
    BY DEF InFlightIsAwaited, With
  <2>1. p.by # c /\ p.by \in Calls
    BY <1>1, NoneBeforeSpawn DEF TypeOK, With, Part
  <2>2. alloc'[p.by] = alloc[p.by]
    BY <2>1 DEF TypeOK
  <2> QED
    BY <2>2 DEF InFlightIsAwaited, PartId
<1>7. AnsweredHasEnded'
  BY <1>1 DEF AnsweredHasEnded, TypeOK
<1>8. HasLastGroup' /\ TaskPaidIsPaid' /\ PreimageIsPaid'
  BY DEF HasLastGroup, TaskPaidIsPaid, PreimageIsPaid, With
<1> QED
  BY <1>4, <1>5, <1>6, <1>7, <1>8

\* A task that is appended waits for nothing yet.
LEMMA SpawnKeeps ==
    ASSUME TrampolineInv, NEW c \in Calls, NEW to \in {"spawn", "join"},
           Moves(c, "spawn", to), Len(task[c]) < Len(alloc[c]),
           task' = [task EXCEPT ![c] = Append(@, "spawned")],
           UNCHANGED <<lightningd, plan, result>>
    PROVE  TrampolineInv'
<1> USE DEF TrampolineInv
<1>1. /\ pc[c] = "spawn" /\ pc' = [pc EXCEPT ![c] = to]
      /\ UNCHANGED <<peer, sendpays, group, kept, alloc, result>>
  BY DEF Moves, lightningd, plan
<1>2. /\ task[c] \in Seq({"spawned", "sent", "paid", "failed"})
      /\ task'[c] = Append(task[c], "spawned")
      /\ \A d \in Calls \ {c} : task'[d] = task[d]
  BY DEF TypeOK
<1>3. /\ task'[c] \in Seq({"spawned", "sent", "paid", "failed"})
      /\ Len(task'[c]) = Len(task[c]) + 1
      /\ \A i \in DOMAIN task[c] : i \in DOMAIN task'[c] /\ task'[c][i] = task[c][i]
      /\ \A i \in DOMAIN task'[c] : i \in DOMAIN task[c] \/ task'[c][i] = "spawned"
  BY <1>2
<1>4. TypeOK'
  BY <1>1, <1>3 DEF TypeOK
<1>5. SpawnedAsAllocated'
  <2> SUFFICES ASSUME NEW d \in Calls
               PROVE  /\ Len(task'[d]) <= Len(alloc[d])
                      /\ pc'[d] \in {"spawn", "join"} => alloc[d] \in Splits
                      /\ pc'[d] \notin {"spawn", "join", "done"} => task'[d] = <<>>
    BY <1>1 DEF SpawnedAsAllocated
  <2>1. CASE d = c
    <3>1. Len(task[c]) \in Nat /\ Len(alloc[c]) \in Nat
      BY <1>2, TrampolineAssumption DEF TypeOK
    <3> QED
      BY <2>1, <3>1, <1>1, <1>3 DEF SpawnedAsAllocated, TypeOK
  <2>2. CASE d # c
    BY <2>2, <1>1, <1>2 DEF SpawnedAsAllocated, TypeOK
  <2> QED
    BY <2>1, <2>2
<1>6. InFlightIsAwaited'
  <2> SUFFICES ASSUME NEW p \in With("pending")
               PROVE  \E i \in DOMAIN task'[p.by] :
                        /\ task'[p.by][i] = "sent"
                        /\ p.group = group[p.by] /\ p.id = PartId(p.by, i)
    BY <1>1 DEF InFlightIsAwaited, With, PartId
  <2>1. p.by \in Calls
    BY DEF TypeOK, With, Part
  <2>2. PICK i \in DOMAIN task[p.by] :
            /\ task[p.by][i] = "sent"
            /\ p.group = group[p.by] /\ p.id = PartId(p.by, i)
    BY DEF InFlightIsAwaited
  <2>3. i \in DOMAIN task'[p.by] /\ task'[p.by][i] = "sent"
    BY <2>1, <2>2, <1>2, <1>3
  <2> QED
    BY <2>2, <2>3
<1>7. AnsweredHasEnded'
  <2> SUFFICES ASSUME NEW d \in Calls, result[d] \in {"preimage", "failed"}
               PROVE  pc'[d] = "done" /\ \A i \in DOMAIN task'[d] : task'[d][i] \in {"paid", "failed"}
    BY <1>1 DEF AnsweredHasEnded
  <2>1. d # c
    BY <1>1 DEF AnsweredHasEnded
  <2> QED
    BY <2>1, <1>1, <1>2 DEF AnsweredHasEnded, TypeOK
<1>8. TaskPaidIsPaid'
  <2> SUFFICES ASSUME NEW d \in Calls, NEW i \in DOMAIN task'[d], task'[d][i] = "paid"
               PROVE  With("complete") # {}
    BY <1>1 DEF TaskPaidIsPaid, With
  <2>1. i \in DOMAIN task[d] /\ task[d][i] = "paid"
    BY <1>2, <1>3
  <2> QED
    BY <2>1 DEF TaskPaidIsPaid
<1>9. HasLastGroup' /\ PreimageIsPaid'
  BY <1>1 DEF HasLastGroup, PreimageIsPaid, With
<1> QED
  BY <1>4, <1>5, <1>6, <1>7, <1>8, <1>9

\* A call that is answered, or left, with tasks that may still be running.
LEMMA LateEndKeeps ==
    ASSUME TrampolineInv, NEW c \in Calls, pc[c] # "done",
           pc' = [pc EXCEPT ![c] = "done"],
           NEW answer \in Results, result' = [result EXCEPT ![c] = answer],
           answer \in {"preimage", "failed"} =>
               \A i \in DOMAIN task[c] : task[c][i] \in {"paid", "failed"},
           answer = "preimage" => With("complete") # {},
           UNCHANGED <<lightningd, plan, task>>
    PROVE  TrampolineInv'
<1> USE DEF TrampolineInv
<1>1. UNCHANGED <<peer, sendpays, group, kept, alloc, task>>
  BY DEF lightningd, plan
<1>2. TypeOK'
  BY <1>1 DEF TypeOK
<1>3. SpawnedAsAllocated'
  BY <1>1 DEF SpawnedAsAllocated, TypeOK
<1>4. HasLastGroup' /\ InFlightIsAwaited' /\ TaskPaidIsPaid'
  BY <1>1, PartsUntouched
<1>5. AnsweredHasEnded'
  <2> SUFFICES ASSUME NEW d \in Calls, result'[d] \in {"preimage", "failed"}
               PROVE  pc'[d] = "done" /\ \A i \in DOMAIN task[d] : task[d][i] \in {"paid", "failed"}
    BY <1>1 DEF AnsweredHasEnded
  <2>1. CASE d = c
    BY <2>1 DEF TypeOK
  <2>2. CASE d # c
    BY <2>2 DEF AnsweredHasEnded, TypeOK
  <2> QED
    BY <2>1, <2>2
<1>6. PreimageIsPaid'
  BY <1>1 DEF PreimageIsPaid, With, TypeOK
<1> QED
  BY <1>2, <1>3, <1>4, <1>5, <1>6

\* join_all has waited for every part of the allocation.
LEMMA JoinKeeps ==
    ASSUME TrampolineInv, NEW c \in Calls, Join(c)
    PROVE  TrampolineInv'
<1> USE DEF TrampolineInv
<1>1. /\ pc[c] = "join" /\ pc' = [pc EXCEPT ![c] = "done"]
      /\ result' = [result EXCEPT ![c] = Folded(c)]
      /\ UNCHANGED <<lightningd, plan, task>>
  BY DEF Join, Answers, Moves
<1>2. /\ alloc[c] \in Seq(Nat \ {0}) /\ alloc[c] # <<>>
      /\ task[c] \in Seq({"spawned", "sent", "paid", "failed"})
      /\ Len(task[c]) <= Len(alloc[c])
  BY <1>1, TrampolineAssumption DEF SpawnedAsAllocated, TypeOK
<1>3. \A i \in DOMAIN alloc[c] : i \in DOMAIN task[c] /\ task[c][i] \in {"paid", "failed"}
  BY DEF Join, Joined, Ended
<1>4. \A i \in DOMAIN task[c] : task[c][i] \in {"paid", "failed"}
  BY <1>2, <1>3
<1>5. Folded(c) = "preimage" => With("complete") # {}
  <2> SUFFICES ASSUME Folded(c) = "preimage"
               PROVE  With("complete") # {}
    OBVIOUS
  <2>1. \A i \in DOMAIN task[c] : task[c][i] = "paid"
    BY DEF Folded
  <2>2. 1 \in DOMAIN alloc[c]
    BY <1>2
  <2> QED
    BY <2>1, <2>2, <1>3 DEF TaskPaidIsPaid
<1>6. Folded(c) \in Results
  BY DEF Folded, Results
<1> QED
  BY <1>1, <1>4, <1>5, <1>6, LateEndKeeps

-----------------------------------------------------------------------------
(* The steps of a task and of lightningd                                   *)

\* What a step of one task changes of the tasks.
LEMMA TaskMoves ==
    ASSUME TypeOK, NEW c \in Calls, NEW i \in DOMAIN task[c], NEW from,
           NEW to \in {"sent", "paid", "failed"}, Continues(c, i, from, to)
    PROVE  /\ task[c][i] = from
           /\ task' \in [Calls -> Seq({"spawned", "sent", "paid", "failed"})]
           /\ \A d \in Calls : DOMAIN task'[d] = DOMAIN task[d] /\ Len(task'[d]) = Len(task[d])
           /\ task'[c][i] = to
           /\ \A d \in Calls : \A j \in DOMAIN task[d] : d # c \/ j # i => task'[d][j] = task[d][j]
  BY DEF Continues, TypeOK

\* A running task belongs to a call that has spawned it and not had its outcome.
LEMMA RunningIsUnanswered ==
    ASSUME SpawnedAsAllocated, AnsweredHasEnded,
           NEW c \in Calls, NEW i \in DOMAIN task[c], task[c][i] \in {"spawned", "sent"}
    PROVE  pc[c] \in {"spawn", "join", "done"} /\ result[c] \notin {"preimage", "failed"}
<1>1. task[c] # <<>>
  OBVIOUS
<1>2. pc[c] \in {"spawn", "join", "done"}
  BY <1>1 DEF SpawnedAsAllocated
<1>3. result[c] \notin {"preimage", "failed"}
  BY DEF AnsweredHasEnded
<1> QED
  BY <1>2, <1>3

\* sendpay leaves the list of parts alone or adds one; a pending one is awaited.
LEMMA SendKeeps ==
    ASSUME TrampolineInv, NEW c \in Calls, NEW i \in DOMAIN task[c], SendPart(c, i)
    PROVE  TrampolineInv'
<1> USE DEF TrampolineInv
<1> DEFINE New(status) == [by |-> c, group |-> group[c], id |-> PartId(c, i),
                           msat |-> alloc[c][i], status |-> status]
<1>1. UNCHANGED <<peer, pc, group, kept, alloc, result>>
  BY DEF SendPart, plan
<1>2. PICK to \in {"sent", "failed"} :
        /\ Continues(c, i, "spawned", to)
        /\ \/ sendpays' = sendpays
           \/ to = "sent" /\ sendpays' = sendpays \cup {New("pending")}
           \/ to = "failed" /\ sendpays' = sendpays \cup {New("failed")}
  BY DEF SendPart
<1>3. /\ task[c][i] = "spawned"
      /\ task' \in [Calls -> Seq({"spawned", "sent", "paid", "failed"})]
      /\ \A d \in Calls : DOMAIN task'[d] = DOMAIN task[d] /\ Len(task'[d]) = Len(task[d])
      /\ task'[c][i] = to
      /\ \A d \in Calls : \A j \in DOMAIN task[d] : d # c \/ j # i => task'[d][j] = task[d][j]
  BY <1>2, TaskMoves
<1>4. pc[c] \in {"spawn", "join", "done"} /\ result[c] \notin {"preimage", "failed"}
  BY <1>3, RunningIsUnanswered
<1>5. \A status \in {"pending", "failed"} : New(status) \in Part
  <2>1. alloc[c] \in Seq(Nat \ {0}) /\ i \in DOMAIN alloc[c]
    <3>1. alloc[c] \in Seq(Nat \ {0})
      <4>1. alloc[c] \in Splits \/ alloc[c] = <<>>
        BY DEF TypeOK
      <4>2. Splits \subseteq Seq(Nat \ {0}) /\ <<>> \in Seq(Nat \ {0})
        BY TrampolineAssumption
      <4> QED
        BY <4>1, <4>2
    <3>2. task[c] \in Seq({"spawned", "sent", "paid", "failed"}) /\ Len(task[c]) <= Len(alloc[c])
      BY DEF TypeOK, SpawnedAsAllocated
    <3> QED
      BY <3>1, <3>2
  <2>2. PartId(c, i) \in Nat /\ alloc[c][i] \in Nat /\ group[c] \in Nat
    BY <2>1 DEF PartId, TypeOK
  <2> QED
    BY <2>2 DEF Part
<1>6. sendpays' \in SUBSET Part /\ sendpays \subseteq sendpays'
  BY <1>2, <1>5 DEF TypeOK
<1>7. TypeOK'
  BY <1>1, <1>3, <1>6 DEF TypeOK
<1>8. HasLastGroup'
  <2>1. CASE sendpays' = sendpays
    BY <2>1 DEF HasLastGroup
  <2>2. ASSUME NEW status \in {"pending", "failed"}, sendpays' = sendpays \cup {New(status)}
        PROVE  HasLastGroup'
    <3>1. New(status).group \in Nat /\ New(status) \in sendpays'
      BY <2>2, <1>5 DEF Part
    <3>2. CASE sendpays = {}
      BY <2>2, <3>1, <3>2 DEF HasLastGroup
    <3>3. CASE sendpays # {}
      <4>1. PICK p \in sendpays : \A q \in sendpays : q.group <= p.group
        BY <3>3 DEF HasLastGroup
      <4>2. p.group \in Nat /\ \A q \in sendpays : q.group \in Nat
        BY DEF TypeOK, Part
      <4>3. CASE New(status).group <= p.group
        BY <2>2, <4>1, <4>3 DEF HasLastGroup
      <4>4. CASE p.group < New(status).group
        <5> HIDE DEF New
        <5>1. \A q \in sendpays' : q.group <= New(status).group
          BY <2>2, <3>1, <4>1, <4>2, <4>4
        <5> QED
          BY <3>1, <5>1 DEF HasLastGroup
      <4> QED
        BY <3>1, <4>2, <4>3, <4>4
    <3> QED
      BY <3>2, <3>3
  <2> QED
    BY <1>2, <2>1, <2>2
<1>9. SpawnedAsAllocated'
  <2> SUFFICES ASSUME NEW d \in Calls
               PROVE  /\ Len(task'[d]) <= Len(alloc[d])
                      /\ pc[d] \in {"spawn", "join"} => alloc[d] \in Splits
                      /\ pc[d] \notin {"spawn", "join", "done"} => task'[d] = <<>>
    BY <1>1 DEF SpawnedAsAllocated
  <2>1. Len(task'[d]) = Len(task[d]) /\ task'[d] \in Seq({"spawned", "sent", "paid", "failed"})
    BY <1>3
  <2>2. task[d] = <<>> => task'[d] = <<>>
    BY <2>1
  <2> QED
    BY <2>1, <2>2 DEF SpawnedAsAllocated
<1>10. InFlightIsAwaited'
  <2> SUFFICES ASSUME NEW p \in With("pending")'
               PROVE  \E j \in DOMAIN task'[p.by] :
                        /\ task'[p.by][j] = "sent"
                        /\ p.group = group[p.by] /\ p.id = PartId(p.by, j)
    BY <1>1 DEF InFlightIsAwaited, PartId
  <2>1. CASE p \in sendpays
    <3>1. p.by \in Calls /\ p \in With("pending")
      BY <2>1 DEF With, TypeOK, Part
    <3>2. PICK j \in DOMAIN task[p.by] :
            /\ task[p.by][j] = "sent"
            /\ p.group = group[p.by] /\ p.id = PartId(p.by, j)
      BY <3>1 DEF InFlightIsAwaited
    <3>3. p.by # c \/ j # i
      BY <3>2, <1>3
    <3> QED
      BY <3>1, <3>2, <3>3, <1>3
  <2>2. CASE p \notin sendpays
    <3>1. p = New("pending") /\ to = "sent"
      BY <2>2, <1>2 DEF With
    <3>2. p.by = c /\ p.group = group[c] /\ p.id = PartId(c, i)
      BY <3>1
    <3> QED
      BY <3>1, <3>2, <1>3
  <2> QED
    BY <2>1, <2>2
<1>11. AnsweredHasEnded'
  <2> SUFFICES ASSUME NEW d \in Calls, result[d] \in {"preimage", "failed"}
               PROVE  pc[d] = "done" /\ \A j \in DOMAIN task'[d] : task'[d][j] \in {"paid", "failed"}
    BY <1>1 DEF AnsweredHasEnded
  <2>1. d # c
    BY <1>4
  <2> QED
    BY <2>1, <1>3 DEF AnsweredHasEnded
<1>12. With("complete") \subseteq With("complete")'
  BY <1>6 DEF With
<1>13. TaskPaidIsPaid'
  <2> SUFFICES ASSUME NEW d \in Calls, NEW j \in DOMAIN task'[d], task'[d][j] = "paid"
               PROVE  With("complete") # {}
    BY <1>12 DEF TaskPaidIsPaid
  <2>1. j \in DOMAIN task[d] /\ task[d][j] = "paid"
    BY <1>2, <1>3
  <2> QED
    BY <2>1 DEF TaskPaidIsPaid
<1>14. PreimageIsPaid'
  BY <1>1, <1>12 DEF PreimageIsPaid
<1> QED
  BY <1>7, <1>8, <1>9, <1>10, <1>11, <1>13, <1>14

\* waitsendpay returns for a part that is not in flight, or never was.
LEMMA WaitKeeps ==
    ASSUME TrampolineInv, NEW c \in Calls, NEW i \in DOMAIN task[c], WaitPart(c, i)
    PROVE  TrampolineInv'
<1> USE DEF TrampolineInv
<1>1. UNCHANGED <<peer, sendpays, pc, group, kept, alloc, result>>
  BY DEF WaitPart, lightningd, plan
<1>2. PICK to \in {"paid", "failed"} :
        /\ Continues(c, i, "sent", to)
        /\ to = "paid" => With("complete") # {}
  BY DEF WaitPart
<1>3. /\ task[c][i] = "sent"
      /\ task' \in [Calls -> Seq({"spawned", "sent", "paid", "failed"})]
      /\ \A d \in Calls : DOMAIN task'[d] = DOMAIN task[d] /\ Len(task'[d]) = Len(task[d])
      /\ task'[c][i] = to
      /\ \A d \in Calls : \A j \in DOMAIN task[d] : d # c \/ j # i => task'[d][j] = task[d][j]
  BY <1>2, TaskMoves
<1>4. TypeOK'
  BY <1>1, <1>3 DEF TypeOK
<1>5. SpawnedAsAllocated'
  <2> SUFFICES ASSUME NEW d \in Calls
               PROVE  /\ Len(task'[d]) <= Len(alloc[d])
                      /\ pc[d] \in {"spawn", "join"} => alloc[d] \in Splits
                      /\ pc[d] \notin {"spawn", "join", "done"} => task'[d] = <<>>
    BY <1>1 DEF SpawnedAsAllocated
  <2>1. Len(task'[d]) = Len(task[d]) /\ task'[d] \in Seq({"spawned", "sent", "paid", "failed"})
    BY <1>3
  <2>2. task[d] = <<>> => task'[d] = <<>>
    BY <2>1
  <2> QED
    BY <2>1, <2>2 DEF SpawnedAsAllocated
<1>6. InFlightIsAwaited'
  <2> SUFFICES ASSUME NEW p \in With("pending")
               PROVE  \E j \in DOMAIN task'[p.by] :
                        /\ task'[p.by][j] = "sent"
                        /\ p.group = group[p.by] /\ p.id = PartId(p.by, j)
    BY <1>1 DEF InFlightIsAwaited, With, PartId
  <2>1. p.by \in Calls /\ p \in sendpays
    BY DEF With, TypeOK, Part
  <2>2. PICK j \in DOMAIN task[p.by] :
          /\ task[p.by][j] = "sent"
          /\ p.group = group[p.by] /\ p.id = PartId(p.by, j)
    BY DEF InFlightIsAwaited
  <2>3. p.by # c \/ j # i
    BY <2>1, <2>2 DEF WaitPart
  <2> QED
    BY <2>1, <2>2, <2>3, <1>3
<1>7. AnsweredHasEnded'
  <2> SUFFICES ASSUME NEW d \in Calls, result[d] \in {"preimage", "failed"}
               PROVE  pc[d] = "done" /\ \A j \in DOMAIN task'[d] : task'[d][j] \in {"paid", "failed"}
    BY <1>1 DEF AnsweredHasEnded
  <2>1. d # c
    BY <1>3, RunningIsUnanswered
  <2> QED
    BY <2>1, <1>3 DEF AnsweredHasEnded
<1>8. TaskPaidIsPaid'
  <2> SUFFICES ASSUME NEW d \in Calls, NEW j \in DOMAIN task'[d], task'[d][j] = "paid"
               PROVE  With("complete") # {}
    BY <1>1 DEF TaskPaidIsPaid, With
  <2>1. CASE d = c /\ j = i
    BY <2>1, <1>2, <1>3
  <2>2. CASE d # c \/ j # i
    BY <2>2, <1>3 DEF TaskPaidIsPaid
  <2> QED
    BY <2>1, <2>2
<1>9. HasLastGroup' /\ PreimageIsPaid'
  BY <1>1 DEF HasLastGroup, PreimageIsPaid, With
<1> QED
  BY <1>4, <1>5, <1>6, <1>7, <1>8, <1>9

\* lightningd settles a part: what was complete stays so.
LEMMA SettleKeeps ==
    ASSUME TrampolineInv, NEW p \in sendpays, Settle(p)
    PROVE  TrampolineInv'
<1> USE DEF TrampolineInv
<1>1. UNCHANGED <<peer, pc, group, kept, alloc, task, result>>
  BY DEF Settle, Fulfil, Fail, Becomes, plan
<1>2. PICK status \in {"complete", "failed"} :
        p \in With("pending") /\ sendpays' = (sendpays \ {p}) \cup {[p EXCEPT !.status = status]}
  BY DEF Settle, Fulfil, Fail, Becomes
<1> DEFINE q == [p EXCEPT !.status = status]
<1>3. q \in Part /\ q.group = p.group /\ q.status = status
  BY DEF TypeOK, Part
<1> HIDE DEF q
<1>4. sendpays' = (sendpays \ {p}) \cup {q}
  BY <1>2 DEF q
<1>5. With("pending")' \subseteq With("pending") /\ With("complete") \subseteq With("complete")'
  BY <1>2, <1>3, <1>4 DEF With
<1>6. TypeOK'
  BY <1>1, <1>3, <1>4 DEF TypeOK
<1>7. HasLastGroup'
  <2>1. PICK last \in sendpays : \A r \in sendpays : r.group <= last.group
    BY DEF HasLastGroup
  <2>2. CASE last = p
    BY <2>1, <2>2, <1>3, <1>4 DEF HasLastGroup
  <2>3. CASE last # p
    BY <2>1, <2>3, <1>3, <1>4 DEF HasLastGroup
  <2> QED
    BY <2>2, <2>3
<1>8. SpawnedAsAllocated' /\ AnsweredHasEnded'
  BY <1>1 DEF SpawnedAsAllocated, AnsweredHasEnded
<1>9. InFlightIsAwaited'
  BY <1>1, <1>5 DEF InFlightIsAwaited, PartId
<1>10. TaskPaidIsPaid' /\ PreimageIsPaid'
  BY <1>1, <1>5 DEF TaskPaidIsPaid, PreimageIsPaid
<1> QED
  BY <1>6, <1>7, <1>8, <1>9, <1>10

-----------------------------------------------------------------------------
(* The invariant and what follows from it                                  *)

LEMMA CallStepKeeps ==
    ASSUME TrampolineInv, NEW c \in Calls, CallStep(c)
    PROVE  TrampolineInv'
<1> USE DEF TrampolineInv
<1>1. CASE List(c)
  BY <1>1, ListKeeps
<1>2. CASE WaitEarlier(c)
  <2>1. PICK p \in sendpays :
          Answers(c, "earlier", IF p.status = "complete" THEN "preimage" ELSE "failed")
    BY <1>2 DEF WaitEarlier
  <2>2. p.status = "complete" => With("complete") # {}
    BY DEF With
  <2>3. UNCHANGED <<lightningd, plan, task>>
    BY <1>2 DEF WaitEarlier
  <2>4. CASE p.status = "complete"
    BY <2>1, <2>2, <2>3, <2>4, EarlyAnswerKeeps
  <2>5. CASE p.status # "complete"
    BY <2>1, <2>3, <2>5, EarlyAnswerKeeps
  <2> QED
    BY <2>4, <2>5
<1>3. CASE AwaitPeer(c)
  <2>1. CASE Answers(c, "peer", "refused") /\ UNCHANGED peer
    <3>1. UNCHANGED <<lightningd, plan, task>>
      BY <1>3, <2>1 DEF AwaitPeer, lightningd
    <3> QED
      BY <2>1, <3>1, EarlyAnswerKeeps
  <2>2. CASE Moves(c, "peer", "channels") /\ UNCHANGED result /\ peer' = "connected"
    <3>1. UNCHANGED <<sendpays, group, kept, alloc, task>>
      BY <1>3 DEF AwaitPeer, plan
    <3>2. kept' \in [Calls -> SUBSET Channels]
      BY <3>1 DEF TypeOK
    <3> QED
      BY <2>2, <3>1, <3>2, EarlyMoveKeeps
  <2> QED
    BY <1>3, <2>1, <2>2 DEF AwaitPeer
<1>4. CASE ListChannels(c)
  <2>1. CASE Answers(c, "channels", "refused") /\ UNCHANGED kept
    <3>1. UNCHANGED <<lightningd, plan, task>>
      BY <1>4, <2>1 DEF ListChannels, plan
    <3> QED
      BY <2>1, <3>1, EarlyAnswerKeeps
  <2>2. CASE /\ Moves(c, "channels", "await") /\ UNCHANGED result
             /\ \E usable \in SUBSET Channels \ {{}} : kept' = [kept EXCEPT ![c] = usable]
    <3>1. UNCHANGED <<peer, sendpays, group, alloc, task>>
      BY <1>4 DEF ListChannels, lightningd
    <3>2. kept' \in [Calls -> SUBSET Channels] /\ peer' \in {"unknown", "away", "connected"}
      BY <2>2, <3>1 DEF TypeOK
    <3> QED
      BY <2>2, <3>1, <3>2, EarlyMoveKeeps
  <2> QED
    BY <1>4, <2>1, <2>2 DEF ListChannels
<1>5. CASE AwaitChannels(c)
  <2>1. Moves(c, "await", "allocate")
        /\ UNCHANGED <<peer, sendpays, group, kept, alloc, task, result>>
    BY <1>5 DEF AwaitChannels, lightningd, plan
  <2>2. kept' \in [Calls -> SUBSET Channels] /\ peer' \in {"unknown", "away", "connected"}
    BY <2>1 DEF TypeOK
  <2> QED
    BY <2>1, <2>2, EarlyMoveKeeps
<1>6. CASE Allocate(c)
  <2>1. CASE Answers(c, "allocate", "refused") /\ UNCHANGED alloc
    <3>1. UNCHANGED <<lightningd, plan, task>>
      BY <1>6, <2>1 DEF Allocate, plan
    <3> QED
      BY <2>1, <3>1, EarlyAnswerKeeps
  <2>2. CASE /\ Moves(c, "allocate", "spawn") /\ UNCHANGED result
             /\ \E split \in Splits : alloc' = [alloc EXCEPT ![c] = split]
    <3>1. UNCHANGED <<peer, sendpays, group, kept, task>>
      BY <1>6 DEF Allocate, lightningd
    <3> QED
      BY <2>2, <3>1, AllocateKeeps
  <2> QED
    BY <1>6, <2>1, <2>2 DEF Allocate
<1>7. CASE Refuse(c)
  BY <1>7, EarlyAnswerKeeps DEF Refuse
<1>8. CASE SpawnPart(c)
  <2>1. UNCHANGED <<lightningd, plan>> /\ Len(task[c]) < Len(alloc[c])
    BY <1>8 DEF SpawnPart
  <2>2. CASE Answers(c, "spawn", "refused") /\ UNCHANGED task
    BY <2>1, <2>2, LateEndKeeps DEF Answers, Moves, Results
  <2>3. CASE /\ task' = [task EXCEPT ![c] = Append(@, "spawned")] /\ UNCHANGED result
             /\ \E to \in {"spawn", "join"} : Moves(c, "spawn", to)
    BY <2>1, <2>3, SpawnKeeps
  <2> QED
    BY <1>8, <2>2, <2>3 DEF SpawnPart
<1>9. CASE Join(c)
  BY <1>9, JoinKeeps
<1> QED
  BY <1>1, <1>2, <1>3, <1>4, <1>5, <1>6, <1>7, <1>8, <1>9 DEF CallStep

LEMMA CancelKeeps ==
    ASSUME TrampolineInv, NEW c \in Calls, Cancel(c)
    PROVE  TrampolineInv'
<1> USE DEF TrampolineInv
<1>1. pc[c] # "done" /\ pc' = [pc EXCEPT ![c] = "done"] /\ UNCHANGED <<lightningd, plan, task, result>>
  BY DEF Cancel
<1>2. result[c] \in Results /\ result[c] \notin {"preimage", "failed"}
  BY <1>1 DEF TypeOK, AnsweredHasEnded
<1>3. result' = [result EXCEPT ![c] = result[c]]
  BY <1>1 DEF TypeOK
<1> QED
  BY <1>1, <1>2, <1>3, LateEndKeeps

LEMMA TrampolineInvInductive ==
    /\ Init => TrampolineInv
    /\ TrampolineInv /\ [Next]_vars => TrampolineInv'
<1>1. ASSUME Init
      PROVE  TrampolineInv
  <2>1. TypeOK
    BY <1>1 DEF Init, TypeOK, Results
  <2>2. HasLastGroup /\ SpawnedAsAllocated /\ InFlightIsAwaited
    BY <1>1 DEF Init, HasLastGroup, SpawnedAsAllocated, InFlightIsAwaited, With
  <2>3. AnsweredHasEnded /\ TaskPaidIsPaid /\ PreimageIsPaid
    BY <1>1 DEF Init, AnsweredHasEnded, TaskPaidIsPaid, PreimageIsPaid
  <2> QED
    BY <2>1, <2>2, <2>3 DEF TrampolineInv
<1>2. ASSUME TrampolineInv, [Next]_vars
      PROVE  TrampolineInv'
  <2>1. ASSUME NEW c \in Calls, CallStep(c) \/ Cancel(c)
        PROVE  TrampolineInv'
    BY <1>2, <2>1, CallStepKeeps, CancelKeeps
  <2>2. ASSUME NEW c \in Calls, NEW i \in DOMAIN task[c], TaskStep(c, i)
        PROVE  TrampolineInv'
    BY <1>2, <2>2, SendKeeps, WaitKeeps DEF TaskStep
  <2>3. ASSUME NEW p \in sendpays, Settle(p)
        PROVE  TrampolineInv'
    BY <1>2, <2>3, SettleKeeps
  <2>4. CASE UNCHANGED vars
    <3> USE DEF TrampolineInv
    <3>1. UNCHANGED <<peer, sendpays, pc, group, kept, alloc, task, result>>
      BY <2>4 DEF vars
    <3>2. TypeOK'
      BY <1>2, <3>1 DEF TypeOK
    <3>3. HasLastGroup' /\ InFlightIsAwaited' /\ TaskPaidIsPaid'
      BY <1>2, <3>1, PartsUntouched
    <3>4. SpawnedAsAllocated' /\ AnsweredHasEnded' /\ PreimageIsPaid'
      BY <1>2, <3>1 DEF SpawnedAsAllocated, AnsweredHasEnded, PreimageIsPaid, With
    <3> QED
      BY <3>2, <3>3, <3>4
  <2> QED
    BY <1>2, <2>1, <2>2, <2>3, <2>4 DEF Next
<1> QED
  BY <1>1, <1>2

LEMMA TrampolineInvHolds == Spec => []TrampolineInv
  BY TrampolineInvInductive, PTL DEF Spec

(***************************************************************************)
(* Types, for any number of calls: the group a call takes is a number and  *)
(* every part in lightningd's list belongs to a call and its allocation.   *)
(***************************************************************************)
THEOREM TrampolineTypeCorrect == Spec => []TypeOK
<1>1. TrampolineInv => TypeOK
  BY DEF TrampolineInv
<1> QED
  BY <1>1, TrampolineInvHolds, PTL

(***************************************************************************)
(* trampolinepay reports a preimage only when lightningd has completed a   *)
(* part of the invoice, however calls overlap, fail or are cancelled.      *)
(***************************************************************************)
THEOREM ReportedPreimageIsPaid == Spec => []PreimageIsPaid
<1>1. TrampolineInv => PreimageIsPaid
  BY DEF TrampolineInv
<1> QED
  BY <1>1, TrampolineInvHolds, PTL

(***************************************************************************)
(* When trampolinepay answers with what became of the parts, none of those *)
(* it has sent is in flight: each one in flight has a task that waits for  *)
(* it, and join_all has waited for the tasks.                              *)
(***************************************************************************)
THEOREM NothingLeftInFlight == Spec => []AnswersWhenSettled
<1>1. TrampolineInv => AnswersWhenSettled
  <2> SUFFICES ASSUME TrampolineInv, NEW p \in With("pending")
               PROVE  result[p.by] \notin {"preimage", "failed"}
    BY DEF AnswersWhenSettled
  <2>1. p.by \in Calls
    BY DEF TrampolineInv, TypeOK, With, Part
  <2>2. PICK i \in DOMAIN task[p.by] : task[p.by][i] = "sent"
    BY DEF TrampolineInv, InFlightIsAwaited
  <2> QED
    BY <2>1, <2>2, RunningIsUnanswered DEF TrampolineInv
<1> QED
  BY <1>1, TrampolineInvHolds, PTL

-----------------------------------------------------------------------------
(* A paid invoice is not sent again                                        *)

\* What is paid stays paid, whatever calls, tasks and lightningd do.
LEMMA PaidStaysPaid ==
    ASSUME [Next]_vars
    PROVE  With("complete") \subseteq With("complete")'
<1>1. ASSUME NEW c \in Calls, CallStep(c) \/ Cancel(c)
      PROVE  UNCHANGED sendpays
  BY <1>1 DEF CallStep, Cancel, List, WaitEarlier, AwaitPeer, ListChannels, Refuse,
              AwaitChannels, Allocate, SpawnPart, Join, lightningd
<1>2. ASSUME NEW c \in Calls, NEW i \in DOMAIN task[c], TaskStep(c, i)
      PROVE  sendpays \subseteq sendpays'
  BY <1>2 DEF TaskStep, SendPart, WaitPart, lightningd
<1>3. ASSUME NEW p \in sendpays, Settle(p)
      PROVE  With("complete") \subseteq With("complete")'
  <2>1. PICK q : p \in With("pending") /\ sendpays' = (sendpays \ {p}) \cup {q}
    BY <1>3 DEF Settle, Fulfil, Fail, Becomes
  <2> QED
    BY <2>1 DEF With
<1> QED
  BY <1>1, <1>2, <1>3 DEF Next, vars, With

\* A call that finds the invoice paid waits for the earlier attempt, or ends.
Barred(c) ==
    /\ With("complete") # {}
    /\ pc[c] \in {"idle", "earlier", "done"}
    /\ task[c] = <<>>

\* It does so for good: nothing it does later spawns a part.
LEMMA BarredStaysBarred ==
    ASSUME TrampolineInv, NEW c \in Calls, Barred(c), [Next]_vars
    PROVE  Barred(c)'
<1> USE DEF Barred
<1>1. With("complete")' # {}
  BY PaidStaysPaid
<1>2. Tried
  BY DEF Tried, With
<1>3. ASSUME NEW d \in Calls, CallStep(d) \/ Cancel(d)
      PROVE  pc'[c] \in {"idle", "earlier", "done"} /\ task'[c] = <<>>
  <2>1. CASE d # c
    <3>1. pc'[c] = pc[c]
      BY <1>3, <2>1 DEF TrampolineInv, TypeOK, CallStep, Cancel, List, WaitEarlier, AwaitPeer,
            ListChannels, Refuse, AwaitChannels, Allocate, SpawnPart, Join, Answers, Moves
    <3>2. task'[c] = task[c]
      BY <1>3, <2>1 DEF TrampolineInv, TypeOK, CallStep, Cancel, List, WaitEarlier, AwaitPeer,
            ListChannels, Refuse, AwaitChannels, Allocate, SpawnPart, Join
    <3> QED
      BY <3>1, <3>2
  <2>2. CASE d = c /\ Cancel(c)
    BY <2>2 DEF TrampolineInv, TypeOK, Cancel
  <2>3. CASE d = c /\ CallStep(c)
    <3>1. List(c) \/ WaitEarlier(c) \/ Refuse(c)
      BY <2>3 DEF CallStep, AwaitPeer, ListChannels, AwaitChannels, Allocate, SpawnPart,
                  Join, Answers, Moves
    <3>2. UNCHANGED task
      BY <3>1 DEF List, WaitEarlier, Refuse
    <3>3. pc' = [pc EXCEPT ![c] = "earlier"] \/ pc' = [pc EXCEPT ![c] = "done"]
      BY <3>1, <1>2 DEF List, WaitEarlier, Refuse, Answers, Moves
    <3> QED
      BY <3>2, <3>3 DEF TrampolineInv, TypeOK
  <2> QED
    BY <1>3, <2>1, <2>2, <2>3
<1>4. ASSUME NEW d \in Calls, NEW i \in DOMAIN task[d], TaskStep(d, i)
      PROVE  pc'[c] = pc[c] /\ task'[c] = task[c]
  <2>1. d # c
    OBVIOUS
  <2> QED
    BY <1>4, <2>1 DEF TrampolineInv, TypeOK, TaskStep, SendPart, WaitPart, Continues
<1>5. ASSUME NEW p \in sendpays, Settle(p)
      PROVE  UNCHANGED <<pc, task>>
  BY <1>5 DEF Settle, Fulfil, Fail, Becomes
<1> QED
  BY <1>1, <1>3, <1>4, <1>5 DEF Next, vars

(***************************************************************************)
(* trampolinepay spawns no part for an invoice that is paid when it        *)
(* starts, whichever call and part paid it: listsendpays shows it what is  *)
(* paid, what is paid stays so, and no way leads back from there.          *)
(***************************************************************************)
THEOREM PaidIsNeverSentAgain == Spec => PaidIsNotSentAgain
<1>1. SUFFICES ASSUME NEW c \in Calls
               PROVE  Spec => [](With("complete") # {} /\ pc[c] = "idle" => [](task[c] = <<>>))
  BY DEF PaidIsNotSentAgain
<1>2. TrampolineInv /\ With("complete") # {} /\ pc[c] = "idle" => Barred(c)
  BY DEF TrampolineInv, SpawnedAsAllocated, Barred
<1>3. TrampolineInv /\ Barred(c) /\ [Next]_vars => Barred(c)'
  BY BarredStaysBarred
<1>4. Barred(c) => task[c] = <<>>
  BY DEF Barred
<1> QED
  BY <1>2, <1>3, <1>4, TrampolineInvHolds, PTL DEF Spec

-----------------------------------------------------------------------------
(* Induction, and sums over finite sets                                    *)

\* Induction on the natural numbers, for a set of those it holds for.
LEMMA NatSetInduction ==
    ASSUME NEW S \in SUBSET Nat, 0 \in S, \A n \in S : n + 1 \in S
    PROVE  S = Nat
<1> SUFFICES ASSUME Nat \ S # {}
             PROVE  FALSE
  OBVIOUS
<1>1. PICK m \in Nat \ S : \A k \in Nat \ S : ~(<<k, m>> \in OpToRel(<, Nat))
  BY NatLessThanWellFounded, WFMin
<1>2. \A k \in Nat \ S : ~(k < m)
  BY <1>1 DEF OpToRel
<1>3. m # 0 /\ m - 1 \in Nat /\ m - 1 \in S
  BY <1>2
<1> QED
  BY <1>3

\* Induction on the subsets of a finite set, one element less at a time.
LEMMA SubsetInduction ==
    ASSUME NEW S, IsFiniteSet(S), NEW P, {} \in P,
           \A s \in SUBSET S : s # {} /\ (\A x \in s : s \ {x} \in P) => s \in P
    PROVE  SUBSET S \subseteq P
<1> DEFINE N == {n \in Nat : \A s \in SUBSET S : Cardinality(s) = n => s \in P}
<1>1. \A s \in SUBSET S : IsFiniteSet(s) /\ Cardinality(s) \in Nat
  BY FS_Subset, FS_CardinalityType
<1>2. 0 \in N
  BY <1>1, FS_EmptySet
<1>3. ASSUME NEW n \in N
      PROVE  n + 1 \in N
  <2> SUFFICES ASSUME NEW s \in SUBSET S, Cardinality(s) = n + 1
               PROVE  s \in P
    OBVIOUS
  <2>1. s # {}
    BY FS_EmptySet
  <2>2. \A x \in s : s \ {x} \in SUBSET S /\ Cardinality(s \ {x}) = n
    BY <1>1, FS_RemoveElement
  <2> QED
    BY <2>1, <2>2
<1>4. N = Nat
  <2> HIDE DEF N
  <2>1. N \in SUBSET Nat
    BY DEF N
  <2> QED
    BY <1>2, <1>3, <2>1, NatSetInduction
<1> QED
  BY <1>1, <1>4

Choice(s) == CHOOSE x \in s : TRUE

\* How MapThenSumSet adds w up: g gives the sum over each subset of S.
IsSum(g, w, S) ==
    g = [s \in SUBSET S |-> IF s = {} THEN 0 ELSE w[Choice(s)] + g[s \ {Choice(s)}]]

\* There is such a function, built up from smaller subsets to larger ones.
LEMMA SumExists ==
    ASSUME NEW S, IsFiniteSet(S), NEW w
    PROVE  \E g : IsSum(g, w, S)
<1> DEFINE Small(n) == {s \in SUBSET S : Cardinality(s) <= n}
           Body(h, s) == IF s = {} THEN 0 ELSE w[Choice(s)] + h[s \ {Choice(s)}]
           N == {n \in Nat : \E h : h = [s \in Small(n) |-> Body(h, s)]}
<1>1. \A s \in SUBSET S : IsFiniteSet(s) /\ Cardinality(s) \in Nat
  BY FS_Subset, FS_CardinalityType
<1>2. \A s \in SUBSET S : s # {} => Choice(s) \in s
  BY DEF Choice
<1>3. \A n \in Nat : \A s \in Small(n + 1) : s # {} => s \ {Choice(s)} \in Small(n)
  <2> SUFFICES ASSUME NEW n \in Nat, NEW s \in Small(n + 1), s # {}
               PROVE  s \ {Choice(s)} \in Small(n)
    OBVIOUS
  <2>1. Cardinality(s \ {Choice(s)}) = Cardinality(s) - 1
    BY <1>1, <1>2, FS_RemoveElement
  <2> QED
    BY <2>1, <1>1
<1>4. \A n \in Nat : Small(n) \subseteq Small(n + 1)
  BY <1>1
<1>5. 0 \in N
  <2>1. \A s \in Small(0) : s = {}
    BY <1>1, FS_EmptySet
  <2> DEFINE h == [s \in Small(0) |-> 0]
  <2>2. \A s \in Small(0) : Body(h, s) = 0
    BY <2>1
  <2>3. h = [s \in Small(0) |-> Body(h, s)]
    <3> HIDE DEF Body
    <3> QED
      BY <2>2
  <2> QED
    BY <2>3
<1>6. ASSUME NEW n \in N
      PROVE  n + 1 \in N
  <2>1. PICK h : h = [s \in Small(n) |-> Body(h, s)]
    OBVIOUS
  <2> DEFINE k == [s \in Small(n + 1) |-> Body(h, s)]
  <2>2. \A s \in Small(n) : k[s] = h[s]
    <3> HIDE DEF Body, Small
    <3> QED
      BY <1>4, <2>1
  <2>3. \A s \in Small(n + 1) : Body(h, s) = Body(k, s)
    <3> HIDE DEF k, Small
    <3> QED
      BY <1>3, <2>2
  <2>4. k = [s \in Small(n + 1) |-> Body(k, s)]
    <3> HIDE DEF Body, Small
    <3>1. k = [s \in Small(n + 1) |-> Body(h, s)]
      OBVIOUS
    <3> HIDE DEF k
    <3> QED
      BY <2>3, <3>1
  <2> QED
    <3> HIDE DEF k, Body, Small
    <3> QED
      BY <2>4
<1>7. N = Nat
  <2> HIDE DEF N
  <2>1. N \in SUBSET Nat
    BY DEF N
  <2> QED
    BY <1>5, <1>6, <2>1, NatSetInduction
<1>8. Small(Cardinality(S)) = SUBSET S
  BY FS_Subset, FS_CardinalityType
<1>9. PICK g : g = [s \in Small(Cardinality(S)) |-> Body(g, s)]
  <2> HIDE DEF Small, Body
  <2> QED
    BY <1>7, FS_CardinalityType
<1> QED
  BY <1>8, <1>9 DEF IsSum

\* What it says of each subset.
LEMMA SumUnfolds ==
    ASSUME NEW S, NEW w, NEW g, IsSum(g, w, S)
    PROVE  /\ g[{}] = 0
           /\ \A s \in SUBSET S : s # {} =>
                Choice(s) \in s /\ g[s] = w[Choice(s)] + g[s \ {Choice(s)}]
<1> DEFINE Body(s) == IF s = {} THEN 0 ELSE w[Choice(s)] + g[s \ {Choice(s)}]
<1>1. g = [s \in SUBSET S |-> Body(s)]
  BY DEF IsSum
<1>2. \A s \in SUBSET S : g[s] = Body(s)
  <2> HIDE DEF Body
  <2> QED
    BY <1>1
<1>3. \A s \in SUBSET S : s # {} => Choice(s) \in s
  BY DEF Choice
<1> QED
  BY <1>2, <1>3

\* Sums of natural numbers are natural numbers.
LEMMA SumIsNat ==
    ASSUME NEW S, IsFiniteSet(S), NEW w \in [S -> Nat], NEW g, IsSum(g, w, S)
    PROVE  \A s \in SUBSET S : g[s] \in Nat
<1> DEFINE P == {s \in SUBSET S : g[s] \in Nat}
<1>1. g[{}] = 0 /\ \A s \in SUBSET S : s # {} =>
        Choice(s) \in s /\ g[s] = w[Choice(s)] + g[s \ {Choice(s)}]
  BY SumUnfolds
<1>2. {} \in P
  BY <1>1
<1>3. ASSUME NEW s \in SUBSET S, s # {}, \A x \in s : s \ {x} \in P
      PROVE  s \in P
  <2>1. Choice(s) \in s /\ g[s] = w[Choice(s)] + g[s \ {Choice(s)}]
    BY <1>1, <1>3
  <2>2. w[Choice(s)] \in Nat /\ g[s \ {Choice(s)}] \in Nat
    BY <1>3, <2>1
  <2> QED
    BY <2>1, <2>2
<1> QED
  <2> HIDE DEF P
  <2>1. SUBSET S \subseteq P
    BY <1>2, <1>3, SubsetInduction
  <2> QED
    BY <2>1 DEF P

\* Any element may be added last: the sum does not depend on CHOOSE.
LEMMA SumWithout ==
    ASSUME NEW S, IsFiniteSet(S), NEW w \in [S -> Nat], NEW g, IsSum(g, w, S)
    PROVE  \A s \in SUBSET S : \A x \in s : g[s] = w[x] + g[s \ {x}]
<1> DEFINE P == {s \in SUBSET S : \A x \in s : g[s] = w[x] + g[s \ {x}]}
<1>1. {} \in P
  OBVIOUS
<1>2. ASSUME NEW s \in SUBSET S, s # {}, \A x \in s : s \ {x} \in P
      PROVE  s \in P
  <2> SUFFICES ASSUME NEW x \in s
               PROVE  g[s] = w[x] + g[s \ {x}]
    OBVIOUS
  <2> DEFINE y == Choice(s)
             rest == s \ {x, y}
  <2>1. y \in s /\ g[s] = w[y] + g[s \ {y}]
    BY <1>2, SumUnfolds
  <2>2. CASE x = y
    BY <2>1, <2>2
  <2>3. CASE x # y
    <3> HIDE DEF y
    <3>1. s \ {y} \in P /\ s \ {x} \in P /\ x \in s \ {y} /\ y \in s \ {x}
      BY <1>2, <2>1, <2>3
    <3>2. (s \ {y}) \ {x} = rest /\ (s \ {x}) \ {y} = rest /\ rest \in SUBSET S
      OBVIOUS
    <3>3. g[s \ {y}] = w[x] + g[rest] /\ g[s \ {x}] = w[y] + g[rest]
      BY <3>1, <3>2
    <3>4. w[x] \in Nat /\ w[y] \in Nat /\ g[rest] \in Nat
      BY <2>1, <3>2, SumIsNat
    <3> HIDE DEF rest
    <3> QED
      BY <2>1, <3>3, <3>4
  <2> QED
    BY <2>2, <2>3
<1> QED
  <2> HIDE DEF P
  <2>1. SUBSET S \subseteq P
    BY <1>1, <1>2, SubsetInduction
  <2> QED
    BY <2>1 DEF P

\* If every summand has one of its own on the other side, the sum is no larger.
LEMMA MatchedSum ==
    ASSUME NEW S, IsFiniteSet(S), NEW w \in [S -> Nat], NEW g, IsSum(g, w, S),
           NEW T, IsFiniteSet(T), NEW v \in [T -> Nat], NEW h, IsSum(h, v, T),
           NEW f \in [S -> T], \A x \in S : w[x] <= v[f[x]],
           \A x, y \in S : f[x] = f[y] => x = y
    PROVE  g[S] <= h[T]
<1> DEFINE P == {s \in SUBSET S : \A t \in SUBSET T : (\A x \in s : f[x] \in t) => g[s] <= h[t]}
<1>1. {} \in P
  BY SumUnfolds, SumIsNat
<1>2. ASSUME NEW s \in SUBSET S, s # {}, \A x \in s : s \ {x} \in P
      PROVE  s \in P
  <2> SUFFICES ASSUME NEW t \in SUBSET T, \A x \in s : f[x] \in t
               PROVE  g[s] <= h[t]
    OBVIOUS
  <2>1. PICK x \in s : TRUE
    BY <1>2
  <2>2. g[s] = w[x] + g[s \ {x}]
    BY SumWithout
  <2>3. h[t] = v[f[x]] + h[t \ {f[x]}]
    BY SumWithout
  <2>4. \A y \in s \ {x} : f[y] \in t \ {f[x]}
    OBVIOUS
  <2>5. g[s \ {x}] <= h[t \ {f[x]}]
    BY <1>2, <2>4
  <2>6. g[s \ {x}] \in Nat /\ h[t \ {f[x]}] \in Nat /\ w[x] \in Nat /\ v[f[x]] \in Nat
    BY SumIsNat
  <2> QED
    BY <2>2, <2>3, <2>5, <2>6
<1> QED
  <2> HIDE DEF P
  <2>1. SUBSET S \subseteq P
    BY <1>1, <1>2, SubsetInduction
  <2> QED
    BY <2>1 DEF P

\* Sent and Msat, by which lightningd and the calls add parts up, are such sums.
LEMMA SentIsSum ==
    ASSUME NEW split, IsFiniteSet(DOMAIN split)
    PROVE  \E h : IsSum(h, split, DOMAIN split) /\ Sent(split) = h[DOMAIN split]
<1> DEFINE h == CHOOSE h : IsSum(h, split, DOMAIN split)
<1>1. Sent(split) = h[DOMAIN split]
  BY DEF Sent, MapThenSumSet, MapThenFoldSet, IsSum, Choice
<1>2. IsSum(h, split, DOMAIN split)
  BY SumExists
<1> QED
  BY <1>1, <1>2

MsatStep(g, S) ==
    g = [s \in SUBSET S |-> IF s = {} THEN 0 ELSE Choice(s).msat + g[s \ {Choice(s)}]]

\* The parts in lightningd's list are added up by their msat.
LEMMA MsatIsSum ==
    ASSUME NEW S, IsFiniteSet(S)
    PROVE  \E g : IsSum(g, [p \in S |-> p.msat], S) /\ Msat(S) = g[S]
<1> DEFINE g == CHOOSE g : MsatStep(g, S)
           w == [p \in S |-> p.msat]
<1>1. Msat(S) = g[S]
  BY DEF Msat, MapThenSumSet, MapThenFoldSet, MsatStep, Choice
<1>2. ASSUME NEW k
      PROVE  IsSum(k, w, S) <=> MsatStep(k, S)
  <2>1. \A s \in SUBSET S : s # {} => w[Choice(s)] = Choice(s).msat
    BY DEF Choice
  <2> HIDE DEF w
  <2>2. \A s \in SUBSET S : (IF s = {} THEN 0 ELSE w[Choice(s)] + k[s \ {Choice(s)}])
                          = (IF s = {} THEN 0 ELSE Choice(s).msat + k[s \ {Choice(s)}])
    BY <2>1
  <2> QED
    BY <2>2 DEF IsSum, MsatStep
<1>3. PICK k : IsSum(k, w, S)
  BY SumExists
<1>4. MsatStep(g, S)
  <2>1. MsatStep(k, S)
    BY <1>2, <1>3
  <2> QED
    BY <2>1
<1> HIDE DEF g, w
<1>5. IsSum(g, w, S)
  BY <1>2, <1>4
<1> QED
  BY <1>1, <1>5 DEF w

-----------------------------------------------------------------------------
(* What is paid is the amount once                                         *)

\* A part that was sent is one of the allocation of the call it was sent for.
PartOfItsSplit(p) ==
    /\ pc[p.by] \in {"spawn", "join", "done"}
    /\ p.group = group[p.by]
    /\ alloc[p.by] \in Splits
    /\ \E i \in DOMAIN alloc[p.by] : p.id = PartId(p.by, i) /\ p.msat = alloc[p.by][i]

\* lightningd sends no part of a group twice.
SentOnce == \A p, q \in sendpays : p.group = q.group /\ p.id = q.id => p = q

\* It has no two groups in flight, nor one beside one that is paid.
OneGroup ==
    \A p, q \in sendpays : p.status # "failed" /\ q.status # "failed" => p.group = q.group

PartsInv ==
    /\ IsFiniteSet(sendpays)
    /\ \A p \in sendpays : PartOfItsSplit(p)
    /\ SentOnce
    /\ OneGroup

\* From the first part on a call changes neither its group nor its allocation.
LEMMA PlanIsKept ==
    ASSUME TrampolineInv, NEW d \in Calls, CallStep(d) \/ Cancel(d),
           NEW c \in Calls, pc[c] \in {"spawn", "join", "done"}
    PROVE  /\ pc'[c] \in {"spawn", "join", "done"}
           /\ group'[c] = group[c] /\ alloc'[c] = alloc[c]
<1> USE DEF TrampolineInv
<1>1. CASE d # c
  <2>1. pc'[c] = pc[c]
    BY <1>1 DEF TypeOK, CallStep, Cancel, List, WaitEarlier, AwaitPeer,
          ListChannels, Refuse, AwaitChannels, Allocate, SpawnPart, Join, Answers, Moves
  <2>2. group'[c] = group[c]
    BY <1>1 DEF TypeOK, CallStep, Cancel, List, WaitEarlier, AwaitPeer,
          ListChannels, Refuse, AwaitChannels, Allocate, SpawnPart, Join, plan
  <2>3. alloc'[c] = alloc[c]
    BY <1>1 DEF TypeOK, CallStep, Cancel, List, WaitEarlier, AwaitPeer,
          ListChannels, Refuse, AwaitChannels, Allocate, SpawnPart, Join, plan
  <2> QED
    BY <2>1, <2>2, <2>3
<1>2. CASE d = c
  <2>1. SpawnPart(c) \/ Join(c) \/ Cancel(c)
    BY <1>2 DEF CallStep, List, WaitEarlier, AwaitPeer, ListChannels, Refuse,
                AwaitChannels, Allocate, Answers, Moves
  <2>2. UNCHANGED plan
    BY <2>1 DEF SpawnPart, Join, Cancel
  <2>3. \E to \in {"spawn", "join", "done"} : pc' = [pc EXCEPT ![c] = to]
    BY <2>1 DEF SpawnPart, Join, Cancel, Answers, Moves
  <2> QED
    BY <2>2, <2>3 DEF TypeOK, plan
<1> QED
  BY <1>1, <1>2

LEMMA CallKeepsParts ==
    ASSUME TrampolineInv, PartsInv, NEW d \in Calls, CallStep(d) \/ Cancel(d)
    PROVE  PartsInv'
<1>1. sendpays' = sendpays
  BY DEF CallStep, Cancel, List, WaitEarlier, AwaitPeer, ListChannels, Refuse,
         AwaitChannels, Allocate, SpawnPart, Join, lightningd
<1>2. ASSUME NEW p \in sendpays
      PROVE  PartOfItsSplit(p)'
  <2>1. p.by \in Calls
    BY DEF TrampolineInv, TypeOK, Part
  <2>2. PartOfItsSplit(p)
    BY DEF PartsInv
  <2>3. /\ pc'[p.by] \in {"spawn", "join", "done"}
        /\ group'[p.by] = group[p.by] /\ alloc'[p.by] = alloc[p.by]
    BY <2>1, <2>2, PlanIsKept DEF PartOfItsSplit
  <2> QED
    BY <2>2, <2>3 DEF PartOfItsSplit, PartId
<1> QED
  BY <1>1, <1>2 DEF PartsInv, SentOnce, OneGroup

\* What sendpay adds: a part of the call's allocation that the list has not,
\* of the group that is in flight.
LEMMA SendKeepsParts ==
    ASSUME TrampolineInv, PartsInv,
           NEW c \in Calls, NEW i \in DOMAIN task[c], SendPart(c, i)
    PROVE  PartsInv'
<1> DEFINE New(status) == [by |-> c, group |-> group[c], id |-> PartId(c, i),
                           msat |-> alloc[c][i], status |-> status]
           Fresh == ~Joins(group[c], PartId(c, i)) /\ ~Refuses(group[c], PartId(c, i), Sent(alloc[c]))
<1>1. UNCHANGED <<pc, group, alloc>>
  BY DEF SendPart, plan
<1>2. \/ sendpays' = sendpays
      \/ Fresh /\ \E status \in {"pending", "failed"} : sendpays' = sendpays \cup {New(status)}
  BY DEF SendPart
<1>3. CASE sendpays' = sendpays
  BY <1>1, <1>3 DEF PartsInv, SentOnce, OneGroup, PartOfItsSplit, PartId
<1>4. ASSUME Fresh, NEW status \in {"pending", "failed"}, sendpays' = sendpays \cup {New(status)}
      PROVE  PartsInv'
  <2> DEFINE n == New(status)
  <2>1. /\ n.by = c /\ n.group = group[c] /\ n.id = PartId(c, i)
        /\ n.msat = alloc[c][i] /\ n.status = status
    OBVIOUS
  <2>2. alloc[c] \in Splits /\ i \in DOMAIN alloc[c]
    <3>1. /\ task[c] \in Seq({"spawned", "sent", "paid", "failed"})
          /\ Len(task[c]) <= Len(alloc[c])
      BY DEF TrampolineInv, TypeOK, SpawnedAsAllocated
    <3>2. alloc[c] \in Splits \/ alloc[c] = <<>>
      BY DEF TrampolineInv, TypeOK
    <3>3. alloc[c] \in Seq(Nat)
      <4>1. Splits \subseteq Seq(Nat) /\ <<>> \in Seq(Nat)
        BY TrampolineAssumption
      <4> QED
        BY <3>2, <4>1
    <3>4. i \in DOMAIN alloc[c]
      BY <3>1, <3>3
    <3> QED
      BY <3>2, <3>4
  <2>3. pc[c] \in {"spawn", "join", "done"}
    <3>1. task[c] # <<>>
      OBVIOUS
    <3> QED
      BY <3>1 DEF TrampolineInv, SpawnedAsAllocated
  <2>4. \A p \in sendpays : p.status \in {"pending", "complete", "failed"}
    BY DEF TrampolineInv, TypeOK, Part
  <2>5. \A p \in sendpays : ~(p.group = n.group /\ p.id = n.id)
    BY <1>4, <2>1, <2>4 DEF Joins, Refuses, With
  <2>6. \A p \in sendpays : p.status # "failed" => p.group = n.group
    BY <1>4, <2>1, <2>4 DEF Joins, Refuses, With
  <2>7. PartOfItsSplit(n)
    BY <2>1, <2>2, <2>3 DEF PartOfItsSplit
  <2> HIDE DEF n
  <2>8. sendpays' = sendpays \cup {n}
    BY <1>4 DEF n
  <2>9. IsFiniteSet(sendpays')
    BY <2>8, FS_AddElement DEF PartsInv
  <2>10. \A p \in sendpays' : PartOfItsSplit(p)
    BY <2>7, <2>8 DEF PartsInv
  <2>11. \A p \in sendpays' : PartOfItsSplit(p)'
    BY <1>1, <2>10 DEF PartOfItsSplit, PartId
  <2>12. SentOnce'
    BY <2>5, <2>8 DEF PartsInv, SentOnce
  <2>13. OneGroup'
    BY <2>6, <2>8 DEF PartsInv, OneGroup
  <2> QED
    BY <2>9, <2>11, <2>12, <2>13 DEF PartsInv
<1> QED
  BY <1>2, <1>3, <1>4

LEMMA SettleKeepsParts ==
    ASSUME TrampolineInv, PartsInv, NEW p \in sendpays, Settle(p)
    PROVE  PartsInv'
<1>1. UNCHANGED <<pc, group, alloc>>
  BY DEF Settle, Fulfil, Fail, Becomes, plan
<1>2. PICK status \in {"complete", "failed"} :
        p \in With("pending") /\ sendpays' = (sendpays \ {p}) \cup {[p EXCEPT !.status = status]}
  BY DEF Settle, Fulfil, Fail, Becomes
<1> DEFINE q == [p EXCEPT !.status = status]
<1>3. q.by = p.by /\ q.group = p.group /\ q.id = p.id /\ q.msat = p.msat
  BY DEF TrampolineInv, TypeOK, Part
<1>4. p.status # "failed"
  BY <1>2 DEF With
<1> HIDE DEF q
<1>5. sendpays' = (sendpays \ {p}) \cup {q}
  BY <1>2 DEF q
<1>6. IsFiniteSet(sendpays')
  BY <1>5, FS_AddElement, FS_RemoveElement DEF PartsInv
<1>7. \A r \in sendpays' : PartOfItsSplit(r)
  BY <1>3, <1>5 DEF PartsInv, PartOfItsSplit
<1>8. \A r \in sendpays' : PartOfItsSplit(r)'
  BY <1>1, <1>7 DEF PartOfItsSplit, PartId
<1>9. SentOnce'
  BY <1>3, <1>5 DEF PartsInv, SentOnce
<1>10. OneGroup'
  BY <1>3, <1>4, <1>5 DEF PartsInv, OneGroup
<1> QED
  BY <1>6, <1>8, <1>9, <1>10 DEF PartsInv

LEMMA PartsInvHolds == Spec => [](TrampolineInv /\ PartsInv)
<1>1. Init => TrampolineInv /\ PartsInv
  BY TrampolineInvInductive, FS_EmptySet DEF Init, PartsInv, SentOnce, OneGroup
<1>2. ASSUME TrampolineInv, PartsInv, [Next]_vars
      PROVE  PartsInv'
  <2>1. ASSUME NEW c \in Calls, CallStep(c) \/ Cancel(c)
        PROVE  PartsInv'
    BY <1>2, <2>1, CallKeepsParts
  <2>2. ASSUME NEW c \in Calls, NEW i \in DOMAIN task[c], TaskStep(c, i)
        PROVE  PartsInv'
    <3>1. CASE SendPart(c, i)
      BY <1>2, <3>1, SendKeepsParts
    <3>2. CASE WaitPart(c, i)
      <4>1. UNCHANGED <<sendpays, pc, group, alloc>>
        BY <3>2 DEF WaitPart, lightningd, plan
      <4> QED
        BY <1>2, <4>1 DEF PartsInv, SentOnce, OneGroup, PartOfItsSplit, PartId
    <3> QED
      BY <2>2, <3>1, <3>2 DEF TaskStep
  <2>3. ASSUME NEW p \in sendpays, Settle(p)
        PROVE  PartsInv'
    BY <1>2, <2>3, SettleKeepsParts
  <2>4. CASE UNCHANGED vars
    BY <1>2, <2>4 DEF vars, PartsInv, SentOnce, OneGroup, PartOfItsSplit, PartId
  <2> QED
    BY <1>2, <2>1, <2>2, <2>3, <2>4 DEF Next
<1> QED
  BY <1>1, <1>2, TrampolineInvInductive, PTL DEF Spec

\* Parts of one split with ids of their own add up to no more than the split.
LEMMA PartsFitTheirSplit ==
    ASSUME NEW C \in SUBSET Part, IsFiniteSet(C), NEW split \in Splits,
           \A p \in C : \E i \in DOMAIN split :
               p.id = (IF Len(split) = 1 THEN 0 ELSE i) /\ p.msat = split[i],
           \A p, q \in C : p.id = q.id => p = q
    PROVE  Msat(C) <= Sent(split)
<1> DEFINE IsPlace(p, i) == p.id = (IF Len(split) = 1 THEN 0 ELSE i) /\ p.msat = split[i]
           f == [p \in C |-> CHOOSE i \in DOMAIN split : IsPlace(p, i)]
           w == [p \in C |-> p.msat]
<1>1. split \in Seq(Nat)
  <2>1. split \in Seq(Nat \ {0})
    BY TrampolineAssumption
  <2> QED
    BY <2>1
<1>2. DOMAIN split = 1..Len(split) /\ Len(split) \in Nat
  BY <1>1
<1>3. split \in [DOMAIN split -> Nat]
  <2>1. split \in [1..Len(split) -> Nat]
    BY <1>1
  <2> QED
    BY <1>2, <2>1
<1>4. IsFiniteSet(DOMAIN split)
  BY <1>2, FS_Interval
<1>5. PICK h : IsSum(h, split, DOMAIN split) /\ Sent(split) = h[DOMAIN split]
  BY <1>4, SentIsSum
<1>6. PICK g : IsSum(g, w, C) /\ Msat(C) = g[C]
  BY MsatIsSum
<1>7. w \in [C -> Nat]
  BY DEF Part
<1>8. ASSUME NEW p \in C
      PROVE  f[p] \in DOMAIN split /\ IsPlace(p, f[p])
  <2>1. \E i \in DOMAIN split : IsPlace(p, i)
    OBVIOUS
  <2>2. f[p] = CHOOSE i \in DOMAIN split : IsPlace(p, i)
    OBVIOUS
  <2> HIDE DEF IsPlace, f
  <2> QED
    BY <2>1, <2>2
<1>9. f \in [C -> DOMAIN split]
  BY <1>8
<1>10. ASSUME NEW p \in C
      PROVE  w[p] <= split[f[p]]
  <2>1. w[p] = p.msat /\ p.msat = split[f[p]] /\ f[p] \in DOMAIN split
    BY <1>8
  <2>2. split[f[p]] \in Nat
    BY <1>3, <2>1
  <2> QED
    BY <2>1, <2>2
<1> HIDE DEF f, w
<1>11. \A p, q \in C : f[p] = f[q] => p = q
  <2> SUFFICES ASSUME NEW p \in C, NEW q \in C, f[p] = f[q]
               PROVE  p = q
    OBVIOUS
  <2>1. IsPlace(p, f[p]) /\ IsPlace(q, f[p])
    BY <1>8
  <2>2. p.id = q.id
    BY <2>1
  <2> QED
    BY <2>2
<1>12. g[C] <= h[DOMAIN split]
  <2> DEFINE D == DOMAIN split
  <2>1. IsFiniteSet(D) /\ split \in [D -> Nat] /\ IsSum(h, split, D)
    BY <1>3, <1>4, <1>5
  <2>2. f \in [C -> D]
    BY <1>9
  <2> HIDE DEF D
  <2>3. g[C] <= h[D]
    BY <1>6, <1>7, <1>10, <1>11, <2>1, <2>2, MatchedSum
  <2> QED
    BY <2>3 DEF D
<1> QED
  BY <1>5, <1>6, <1>12

(***************************************************************************)
(* What trampolinepay has paid of an invoice is the amount at most once,   *)
(* however many calls overlap, fail, are cancelled and are repeated, as    *)
(* long as those in one group split it alike and every allocation is of    *)
(* one amount (the run AllocationSum has one that is not).                 *)
(***************************************************************************)
THEOREM PaidAtMostOnce ==
    ASSUME \A s, t \in Splits : Sent(s) = Sent(t)
    PROVE  Spec => []PaidOnce
<1>1. ASSUME TrampolineInv, PartsInv, SplitAlike, NEW c \in Calls, alloc[c] # <<>>
      PROVE  Msat(With("complete")) <= Sent(alloc[c])
  <2> DEFINE C == With("complete")
  <2>1. alloc[c] \in Splits
    BY <1>1 DEF TrampolineInv, TypeOK
  <2>2. C \in SUBSET Part /\ C \subseteq sendpays /\ IsFiniteSet(C)
    BY <1>1, FS_Subset DEF TrampolineInv, TypeOK, PartsInv, With
  <2>3. \A p, q \in C : p.group = q.group /\ (p.id = q.id => p = q)
    BY <1>1 DEF PartsInv, OneGroup, SentOnce, With
  <2>4. CASE C = {}
    BY <2>1, <2>2, <2>4, PartsFitTheirSplit
  <2>5. CASE C # {}
    <3>1. PICK q \in C : TRUE
      BY <2>5
    <3> DEFINE split == alloc[q.by]
    <3>2. split \in Splits
      BY <1>1, <2>2 DEF PartsInv, PartOfItsSplit
    <3>3. ASSUME NEW p \in C
          PROVE  \E i \in DOMAIN split :
                   p.id = (IF Len(split) = 1 THEN 0 ELSE i) /\ p.msat = split[i]
      <4>1. PartOfItsSplit(p) /\ PartOfItsSplit(q) /\ p.group = q.group
        BY <1>1, <2>2, <2>3, <3>1 DEF PartsInv
      <4>2. p.by \in Calls /\ q.by \in Calls
        BY <2>2 DEF Part
      <4>3. alloc[p.by] # <<>> /\ split # <<>>
        BY <4>1, TrampolineAssumption DEF PartOfItsSplit
      <4>4. alloc[p.by] = split
        BY <1>1, <4>1, <4>2, <4>3 DEF SplitAlike, PartOfItsSplit
      <4> QED
        BY <4>1, <4>4 DEF PartOfItsSplit, PartId
    <3> HIDE DEF split, C
    <3>4. Msat(C) <= Sent(split)
      BY <2>2, <2>3, <3>2, <3>3, PartsFitTheirSplit
    <3> QED
      BY <2>1, <3>2, <3>4 DEF C
  <2> QED
    BY <2>4, <2>5
<1>2. TrampolineInv /\ PartsInv => PaidOnce
  BY <1>1 DEF PaidOnce
<1> QED
  BY <1>2, PartsInvHolds, PTL

-----------------------------------------------------------------------------
(* A preimage stands for the whole amount                                  *)

\* A call has no allocation before it spawns parts.
AllocatedLast ==
    \A c \in Calls : pc[c] \notin {"spawn", "join", "done"} => alloc[c] = <<>>

\* A task that reports a preimage does so for its own place in the group.
TaskPaidIsItsPart ==
    \A c \in Calls : \A i \in DOMAIN task[c] : task[c][i] = "paid" =>
        \E p \in With("complete") : p.group = group[c] /\ p.id = PartId(c, i)

\* A call that has parts reports a preimage only if all of their tasks did.
PreimageIsOfAll ==
    \A c \in Calls : alloc[c] # <<>> /\ result[c] = "preimage" =>
        \A i \in DOMAIN alloc[c] : i \in DOMAIN task[c] /\ task[c][i] = "paid"

InFullInv == AllocatedLast /\ TaskPaidIsItsPart /\ PreimageIsOfAll

\* What a step of a call leaves alone of the other calls.
LEMMA OthersUntouched ==
    ASSUME TrampolineInv, NEW d \in Calls, CallStep(d) \/ Cancel(d), NEW c \in Calls, c # d
    PROVE  /\ pc'[c] = pc[c] /\ alloc'[c] = alloc[c]
           /\ task'[c] = task[c] /\ result'[c] = result[c]
<1> USE DEF TrampolineInv
<1>1. pc'[c] = pc[c]
  BY DEF TypeOK, CallStep, Cancel, List, WaitEarlier, AwaitPeer,
         ListChannels, Refuse, AwaitChannels, Allocate, SpawnPart, Join, Answers, Moves
<1>2. alloc'[c] = alloc[c]
  BY DEF TypeOK, CallStep, Cancel, List, WaitEarlier, AwaitPeer,
         ListChannels, Refuse, AwaitChannels, Allocate, SpawnPart, Join, plan
<1>3. task'[c] = task[c]
  BY DEF TypeOK, CallStep, Cancel, List, WaitEarlier, AwaitPeer,
         ListChannels, Refuse, AwaitChannels, Allocate, SpawnPart, Join
<1>4. result'[c] = result[c]
  BY DEF TypeOK, CallStep, Cancel, List, WaitEarlier, AwaitPeer,
         ListChannels, Refuse, AwaitChannels, Allocate, SpawnPart, Join, Answers
<1> QED
  BY <1>1, <1>2, <1>3, <1>4

\* A call spawns tasks, and changes none that it has.
LEMMA CallKeepsTasks ==
    ASSUME TrampolineInv, NEW d \in Calls, CallStep(d) \/ Cancel(d),
           NEW c \in Calls, NEW i \in DOMAIN task'[c], task'[c][i] # "spawned"
    PROVE  i \in DOMAIN task[c] /\ task[c][i] = task'[c][i]
<1>1. CASE SpawnPart(d)
  <2>1. task[d] \in Seq({"spawned", "sent", "paid", "failed"})
    BY DEF TrampolineInv, TypeOK
  <2>2. task' = task \/ task' = [task EXCEPT ![d] = Append(@, "spawned")]
    BY <1>1 DEF SpawnPart
  <2>3. task'[c] = task[c] \/ (c = d /\ task'[c] = Append(task[c], "spawned"))
    BY <2>2 DEF TrampolineInv, TypeOK
  <2> QED
    BY <2>1, <2>3
<1>2. CASE ~SpawnPart(d)
  BY <1>2 DEF CallStep, Cancel, List, WaitEarlier, AwaitPeer,
              ListChannels, Refuse, AwaitChannels, Allocate, Join
<1> QED
  BY <1>1, <1>2

LEMMA CallKeepsInFull ==
    ASSUME TrampolineInv, InFullInv, NEW d \in Calls, CallStep(d) \/ Cancel(d)
    PROVE  InFullInv'
<1> USE DEF TrampolineInv, InFullInv
<1>1. With("complete") \subseteq With("complete")'
  BY PaidStaysPaid DEF Next
<1>2. AllocatedLast'
  <2> SUFFICES ASSUME NEW c \in Calls, pc'[c] \notin {"spawn", "join", "done"}
               PROVE  alloc'[c] = <<>>
    BY DEF AllocatedLast
  <2>1. pc[c] \notin {"spawn", "join", "done"}
    BY PlanIsKept
  <2>2. alloc'[c] = alloc[c]
    <3>1. CASE Allocate(d) /\ c = d
      BY <3>1 DEF Allocate, Answers, Moves, TypeOK
    <3>2. CASE ~Allocate(d) /\ c = d
      BY <3>2 DEF CallStep, Cancel, List, WaitEarlier, AwaitPeer, ListChannels,
                  Refuse, AwaitChannels, SpawnPart, Join, plan
    <3> QED
      BY <3>1, <3>2, OthersUntouched
  <2> QED
    BY <2>1, <2>2 DEF AllocatedLast
<1>3. TaskPaidIsItsPart'
  <2> SUFFICES ASSUME NEW c \in Calls, NEW i \in DOMAIN task'[c], task'[c][i] = "paid"
               PROVE  \E p \in With("complete")' : p.group = group'[c] /\ p.id = PartId(c, i)'
    BY DEF TaskPaidIsItsPart
  <2>1. i \in DOMAIN task[c] /\ task[c][i] = "paid"
    BY CallKeepsTasks
  <2>2. group'[c] = group[c] /\ alloc'[c] = alloc[c]
    <3>1. task[c] # <<>>
      BY <2>1
    <3>2. pc[c] \in {"spawn", "join", "done"}
      BY <3>1 DEF SpawnedAsAllocated
    <3> QED
      BY <3>2, PlanIsKept
  <2>3. PICK p \in With("complete") : p.group = group[c] /\ p.id = PartId(c, i)
    BY <2>1 DEF TaskPaidIsItsPart
  <2> QED
    BY <1>1, <2>2, <2>3 DEF PartId
<1>4. PreimageIsOfAll'
  <2> SUFFICES ASSUME NEW c \in Calls, alloc'[c] # <<>>, result'[c] = "preimage"
               PROVE  \A i \in DOMAIN alloc'[c] : i \in DOMAIN task'[c] /\ task'[c][i] = "paid"
    BY DEF PreimageIsOfAll
  <2>1. CASE c # d
    BY <2>1, OthersUntouched DEF PreimageIsOfAll
  <2>2. CASE c = d
    <3>1. result[c] # "preimage"
      <4>1. pc[c] # "done"
        BY <2>2 DEF CallStep, Cancel, List, WaitEarlier, AwaitPeer, ListChannels,
                    Refuse, AwaitChannels, Allocate, SpawnPart, Join, Answers, Moves
      <4> QED
        BY <4>1 DEF AnsweredHasEnded
    <3>2. WaitEarlier(c) \/ Join(c)
      BY <2>2, <3>1 DEF CallStep, Cancel, List, AwaitPeer, ListChannels,
                        Refuse, AwaitChannels, Allocate, SpawnPart, Answers, TypeOK
    <3>3. CASE WaitEarlier(c)
      BY <3>3 DEF WaitEarlier, Answers, Moves, plan, AllocatedLast
    <3>4. CASE Join(c)
      <4>1. Joined(c) /\ result' = [result EXCEPT ![c] = Folded(c)]
            /\ alloc' = alloc /\ task' = task
        BY <3>4 DEF Join, Answers, plan
      <4>2. Folded(c) = "preimage"
        BY <4>1 DEF TypeOK
      <4>3. \A i \in DOMAIN task[c] : task[c][i] = "paid"
        BY <4>2 DEF Folded
      <4> QED
        BY <4>1, <4>3 DEF Joined, Ended
    <3> QED
      BY <3>2, <3>3, <3>4
  <2> QED
    BY <2>1, <2>2
<1> QED
  BY <1>2, <1>3, <1>4

LEMMA TaskKeepsInFull ==
    ASSUME TrampolineInv, InFullInv, NEW c \in Calls, NEW i \in DOMAIN task[c], TaskStep(c, i)
    PROVE  InFullInv'
<1> USE DEF TrampolineInv, InFullInv
<1>1. With("complete") \subseteq With("complete")'
  BY PaidStaysPaid DEF Next
<1>2. UNCHANGED <<pc, group, alloc, result>>
  BY DEF TaskStep, SendPart, WaitPart, plan
<1>3. PICK from \in {"spawned", "sent"}, to \in {"sent", "paid", "failed"} :
        /\ Continues(c, i, from, to)
        /\ to = "paid" =>
             \E p \in With("complete") : p.group = group[c] /\ p.id = PartId(c, i)
  <2>1. CASE SendPart(c, i)
    BY <2>1 DEF SendPart
  <2>2. CASE WaitPart(c, i)
    BY <2>2 DEF WaitPart
  <2> QED
    BY <2>1, <2>2 DEF TaskStep
<1>4. /\ task[c][i] = from
      /\ \A d \in Calls : DOMAIN task'[d] = DOMAIN task[d]
      /\ task'[c][i] = to
      /\ \A d \in Calls : \A j \in DOMAIN task[d] : d # c \/ j # i => task'[d][j] = task[d][j]
  BY <1>3, TaskMoves
<1>5. AllocatedLast'
  BY <1>2 DEF AllocatedLast
<1>6. TaskPaidIsItsPart'
  <2> SUFFICES ASSUME NEW d \in Calls, NEW j \in DOMAIN task[d], task'[d][j] = "paid"
               PROVE  \E p \in With("complete")' : p.group = group[d] /\ p.id = PartId(d, j)
    BY <1>2, <1>4 DEF TaskPaidIsItsPart, PartId
  <2>1. CASE d = c /\ j = i
    BY <1>1, <1>3, <1>4, <2>1
  <2>2. CASE d # c \/ j # i
    <3>1. task[d][j] = "paid"
      BY <1>4, <2>2
    <3> QED
      BY <1>1, <3>1 DEF TaskPaidIsItsPart
  <2> QED
    BY <2>1, <2>2
<1>7. PreimageIsOfAll'
  <2>1. result[c] # "preimage"
    BY <1>3, <1>4, RunningIsUnanswered
  <2> QED
    BY <1>2, <1>4, <2>1 DEF PreimageIsOfAll
<1> QED
  BY <1>5, <1>6, <1>7

LEMMA InFullInvHolds == Spec => [](TrampolineInv /\ PartsInv /\ InFullInv)
<1>1. Init => InFullInv
  BY DEF Init, InFullInv, AllocatedLast, TaskPaidIsItsPart, PreimageIsOfAll
<1>2. ASSUME TrampolineInv, InFullInv, [Next]_vars
      PROVE  InFullInv'
  <2>1. ASSUME NEW c \in Calls, CallStep(c) \/ Cancel(c)
        PROVE  InFullInv'
    BY <1>2, <2>1, CallKeepsInFull
  <2>2. ASSUME NEW c \in Calls, NEW i \in DOMAIN task[c], TaskStep(c, i)
        PROVE  InFullInv'
    BY <1>2, <2>2, TaskKeepsInFull
  <2>3. ASSUME UNCHANGED <<pc, group, alloc, task, result>>
        PROVE  InFullInv'
    BY <1>2, <2>3, PaidStaysPaid
       DEF InFullInv, AllocatedLast, TaskPaidIsItsPart, PreimageIsOfAll, PartId
  <2>4. ASSUME NEW p \in sendpays, Settle(p)
        PROVE  InFullInv'
    BY <2>3, <2>4 DEF Settle, Fulfil, Fail, Becomes, plan
  <2>5. CASE UNCHANGED vars
    BY <2>3, <2>5 DEF vars
  <2> QED
    BY <1>2, <2>1, <2>2, <2>4, <2>5 DEF Next
<1> QED
  BY <1>1, <1>2, PartsInvHolds, PTL DEF Spec

\* Parts that take every place of a split add up to no less than the split.
LEMMA PartsCoverTheirSplit ==
    ASSUME NEW C \in SUBSET Part, IsFiniteSet(C), NEW split \in Splits,
           \A i \in DOMAIN split : \E p \in C :
               p.id = (IF Len(split) = 1 THEN 0 ELSE i) /\ p.msat = split[i]
    PROVE  Msat(C) >= Sent(split)
<1> DEFINE Takes(p, i) == p.id = (IF Len(split) = 1 THEN 0 ELSE i) /\ p.msat = split[i]
           D == DOMAIN split
           f == [i \in D |-> CHOOSE p \in C : Takes(p, i)]
           w == [p \in C |-> p.msat]
<1>1. split \in Seq(Nat)
  <2>1. split \in Seq(Nat \ {0})
    BY TrampolineAssumption
  <2> QED
    BY <2>1
<1>2. D = 1..Len(split) /\ Len(split) \in Nat
  BY <1>1
<1>3. split \in [D -> Nat] /\ IsFiniteSet(D)
  <2>1. split \in [1..Len(split) -> Nat]
    BY <1>1
  <2> QED
    BY <1>2, <2>1, FS_Interval
<1>4. PICK h : IsSum(h, split, D) /\ Sent(split) = h[D]
  BY <1>3, SentIsSum
<1>5. PICK g : IsSum(g, w, C) /\ Msat(C) = g[C]
  BY MsatIsSum
<1>6. w \in [C -> Nat]
  BY DEF Part
<1>7. ASSUME NEW i \in D
      PROVE  f[i] \in C /\ Takes(f[i], i)
  <2>1. \E p \in C : Takes(p, i)
    OBVIOUS
  <2>2. f[i] = CHOOSE p \in C : Takes(p, i)
    OBVIOUS
  <2> HIDE DEF Takes, f
  <2> QED
    BY <2>1, <2>2
<1>8. f \in [D -> C]
  BY <1>7
<1>9. ASSUME NEW i \in D
      PROVE  split[i] <= w[f[i]]
  <2>1. f[i] \in C /\ f[i].msat = split[i]
    BY <1>7
  <2>2. w[f[i]] = split[i] /\ split[i] \in Nat
    BY <1>3, <2>1
  <2> QED
    BY <2>2
<1> HIDE DEF f, w
<1>10. \A i, j \in D : f[i] = f[j] => i = j
  <2> SUFFICES ASSUME NEW i \in D, NEW j \in D, f[i] = f[j]
               PROVE  i = j
    OBVIOUS
  <2>1. Takes(f[i], i) /\ Takes(f[i], j)
    BY <1>7
  <2> QED
    BY <1>2, <2>1
<1>11. h[D] <= g[C]
  <2> HIDE DEF D
  <2> QED
    BY <1>3, <1>4, <1>5, <1>6, <1>8, <1>9, <1>10, MatchedSum
<1>12. g[C] \in Nat /\ h[D] \in Nat
  <2> HIDE DEF D
  <2> QED
    BY <1>3, <1>4, <1>5, <1>6, SumIsNat
<1> QED
  BY <1>4, <1>5, <1>11, <1>12

(***************************************************************************)
(* A call that reports a preimage for parts of its own is told of all of   *)
(* them, and the amount is paid in full, whichever of the calls that share *)
(* its group had sent each part.                                           *)
(***************************************************************************)
THEOREM ReportedPreimageIsInFull == Spec => []PaidInFull
<1>1. ASSUME TrampolineInv, PartsInv, InFullInv, SplitAlike,
             NEW c \in Calls, alloc[c] # <<>>, result[c] = "preimage"
      PROVE  Msat(With("complete")) >= Sent(alloc[c])
  <2> DEFINE C == With("complete")
             split == alloc[c]
  <2>1. split \in Splits
    BY <1>1 DEF TrampolineInv, TypeOK
  <2>2. C \in SUBSET Part /\ C \subseteq sendpays /\ IsFiniteSet(C)
    BY <1>1, FS_Subset DEF TrampolineInv, TypeOK, PartsInv, With
  <2>3. ASSUME NEW i \in DOMAIN split
        PROVE  \E p \in C : p.id = (IF Len(split) = 1 THEN 0 ELSE i) /\ p.msat = split[i]
    <3>1. PICK p \in C : p.group = group[c] /\ p.id = PartId(c, i)
      BY <1>1, <2>3 DEF InFullInv, PreimageIsOfAll, TaskPaidIsItsPart
    <3>2. PartOfItsSplit(p) /\ p.by \in Calls
      BY <1>1, <2>2 DEF PartsInv, Part
    <3>3. alloc[p.by] = split
      <4>1. alloc[p.by] # <<>>
        BY <3>2, TrampolineAssumption DEF PartOfItsSplit
      <4> QED
        BY <1>1, <3>1, <3>2, <4>1 DEF SplitAlike, PartOfItsSplit
    <3>4. PICK j \in DOMAIN split : p.id = PartId(c, j) /\ p.msat = split[j]
      BY <3>2, <3>3 DEF PartOfItsSplit, PartId
    <3>5. i = j
      <4>1. split \in Seq(Nat \ {0})
        BY <2>1, TrampolineAssumption
      <4>2. DOMAIN split = 1..Len(split) /\ Len(split) \in Nat
        BY <4>1
      <4>3. Len(split) = 1 => i = j
        BY <2>3, <4>2
      <4> QED
        BY <3>1, <3>4, <4>3 DEF PartId
    <3> QED
      BY <3>1, <3>4, <3>5 DEF PartId
  <2> HIDE DEF C, split
  <2>4. Msat(C) >= Sent(split)
    BY <2>1, <2>2, <2>3, PartsCoverTheirSplit
  <2> QED
    BY <2>4 DEF C, split
<1>2. TrampolineInv /\ PartsInv /\ InFullInv => PaidInFull
  BY <1>1 DEF PaidInFull
<1> QED
  BY <1>2, InFullInvHolds, PTL

-----------------------------------------------------------------------------
(* What calls promise                                                      *)

\* A call takes a group when it is going to pay.
TakesGroup ==
    \A c \in Calls :
        /\ pc[c] \in {"idle", "earlier"} => group[c] = 0
        /\ pc[c] \notin {"idle", "earlier", "done"} => group[c] # 0
        /\ task[c] # <<>> => group[c] # 0

StagesShow ==
    \A c \in Calls :
        /\ pc[c] = "idle" => Stages[c] = "idle"
        /\ pc[c] = "earlier" => Stages[c] = "asking"
        /\ pc[c] \notin {"idle", "earlier", "done"} => Stages[c] = "paying"
        /\ pc[c] = "done" /\ result[c] \in {"preimage", "failed"} => Stages[c] = result[c]
        /\ pc[c] = "done" /\ result[c] \notin {"preimage", "failed"} =>
              Stages[c] = IF group[c] = 0 THEN "over" ELSE "gone"

LEMMA StageIs == StagesShow /\ StagesShow'
<1>1. StagesShow
  BY DEF StagesShow, Stages, StageOf
<1>2. StagesShow'
  BY DEF StagesShow, Stages, StageOf
<1> QED
  BY <1>1, <1>2

\* What one call does shows in its own stage only.
LEMMA OneStageChanges ==
    ASSUME NEW c \in Calls,
           \A d \in Calls \ {c} : pc'[d] = pc[d] /\ group'[d] = group[d] /\ result'[d] = result[d]
    PROVE  Stages' = [Stages EXCEPT ![c] = Stages'[c]]
<1>1. \A d \in Calls \ {c} : Stages'[d] = Stages[d]
  BY DEF Stages, StageOf
<1>2. Stages = [d \in Calls |-> Stages[d]] /\ Stages' = [d \in Calls |-> Stages'[d]]
  BY DEF Stages
<1> QED
  BY <1>1, <1>2

LEMMA StagesUnchanged ==
    ASSUME UNCHANGED <<pc, group, result>>
    PROVE  Stages' = Stages
  BY DEF Stages, StageOf

\* Before it has spawned a part a call has none in flight.
LEMMA NotFlying ==
    ASSUME TrampolineInv, NEW c \in Calls,
           pc[c] \notin {"spawn", "join", "done"} \/ \A i \in DOMAIN task[c] : task[c][i] # "sent"
    PROVE  c \notin Flying
<1>1. \A p \in With("pending") : p.by # c
  BY NoneBeforeSpawn DEF TrampolineInv, InFlightIsAwaited
<1> QED
  BY <1>1 DEF Flying

LEMMA CallTakesGroup ==
    ASSUME TrampolineInv, TakesGroup, NEW c \in Calls, CallStep(c) \/ Cancel(c)
    PROVE  TakesGroup'
<1> USE DEF TrampolineInv
<1>1. \A d \in Calls \ {c} : pc'[d] = pc[d] /\ group'[d] = group[d] /\ task'[d] = task[d]
  <2>1. \A d \in Calls \ {c} : pc'[d] = pc[d]
    BY DEF TypeOK, CallStep, Cancel, List, WaitEarlier, AwaitPeer,
           ListChannels, Refuse, AwaitChannels, Allocate, SpawnPart, Join, Answers, Moves
  <2>2. \A d \in Calls \ {c} : group'[d] = group[d]
    BY DEF TypeOK, CallStep, Cancel, List, WaitEarlier, AwaitPeer,
           ListChannels, Refuse, AwaitChannels, Allocate, SpawnPart, Join, plan
  <2>3. \A d \in Calls \ {c} : task'[d] = task[d]
    BY DEF TypeOK, CallStep, Cancel, List, WaitEarlier, AwaitPeer,
           ListChannels, Refuse, AwaitChannels, Allocate, SpawnPart, Join
  <2> QED
    BY <2>1, <2>2, <2>3
<1>2. CASE List(c)
  <2>1. LastGroup + 1 # 0
    BY LastGroupType
  <2>2. task'[c] = task[c] /\ task[c] = <<>>
    BY <1>2 DEF List, Moves, SpawnedAsAllocated
  <2>3. CASE Tried
    BY <1>1, <1>2, <2>2, <2>3 DEF List, Moves, TypeOK, TakesGroup
  <2>4. CASE ~Tried
    <3>1. pc'[c] = "peer" /\ group'[c] = LastGroup + 1
      BY <1>2, <2>4 DEF List, Moves, TypeOK
    <3> QED
      BY <1>1, <2>1, <2>2, <3>1 DEF TakesGroup
  <2> QED
    BY <2>3, <2>4
<1>3. CASE ~List(c)
  <2>1. group' = group
    BY <1>3 DEF CallStep, Cancel, WaitEarlier, AwaitPeer, ListChannels, Refuse,
                AwaitChannels, Allocate, SpawnPart, Join, plan
  <2>2. \/ pc'[c] = "done" /\ task'[c] = task[c]
        \/ pc[c] \notin {"idle", "earlier", "done"} /\ pc'[c] \notin {"idle", "earlier"}
    BY <1>3 DEF CallStep, Cancel, WaitEarlier, AwaitPeer, ListChannels, Refuse,
                AwaitChannels, Allocate, SpawnPart, Join, Answers, Moves, TypeOK
  <2> QED
    BY <1>1, <2>1, <2>2 DEF TakesGroup
<1> QED
  BY <1>2, <1>3

LEMMA TakesGroupHolds == Spec => [](TrampolineInv /\ TakesGroup)
<1>1. Init => TakesGroup
  BY DEF Init, TakesGroup
<1>2. ASSUME TrampolineInv, TakesGroup, [Next]_vars
      PROVE  TakesGroup'
  <2>1. ASSUME NEW c \in Calls, CallStep(c) \/ Cancel(c)
        PROVE  TakesGroup'
    BY <1>2, <2>1, CallTakesGroup
  <2>2. ASSUME NEW c \in Calls, NEW i \in DOMAIN task[c], TaskStep(c, i)
        PROVE  TakesGroup'
    <3>1. UNCHANGED <<pc, group>>
      BY <2>2 DEF TaskStep, SendPart, WaitPart, plan
    <3>2. \A d \in Calls : task'[d] # <<>> => task[d] # <<>>
      BY <1>2, <2>2 DEF TaskStep, SendPart, WaitPart, Continues, TrampolineInv, TypeOK
    <3> QED
      BY <1>2, <3>1, <3>2 DEF TakesGroup
  <2>3. ASSUME NEW p \in sendpays, Settle(p)
        PROVE  TakesGroup'
    BY <1>2, <2>3 DEF Settle, Fulfil, Fail, Becomes, plan, TakesGroup
  <2>4. CASE UNCHANGED vars
    BY <1>2, <2>4 DEF vars, TakesGroup
  <2> QED
    BY <1>2, <2>1, <2>2, <2>3, <2>4 DEF Next
<1> QED
  BY <1>1, <1>2, TrampolineInvInductive, PTL DEF Spec

\* How a step of one call shows: in nothing but its stage.
Shows(c) ==
    /\ Stages' = [Stages EXCEPT ![c] = Stages'[c]]
    /\ Flying' = Flying /\ With("complete")' = With("complete")

LEMMA CallShows ==
    ASSUME TrampolineInv, NEW c \in Calls, CallStep(c) \/ Cancel(c)
    PROVE  Shows(c)
<1> USE DEF TrampolineInv
<1>1. sendpays' = sendpays
  BY DEF CallStep, Cancel, List, WaitEarlier, AwaitPeer, ListChannels, Refuse,
         AwaitChannels, Allocate, SpawnPart, Join, lightningd
<1>2. \A d \in Calls \ {c} : pc'[d] = pc[d]
  BY DEF TypeOK, CallStep, Cancel, List, WaitEarlier, AwaitPeer,
         ListChannels, Refuse, AwaitChannels, Allocate, SpawnPart, Join, Answers, Moves
<1>3. \A d \in Calls \ {c} : group'[d] = group[d]
  BY DEF TypeOK, CallStep, Cancel, List, WaitEarlier, AwaitPeer,
         ListChannels, Refuse, AwaitChannels, Allocate, SpawnPart, Join, plan
<1>4. \A d \in Calls \ {c} : result'[d] = result[d]
  BY DEF TypeOK, CallStep, Cancel, List, WaitEarlier, AwaitPeer,
         ListChannels, Refuse, AwaitChannels, Allocate, SpawnPart, Join, Answers
<1>5. Stages' = [Stages EXCEPT ![c] = Stages'[c]]
  BY <1>2, <1>3, <1>4, OneStageChanges
<1> QED
  BY <1>1, <1>5 DEF Shows, Flying, With

LEMMA ListIsBeginOrAsk ==
    ASSUME TrampolineInv, NEW c \in Calls, List(c)
    PROVE  Promise!Begin(c) \/ Promise!Ask(c)
<1> USE DEF TrampolineInv
<1>1. Shows(c) /\ Stages[c] = "idle"
  <2>1. Shows(c)
    BY CallShows DEF CallStep
  <2> QED
    BY <2>1, StageIs DEF StagesShow, List, Moves
<1>2. CASE Tried
  <2>1. pc'[c] = "earlier"
    BY <1>2 DEF List, Moves, TypeOK
  <2>2. Stages'[c] = "asking"
    BY <2>1, StageIs DEF StagesShow
  <2>3. With("complete") # {} \/ Flying # {}
    BY <1>2 DEF Tried, With, Flying, TypeOK, Part
  <2> QED
    BY <1>1, <2>2, <2>3 DEF Promise!Ask, Promise!Moves, Shows
<1>3. CASE ~Tried
  <2>1. pc'[c] = "peer"
    BY <1>3 DEF List, Moves, TypeOK
  <2>2. Stages'[c] = "paying"
    BY <2>1, StageIs DEF StagesShow
  <2>3. With("complete") = {} /\ Flying = {}
    BY <1>3 DEF Tried, With, Flying
  <2> QED
    BY <1>1, <2>2, <2>3 DEF Promise!Begin, Promise!Moves, Shows
<1> QED
  BY <1>2, <1>3

\* An answer of a call that has begun, or asked, and has nothing in flight.
LEMMA OutcomeIsAnswer ==
    ASSUME TrampolineInv, NEW c \in Calls, CallStep(c), c \notin Flying,
           pc[c] \in {"earlier", "join"}, NEW answer \in {"preimage", "failed"},
           answer = "preimage" => With("complete") # {},
           pc'[c] = "done", result'[c] = answer
    PROVE  Promise!Answer(c)
<1>1. Shows(c) /\ Stages[c] \in {"asking", "paying"}
  BY CallShows, StageIs DEF StagesShow
<1>2. Stages'[c] = answer
  BY StageIs DEF StagesShow
<1> QED
  BY <1>1, <1>2 DEF Promise!Answer, Promise!Moves, Shows

\* One that is refused or loses its client has not answered about its parts.
LEMMA EndIsLeave ==
    ASSUME TrampolineInv, TakesGroup, NEW c \in Calls, CallStep(c) \/ Cancel(c),
           pc[c] # "done", pc'[c] = "done", result'[c] \notin {"preimage", "failed"},
           group'[c] = group[c]
    PROVE  Promise!Leave(c)
<1>1. Shows(c)
  BY CallShows
<1>2. Stages'[c] = IF group[c] = 0 THEN "over" ELSE "gone"
  BY StageIs DEF StagesShow
<1>3. CASE pc[c] \in {"idle", "earlier"}
  <2>1. group[c] = 0 /\ Stages[c] \in {"idle", "asking"}
    BY <1>3, StageIs DEF StagesShow, TakesGroup
  <2> QED
    BY <1>1, <1>2, <2>1 DEF Promise!Leave, Promise!Moves, Shows
<1>4. CASE pc[c] \notin {"idle", "earlier"}
  <2>1. group[c] # 0 /\ Stages[c] = "paying"
    BY <1>4, StageIs DEF StagesShow, TakesGroup
  <2> QED
    BY <1>1, <1>2, <2>1 DEF Promise!Leave, Promise!Moves, Shows
<1> QED
  BY <1>3, <1>4

\* A call that goes on paying shows nothing.
LEMMA MoveIsHidden ==
    ASSUME TrampolineInv, NEW c \in Calls, CallStep(c),
           pc[c] \notin {"idle", "earlier", "done"}, pc'[c] \notin {"idle", "earlier", "done"}
    PROVE  UNCHANGED <<Stages, Flying, With("complete")>>
<1>1. Shows(c) /\ Stages[c] = "paying"
  BY CallShows, StageIs DEF StagesShow
<1>2. Stages'[c] = "paying"
  BY StageIs DEF StagesShow
<1>3. Stages = [d \in Calls |-> Stages[d]]
  BY DEF Stages
<1>4. [Stages EXCEPT ![c] = "paying"] = Stages
  BY <1>1, <1>3
<1> QED
  BY <1>1, <1>2, <1>4 DEF Shows

LEMMA CallKeepsPromise ==
    ASSUME TrampolineInv, TakesGroup, NEW c \in Calls, CallStep(c) \/ Cancel(c)
    PROVE  [Promise!Next]_(Promise!vars)
<1> USE DEF TrampolineInv
<1> DEFINE Hidden == UNCHANGED <<Stages, Flying, With("complete")>>
<1>0. ASSUME Promise!Begin(c) \/ Promise!Ask(c) \/ Promise!Answer(c) \/ Promise!Leave(c) \/ Hidden
      PROVE  [Promise!Next]_(Promise!vars)
  BY <1>0 DEF Promise!Next, Promise!vars
<1>1. ASSUME NEW from, NEW answer, Answers(c, from, answer)
      PROVE  pc[c] = from /\ pc'[c] = "done" /\ result'[c] = answer
  BY <1>1 DEF Answers, Moves, TypeOK
<1>2. CASE List(c)
  BY <1>0, <1>2, ListIsBeginOrAsk
<1>3. CASE WaitEarlier(c)
  <2>1. PICK p \in sendpays :
          /\ p.status # "pending"
          /\ Answers(c, "earlier", IF p.status = "complete" THEN "preimage" ELSE "failed")
    BY <1>3 DEF WaitEarlier
  <2>2. PICK answer \in {"preimage", "failed"} :
          answer = IF p.status = "complete" THEN "preimage" ELSE "failed"
    OBVIOUS
  <2>3. answer = "preimage" => With("complete") # {}
    BY <2>2 DEF With
  <2>4. pc[c] = "earlier" /\ pc'[c] = "done" /\ result'[c] = answer
    BY <1>1, <2>1, <2>2
  <2>5. c \notin Flying
    BY <2>4, NotFlying
  <2> QED
    BY <1>0, <1>3, <2>3, <2>4, <2>5, OutcomeIsAnswer DEF CallStep
<1>4. CASE Join(c)
  <2>1. pc[c] = "join" /\ pc'[c] = "done" /\ result'[c] = Folded(c)
    BY <1>1, <1>4 DEF Join
  <2>2. PICK answer \in {"preimage", "failed"} : answer = Folded(c)
    BY DEF Folded
  <2>3. TrampolineInv'
    BY <1>4, JoinKeeps
  <2>4. answer = "preimage" => With("complete") # {}
    <3>1. With("complete")' = With("complete")
      BY <1>4 DEF Join, lightningd, With
    <3> QED
      BY <2>1, <2>2, <2>3, <3>1 DEF PreimageIsPaid
  <2>5. c \notin Flying
    <3>1. \A i \in DOMAIN task'[c] : task'[c][i] \in {"paid", "failed"}
      BY <2>1, <2>2, <2>3 DEF AnsweredHasEnded
    <3>2. task' = task
      BY <1>4 DEF Join
    <3> QED
      BY <3>1, <3>2, NotFlying
  <2> QED
    BY <1>0, <1>4, <2>1, <2>2, <2>4, <2>5, OutcomeIsAnswer DEF CallStep
<1>5. ASSUME NEW from, Answers(c, from, "refused"), from # "done", group' = group, CallStep(c)
      PROVE  Promise!Leave(c)
  BY <1>1, <1>5, EndIsLeave
<1>6. ASSUME NEW from, NEW to, Moves(c, from, to), CallStep(c),
             from \notin {"idle", "earlier", "done"}, to \notin {"idle", "earlier", "done"}
      PROVE  Hidden
  <2>1. pc[c] = from /\ pc'[c] = to
    BY <1>6 DEF Moves, TypeOK
  <2> QED
    BY <1>6, <2>1, MoveIsHidden
<1>7. CASE AwaitPeer(c) \/ ListChannels(c) \/ Refuse(c) \/ AwaitChannels(c)
  <2>1. CallStep(c) /\ group' = group
    BY <1>7 DEF CallStep, AwaitPeer, ListChannels, Refuse, AwaitChannels, plan
  <2>2. (\E from \in {"peer", "channels", "idle"} : Answers(c, from, "refused"))
        \/ Moves(c, "peer", "channels") \/ Moves(c, "channels", "await")
        \/ Moves(c, "await", "allocate")
    BY <1>7 DEF AwaitPeer, ListChannels, Refuse, AwaitChannels
  <2> QED
    BY <1>0, <1>5, <1>6, <2>1, <2>2
<1>8. CASE Allocate(c) \/ SpawnPart(c)
  <2>1. CallStep(c) /\ group' = group
    BY <1>8 DEF CallStep, Allocate, SpawnPart, plan
  <2>2. (\E from \in {"allocate", "spawn"} : Answers(c, from, "refused"))
        \/ Moves(c, "allocate", "spawn") \/ \E to \in {"spawn", "join"} : Moves(c, "spawn", to)
    BY <1>8 DEF Allocate, SpawnPart
  <2> QED
    BY <1>0, <1>5, <1>6, <2>1, <2>2
<1>9. CASE Cancel(c)
  <2>1. pc[c] # "done" /\ pc'[c] = "done" /\ result' = result /\ group' = group
    BY <1>9 DEF Cancel, plan, TypeOK
  <2>2. result'[c] \notin {"preimage", "failed"}
    BY <2>1 DEF AnsweredHasEnded
  <2> QED
    BY <1>0, <1>9, <2>1, <2>2, EndIsLeave
<1> QED
  BY <1>2, <1>3, <1>4, <1>7, <1>8, <1>9 DEF CallStep

LEMMA TaskKeepsPromise ==
    ASSUME TrampolineInv, TakesGroup, NEW c \in Calls, NEW i \in DOMAIN task[c], TaskStep(c, i)
    PROVE  [Promise!Next]_(Promise!vars)
<1> USE DEF TrampolineInv
<1>1. Stages' = Stages
  <2>1. UNCHANGED <<pc, group, result>>
    BY DEF TaskStep, SendPart, WaitPart, plan
  <2> QED
    BY <2>1, StagesUnchanged
<1>2. CASE UNCHANGED sendpays
  BY <1>1, <1>2 DEF Promise!vars, Flying, With
<1>3. CASE ~UNCHANGED sendpays
  <2> DEFINE New(status) == [by |-> c, group |-> group[c], id |-> PartId(c, i),
                             msat |-> alloc[c][i], status |-> status]
  <2>1. /\ task[c][i] = "spawned" /\ ~Joins(group[c], PartId(c, i))
        /\ \E status \in {"pending", "failed"} : sendpays' = sendpays \cup {New(status)}
    BY <1>3 DEF TaskStep, SendPart, WaitPart, Continues, lightningd
  <2>2. With("complete") = {}
    BY <2>1 DEF Joins
  <2>3. PICK new : /\ sendpays' = sendpays \cup {new}
                   /\ new.by = c /\ new.status \in {"pending", "failed"}
    <3>1. \A status : New(status).by = c /\ New(status).status = status
      OBVIOUS
    <3> HIDE DEF New
    <3> QED
      BY <2>1, <3>1
  <2>4. With("complete")' = With("complete")
    BY <2>3 DEF With
  <2>5. Stages[c] \in {"paying", "gone"}
    <3>1. pc[c] \in {"spawn", "join", "done"} /\ result[c] \notin {"preimage", "failed"}
      BY <2>1, RunningIsUnanswered
    <3>2. group[c] # 0
      BY DEF TakesGroup
    <3> QED
      BY <3>1, <3>2, StageIs DEF StagesShow
  <2>6. CASE new.status = "pending"
    <3>1. With("pending")' = With("pending") \cup {new}
      BY <2>3, <2>6 DEF With
    <3>2. Flying' = Flying \cup {c}
      BY <2>3, <3>1 DEF Flying
    <3> QED
      BY <1>1, <2>2, <2>4, <2>5, <3>2 DEF Promise!Next, Promise!Send
  <2>7. CASE new.status = "failed"
    <3>1. With("pending")' = With("pending")
      BY <2>3, <2>7 DEF With
    <3> QED
      BY <1>1, <2>4, <3>1 DEF Promise!vars, Flying
  <2> QED
    BY <2>3, <2>6, <2>7
<1> QED
  BY <1>2, <1>3

LEMMA SettleKeepsPromise ==
    ASSUME TrampolineInv, NEW p \in sendpays, Settle(p)
    PROVE  [Promise!Next]_(Promise!vars)
<1>1. Stages' = Stages
  <2>1. UNCHANGED <<pc, group, result>>
    BY DEF Settle, Fulfil, Fail, Becomes, plan
  <2> QED
    BY <2>1, StagesUnchanged
<1>2. PICK c \in Calls : c = p.by
  BY DEF TrampolineInv, TypeOK, Part
<1>3. PICK status \in {"complete", "failed"} :
        p \in With("pending") /\ sendpays' = (sendpays \ {p}) \cup {[p EXCEPT !.status = status]}
  BY DEF Settle, Fulfil, Fail, Becomes
<1>4. PICK q : q = [p EXCEPT !.status = status] /\ q.status = status
  <2>1. p \in Part
    BY DEF TrampolineInv, TypeOK
  <2>2. [p EXCEPT !.status = status].status = status
    BY <2>1 DEF Part
  <2> QED
    BY <2>2
<1>5. With("pending")' = With("pending") \ {p}
  BY <1>3, <1>4 DEF With
<1>6. c \in Flying /\ Flying' \in {Flying, Flying \ {c}}
  <2>1. c \in Flying
    BY <1>2, <1>3 DEF Flying
  <2>2. CASE \E r \in With("pending") \ {p} : r.by = c
    <3>1. Flying' = Flying
      BY <1>2, <1>3, <1>5, <2>2 DEF Flying
    <3> QED
      BY <2>1, <3>1
  <2>3. CASE ~\E r \in With("pending") \ {p} : r.by = c
    <3>1. Flying' = Flying \ {c}
      BY <1>2, <1>3, <1>5, <2>3 DEF Flying
    <3> QED
      BY <2>1, <3>1
  <2> QED
    BY <2>2, <2>3
<1>7. CASE status = "complete"
  <2>1. With("complete")' # {}
    BY <1>3, <1>4, <1>7 DEF With
  <2> QED
    BY <1>1, <1>2, <1>6, <2>1 DEF Promise!Next, Promise!Settle
<1>8. CASE status = "failed"
  <2>1. With("complete")' = With("complete")
    BY <1>3, <1>4, <1>8 DEF With
  <2> QED
    BY <1>1, <1>2, <1>6, <2>1 DEF Promise!Next, Promise!Return, Promise!vars
<1> QED
  BY <1>7, <1>8

(***************************************************************************)
(* trampolinepay with its parts and tasks implements Payment, for any      *)
(* calls, channels and allocations: a call pays only if it found nothing   *)
(* paid or under way, nothing is sent for an invoice that is paid, and     *)
(* what a call says of its payment is true, final and said when none of it *)
(* is in flight.                                                           *)
(***************************************************************************)
THEOREM CallsKeepPromise == Spec => KeepsPromise
<1>1. Init => Promise!Init
  BY DEF Init, Promise!Init, Stages, StageOf, Flying, With
<1>2. ASSUME TrampolineInv, TakesGroup, [Next]_vars
      PROVE  [Promise!Next]_(Promise!vars)
  <2>1. ASSUME NEW c \in Calls, CallStep(c) \/ Cancel(c)
        PROVE  [Promise!Next]_(Promise!vars)
    BY <1>2, <2>1, CallKeepsPromise
  <2>2. ASSUME NEW c \in Calls, NEW i \in DOMAIN task[c], TaskStep(c, i)
        PROVE  [Promise!Next]_(Promise!vars)
    BY <1>2, <2>2, TaskKeepsPromise
  <2>3. ASSUME NEW p \in sendpays, Settle(p)
        PROVE  [Promise!Next]_(Promise!vars)
    BY <1>2, <2>3, SettleKeepsPromise
  <2>4. CASE UNCHANGED vars
    <3>1. UNCHANGED <<sendpays, pc, group, result>>
      BY <2>4 DEF vars
    <3> QED
      BY <3>1, StagesUnchanged DEF Promise!vars, Flying, With
  <2> QED
    BY <1>2, <2>1, <2>2, <2>3, <2>4 DEF Next
<1> QED
  BY <1>1, <1>2, TakesGroupHolds, PTL DEF Spec, KeepsPromise, Promise!Spec

=============================================================================
