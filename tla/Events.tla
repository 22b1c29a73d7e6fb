------------------------------- MODULE Events -------------------------------
(***************************************************************************)
(* The broadcast channels of the plugin (gl-plugin/src/node/mod.rs,        *)
(* lib.rs): the hooks of lightningd publish payments and custom messages,  *)
(* the authorisation layer publishes every gRPC call in a channel of its   *)
(* own that a task bridges over, and each stream_incoming and              *)
(* stream_custommsg has a task that moves what it is for into a channel of *)
(* one slot, from where the client reads.                                  *)
(*                                                                         *)
(* A tokio broadcast channel keeps the last events; a receiver that is     *)
(* further behind gets an error and goes on with the oldest one kept.      *)
(***************************************************************************)
EXTENDS Integers, Sequences, SequencesExt

CONSTANTS
    Clients,
    Capacity,     \* of the events channel: 16
    RpcCapacity,  \* of RPC_BCAST: 4
    MaxEvents,    \* bound on the events published
    None

ASSUME EventsConstants ==
    /\ Capacity \in Nat \ {0} /\ RpcCapacity \in Nat \ {0} /\ MaxEvents \in Nat

VARIABLES
    events,   \* what was published in the events channel, from the first on
    rpcCalls, \* how many calls RPC_BCAST keeps for the bridge
    listener  \* per client, its stream

eventVars == <<events, rpcCalls, listener>>

\* What an event is about: a payment by its label, a custom message, a call.
Payment(l) == [kind |-> "payment", of |-> l]
CustomMsg == [kind |-> "custommsg", of |-> None]
RpcCall == [kind |-> "call", of |-> None]

(***************************************************************************)
(* A stream: what it is for, where its task is (waiting for an event,      *)
(* waiting to send one, done), the position of its receiver, where that    *)
(* started, the event being sent, the slot, and what the client has read.  *)
(***************************************************************************)
NoStream == [kind |-> None, pc |-> "none", start |-> 0, next |-> 0, sending |-> <<>>,
             slot |-> <<>>, got |-> <<>>, left |-> FALSE]

EventsTypeOK ==
    /\ Len(events) <= MaxEvents
    /\ \A e \in ToSet(events) : e.kind \in {"payment", "custommsg", "call"}
    /\ rpcCalls \in 0..RpcCapacity
    /\ \A c \in Clients :
          /\ listener[c].pc \in {"none", "receive", "send", "done"}
          /\ 0 <= listener[c].start /\ listener[c].start <= listener[c].next
          /\ listener[c].next <= Len(events)
          /\ Len(listener[c].slot) <= 1
          /\ Len(listener[c].sending) = (IF listener[c].pc = "send" THEN 1 ELSE 0)

EventsInit ==
    /\ events = <<>> /\ rpcCalls = 0
    /\ listener = [c \in Clients |-> NoStream]

-----------------------------------------------------------------------------

Publish(e) ==
    /\ Len(events) < MaxEvents
    /\ events' = Append(events, e)

\* SignatureContextService::call, for every call to either service.
Called ==
    /\ Len(events) + rpcCalls < MaxEvents
    /\ rpcCalls' = IF rpcCalls = RpcCapacity THEN rpcCalls ELSE rpcCalls + 1
    /\ UNCHANGED <<events, listener>>

\* The bridge of PluginNodeServer::new; when it is behind, calls are lost.
Bridge ==
    /\ rpcCalls > 0
    /\ rpcCalls' = rpcCalls - 1
    /\ Publish(RpcCall)
    /\ UNCHANGED listener

\* on_custommsg
CustomMsgHook ==
    /\ Publish(CustomMsg)
    /\ UNCHANGED <<rpcCalls, listener>>

\* stream_incoming, stream_custommsg: a receiver of what comes from now on.
Subscribe(c, kind) ==
    /\ listener[c].pc = "none"
    /\ listener' = [listener EXCEPT ![c] = [NoStream EXCEPT !.kind = kind, !.pc = "receive",
                        !.start = Len(events), !.next = Len(events)]]
    /\ UNCHANGED <<events, rpcCalls>>

Behind(c) == Len(events) - listener[c].next > Capacity

\* Mutant of Receive: the loop goes on after the error.
ReceiveRegardless(c) ==
    /\ listener[c].pc = "receive" /\ listener[c].next < Len(events)
    /\ LET from == IF Behind(c) THEN Len(events) - Capacity ELSE listener[c].next
           e == events[from + 1]
       IN listener' = IF e.kind = listener[c].kind
                      THEN [listener EXCEPT ![c].next = from + 1, ![c].pc = "send",
                                ![c].sending = <<e>>]
                      ELSE [listener EXCEPT ![c].next = from + 1]
    /\ UNCHANGED <<events, rpcCalls>>

(***************************************************************************)
(* The task's receiver: an error ends the loop, in stream_custommsg with a *)
(* panic of the task; other events are passed over.                        *)
(***************************************************************************)
Receive(c) ==
    /\ listener[c].pc = "receive" /\ listener[c].next < Len(events)
    /\ LET e == events[listener[c].next + 1] IN
       listener' = IF Behind(c)
                   THEN [listener EXCEPT ![c].pc = "done"]
                   ELSE IF e.kind = listener[c].kind
                   THEN [listener EXCEPT ![c].next = @ + 1, ![c].pc = "send",
                             ![c].sending = <<e>>]
                   ELSE [listener EXCEPT ![c].next = @ + 1]
    /\ UNCHANGED <<events, rpcCalls>>

\* The slot is free.
Send(c) ==
    /\ listener[c].pc = "send" /\ listener[c].slot = <<>> /\ ~listener[c].left
    /\ listener' = [listener EXCEPT ![c].pc = "receive", ![c].slot = listener[c].sending,
                        ![c].sending = <<>>]
    /\ UNCHANGED <<events, rpcCalls>>

\* The client is gone: stream_custommsg ends, stream_incoming does not look.
SendFails(c) ==
    /\ listener[c].pc = "send" /\ listener[c].left
    /\ listener' = [listener EXCEPT ![c].sending = <<>>,
                        ![c].pc = IF listener[c].kind = "custommsg" THEN "done" ELSE "receive"]
    /\ UNCHANGED <<events, rpcCalls>>

\* The client reads, or closes the stream.
Read(c) ==
    /\ listener[c].slot # <<>> /\ ~listener[c].left
    /\ listener' = [listener EXCEPT ![c].got = @ \o listener[c].slot, ![c].slot = <<>>]
    /\ UNCHANGED <<events, rpcCalls>>

Close(c) ==
    /\ listener[c].pc # "none" /\ ~listener[c].left
    /\ listener' = [listener EXCEPT ![c].left = TRUE, ![c].slot = <<>>]
    /\ UNCHANGED <<events, rpcCalls>>

EventStep ==
    \/ Called \/ Bridge \/ CustomMsgHook
    \/ \E c \in Clients, kind \in {"payment", "custommsg"} : Subscribe(c, kind)
    \/ \E c \in Clients : Receive(c) \/ Send(c) \/ SendFails(c) \/ Read(c) \/ Close(c)

-----------------------------------------------------------------------------

\* The events of a stream's kind that its receiver has passed.
Passed(s) ==
    LET upTo[n \in 0..Len(events)] ==
            IF n <= s.start THEN <<>>
            ELSE IF events[n].kind = s.kind THEN Append(upTo[n - 1], events[n])
            ELSE upTo[n - 1]
    IN upTo[s.next]

(***************************************************************************)
(* A client that reads its stream to the end has every payment (or custom  *)
(* message) from its subscription up to some moment, in order and once:    *)
(* stream_incoming and stream_custommsg leave no gap behind an error, they *)
(* end, and they end for no other reason than a receiver that is too far   *)
(* behind.                                                                 *)
(***************************************************************************)
GapFree ==
    \A c \in Clients : LET s == listener[c] IN
        ~s.left => /\ s.got \o s.slot \o s.sending = Passed(s)
                   /\ s.pc = "done" => Behind(c)

=============================================================================
