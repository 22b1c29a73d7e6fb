------------------------------ MODULE Payment ------------------------------
(***************************************************************************)
(* What concurrent calls of trampoline_pay for one invoice promise,        *)
(* without peers, channels, groups, parts and tasks: only a call that      *)
(* found nothing under way pays; nothing is sent for an invoice that is    *)
(* paid; and a call answers about its payment at most once, truthfully and *)
(* when nothing of it is in flight, after which it sends no more.          *)
(***************************************************************************)
CONSTANTS
    Calls   \* calls of trampoline_pay

VARIABLES
    stage,    \* where each call stands
    flying,   \* the calls with money in flight
    paid      \* whether some of the invoice is paid

vars == <<stage, flying, paid>>

Init ==
    /\ stage = [c \in Calls |-> "idle"]
    /\ flying = {}
    /\ paid = FALSE

Moves(c, from, to) == stage[c] \in from /\ stage' = [stage EXCEPT ![c] = to]

\* A call that finds nothing paid or under way is going to pay.
Begin(c) ==
    /\ ~paid /\ flying = {}
    /\ Moves(c, {"idle"}, "paying")
    /\ UNCHANGED <<flying, paid>>

\* One that finds an attempt asks what became of it, and never pays.
Ask(c) ==
    /\ paid \/ flying # {}
    /\ Moves(c, {"idle"}, "asking")
    /\ UNCHANGED <<flying, paid>>

\* What a call began can go on when it has gone.
Send(c) ==
    /\ stage[c] \in {"paying", "gone"} /\ ~paid
    /\ flying' = flying \cup {c}
    /\ UNCHANGED <<stage, paid>>

\* Some of what is in flight for a call, or all of it, is paid.
Settle(c) ==
    /\ c \in flying
    /\ flying' \in {flying, flying \ {c}}
    /\ paid' = TRUE
    /\ UNCHANGED stage

\* The last of it comes back.
Return(c) ==
    /\ c \in flying
    /\ flying' = flying \ {c}
    /\ UNCHANGED <<stage, paid>>

Answer(c) ==
    /\ c \notin flying
    /\ \/ paid /\ Moves(c, {"asking", "paying"}, "preimage")
       \/ Moves(c, {"asking", "paying"}, "failed")
    /\ UNCHANGED <<flying, paid>>

\* A call is refused, or its client leaves.
Leave(c) ==
    /\ Moves(c, {"idle", "asking"}, "over") \/ Moves(c, {"paying"}, "gone")
    /\ UNCHANGED <<flying, paid>>

Next ==
    \E c \in Calls : \/ Begin(c) \/ Ask(c) \/ Send(c) \/ Settle(c) \/ Return(c)
                     \/ Answer(c) \/ Leave(c)

Spec == Init /\ [][Next]_vars

=============================================================================
