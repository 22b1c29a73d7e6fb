-------------------------- MODULE DurableSigning --------------------------
(***************************************************************************)
(* What the signing path promises lightningd, without stage, streams,      *)
(* signers and state versions: an hsmd call is answered at most once, and  *)
(* only after the change of signer state behind the answer is recorded     *)
(* where a crash does not reach it.  What is recorded stays recorded.      *)
(***************************************************************************)
CONSTANTS
    Calls,       \* hsmd calls
    Local,       \* those answered without a signer
    Effectless   \* those that change no signer state

VARIABLES
    call,      \* where each call stands
    recorded   \* the calls whose effects would survive a crash

vars == <<call, recorded>>

Init ==
    /\ call = [c \in Calls |-> "idle"]
    /\ recorded = {}

Ask(c) ==
    /\ c \notin Local
    /\ call[c] = "idle"
    /\ call' = [call EXCEPT ![c] = "waiting"]
    /\ recorded' = IF c \in Effectless THEN recorded \cup {c} ELSE recorded

AnswerLocally(c) ==
    /\ c \in Local
    /\ call[c] = "idle"
    /\ call' = [call EXCEPT ![c] = "answered"]
    /\ UNCHANGED recorded

\* Effects of calls that were asked, answered or not, reach the record.
Record(S) ==
    /\ \A c \in S : call[c] # "idle"
    /\ recorded' = recorded \cup S
    /\ UNCHANGED call

Answer(c) ==
    /\ call[c] = "waiting"
    /\ c \in recorded
    /\ call' = [call EXCEPT ![c] = "answered"]
    /\ UNCHANGED recorded

\* The node crashes: who waits never hears back, the record stays.
Crash ==
    /\ call' = [c \in Calls |-> IF call[c] = "waiting" THEN "gone" ELSE call[c]]
    /\ UNCHANGED recorded

Next ==
    \/ \E c \in Calls : Ask(c) \/ AnswerLocally(c) \/ Answer(c)
    \/ \E S \in SUBSET (Calls \ Local) : Record(S)
    \/ Crash

Spec == Init /\ [][Next]_vars

=============================================================================
