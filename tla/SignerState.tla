---------------------------- MODULE SignerState ----------------------------
(***************************************************************************)
(* The signer's state as the plugin, the state store and the signer hold   *)
(* it: a map from keys (nodes/.., nodestates/.., channels/..,              *)
(* allowlists/.., trackers/..) to a version and a JSON document            *)
(* (gl-client/src/persist.rs).                                             *)
(*                                                                         *)
(* A document is abstracted to the set of requests whose processing is     *)
(* reflected in it, which is all that losing an update can be told from.   *)
(* A key the map does not hold has version -1: `merge' and the persister   *)
(* treat a missing key exactly as one older than version 0.                *)
(***************************************************************************)
EXTENDS Integers

CONSTANTS
    Keys,        \* the keys of the state map
    NodeKeys,    \* those a signer creates when it starts (HandlerBuilder::build)
    Req          \* the requests whose effects a document can reflect

ASSUME NodeKeysAssumption == NodeKeys \subseteq Keys

Version == Nat \cup {-1}

Entry == [ver : Version, val : SUBSET Req]

State == [Keys -> Entry]

Absent == [ver |-> -1, val |-> {}]

\* State::new(), State::clear()
EmptyState == [k \in Keys |-> Absent]

\* The memory of a signer that has just started, before it hears from the node.
FreshState ==
    [k \in Keys |-> IF k \in NodeKeys THEN [ver |-> 0, val |-> {}] ELSE Absent]

\* Mutant of Merge: the other state wins whatever its version.
MergeLastWins(mine, other) ==
    [k \in Keys |-> IF other[k].ver >= 0 THEN other[k] ELSE mine[k]]

(***************************************************************************)
(* State::merge: take every entry that is strictly newer than ours.  An    *)
(* equal version is skipped without looking at the document.               *)
(***************************************************************************)
Merge(mine, other) ==
    [k \in Keys |-> IF other[k].ver > mine[k].ver THEN other[k] ELSE mine[k]]

\* State::diff: the keys of which `other' has a version we have not.
Diff(mine, other) == {k \in Keys : mine[k].ver < other[k].ver}

(***************************************************************************)
(* The persister's insert_* and update_* calls while request r is being    *)
(* handled: a new key starts at version 0, an existing one moves to the    *)
(* next version.                                                           *)
(***************************************************************************)
Touch(state, K, r) ==
    [k \in Keys |-> IF k \in K
                    THEN [ver |-> state[k].ver + 1, val |-> state[k].val \cup {r}]
                    ELSE state[k]]

\* Request r, which touches the keys K, is reflected in the state.
Reflects(state, K, r) == \A k \in K : r \in state[k].val

(***************************************************************************)
(* Entry a is in the past of entry b: its version is not higher, nothing   *)
(* it reflects is missing from b, and equal versions are equal documents.  *)
(***************************************************************************)
Precedes(a, b) ==
    /\ a.ver <= b.ver
    /\ a.val \subseteq b.val
    /\ a.ver = b.ver => a = b

\* Two states that were written by one history of updates.
Comparable(s, t) ==
    \A k \in Keys : Precedes(s[k], t[k]) \/ Precedes(t[k], s[k])

=============================================================================
