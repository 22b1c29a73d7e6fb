----------------------------- MODULE Allocation -----------------------------
(***************************************************************************)
(* How trampoline_pay spreads an amount over the channels to the           *)
(* trampoline node (gl-plugin/src/tramp.rs): find_allocation fills the     *)
(* channels in order and, where the rest is below the next channel's       *)
(* minimum, takes back from the ones before; it is tried in ascending and  *)
(* then in descending order of what the channels can spend.                *)
(*                                                                         *)
(* The search works on one vector of contributions that all levels of the  *)
(* recursion push to and pop from.  Channels are named by their place in   *)
(* the order they are tried in.                                            *)
(***************************************************************************)
EXTENDS Integers, Sequences, FiniteSets, SequencesExt

CONSTANTS
    MaxChannels,   \* bound: channels to the trampoline node
    MaxMsat        \* bound: spendable and minimal amounts of a channel

ASSUME AllocationConstants == MaxChannels \in Nat /\ MaxMsat \in Nat

VARIABLES
    channels,   \* the channels in the order they are tried
    amount,     \* what is to be paid, fees included
    alloc,      \* contributions found
    pc          \* where trampoline_pay stands

vars == <<channels, amount, alloc, pc>>

\* What trampoline_pay keeps of the channels listpeerchannels reports.
Channel == {c \in [spendable : 1..MaxMsat, min : 0..MaxMsat] : c.spendable > c.min}

Contribution == [channel : 1..MaxChannels, msat : 0..MaxMsat]

TypeOK ==
    /\ channels \in Seq(Channel) /\ Len(channels) <= MaxChannels
    /\ amount \in 0..(MaxChannels * MaxMsat)
    /\ alloc \in Seq(Contribution)
    /\ pc \in {"start", "descend", "ascending", "descending", "insufficient"}

-----------------------------------------------------------------------------
(* find_allocation                                                         *)

Success == [kind |-> "success", short |-> 0]
Impossible == [kind |-> "impossible", short |-> 0]
NeedSpace(n) == [kind |-> "need", short |-> n]

\* Mutant of Lesser: what the channel can spend is not looked at.
LesserTarget(a, b) == b

Lesser(a, b) == IF a < b THEN a ELSE b

\* Mutant of Part: counts channels from 0.
PartFromZero(i, n) == [channel |-> i - 1, msat |-> n]

Part(i, n) == [channel |-> i, msat |-> n]

\* The vector of contributions; those on channels that exist and for amounts
\* the channel can have are in Contribution.
Vector == Seq([channel : Int, msat : Int])

(***************************************************************************)
(* try_allocate when there is a target and a channel left, the i-th; rest  *)
(* is try_allocate on the channels behind it.  Contributions of attempts   *)
(* that turned out to be impossible are not taken out again.               *)
(***************************************************************************)
UseOrSkip(chs, i, rest, target, acc) ==
    LET lower == chs[i].min
        upper == Lesser(chs[i].spendable, target)
    IN  IF target < lower
        THEN LET skipped == rest[target][acc]
             IN  IF skipped.result = Success THEN skipped
                 ELSE [skipped EXCEPT !.result = NeedSpace(lower - target)]
        ELSE LET full == rest[target - upper][Append(acc, Part(i, upper))]
                 short == full.result.short
                 free == upper - lower
                 adjusted == rest[target - (upper - short)]
                                 [Append(Front(full.acc), Part(i, upper - short))]
             IN  IF full.result.kind # "need" THEN full
                 ELSE IF short > free
                 THEN [result |-> NeedSpace(short - free), acc |-> Front(full.acc)]
                 ELSE IF adjusted.result = Success THEN adjusted
                 ELSE rest[target][Front(adjusted.acc)]

(***************************************************************************)
(* try_allocate, its result and what it leaves in the vector, on the last  *)
(* n channels: a function of the target and of the vector it is given.     *)
(***************************************************************************)
TryAllocate(chs) ==
    LET onLast[n \in 0..Len(chs)] ==
            [target \in Nat |-> [acc \in Vector |->
                IF target = 0 THEN [result |-> Success, acc |-> acc]
                ELSE IF n = 0 THEN [result |-> Impossible, acc |-> acc]
                ELSE UseOrSkip(chs, Len(chs) + 1 - n, onLast[n - 1], target, acc)]]
    IN  onLast[Len(chs)]

\* Mutant of FindAllocation: takes what an unsuccessful search left.
FindAllocationAnyway(chs, target) ==
    IF target > 0 THEN TryAllocate(chs)[target][<<>>].acc ELSE <<>>

\* find_allocation; the empty vector stands for None, which is treated alike.
FindAllocation(chs, target) ==
    LET found == TryAllocate(chs)[target][<<>>]
    IN  IF target > 0 /\ found.result = Success THEN found.acc ELSE <<>>

\* sort_by what the channels can spend, downwards if sign is -1, and then by
\* their minimum.
Before(a, b, sign) ==
    \/ sign * a.spendable < sign * b.spendable
    \/ a.spendable = b.spendable /\ a.min < b.min

\* Every channel at the place the number of those up to it gives it.
Sorted(chs, sign) ==
    LET UpTo(i) == {j \in DOMAIN chs : \/ Before(chs[j], chs[i], sign)
                                       \/ chs[j] = chs[i] /\ j <= i}
        place == [i \in DOMAIN chs |-> Cardinality(UpTo(i))]
    IN  [n \in DOMAIN chs |-> chs[CHOOSE i \in DOMAIN chs : place[i] = n]]

Ascending(chs) == Sorted(chs, 1)

\* Mutant of Descending: the order of the first strategy again.
DescendingAscends(chs) == Sorted(chs, 1)

Descending(chs) == Sorted(chs, -1)

-----------------------------------------------------------------------------
(* The two strategies of trampoline_pay                                    *)

Init ==
    /\ channels \in BoundedSeq(Channel, MaxChannels)
    /\ amount \in 0..(MaxChannels * MaxMsat)
    /\ alloc = <<>>
    /\ pc = "start"

TryAscending ==
    /\ pc = "start"
    /\ channels' = Ascending(channels)
    /\ alloc' = FindAllocation(channels', amount)
    /\ pc' = IF alloc' # <<>> THEN "ascending" ELSE "descend"
    /\ UNCHANGED amount

TryDescending ==
    /\ pc = "descend"
    /\ channels' = Descending(channels)
    /\ alloc' = FindAllocation(channels', amount)
    /\ pc' = IF alloc' # <<>> THEN "descending" ELSE "insufficient"
    /\ UNCHANGED amount

Next == TryAscending \/ TryDescending

Spec == Init /\ [][Next]_vars

-----------------------------------------------------------------------------
(* Properties                                                              *)

SumOf(s) ==
    LET upTo[n \in 0..Len(s)] == IF n = 0 THEN 0 ELSE upTo[n - 1] + s[n]
    IN  upTo[Len(s)]

Paid == SumOf([n \in DOMAIN alloc |-> alloc[n].msat])

(***************************************************************************)
(* "Finds an allocation that covers the target amount": what is sent over  *)
(* the channels adds up to the amount, whichever order they are tried in.  *)
(***************************************************************************)
AllocationIsExact == alloc # <<>> => Paid = amount

(***************************************************************************)
(* In ascending order no cascade of adjustments loses or repeats a part:   *)
(* the parts add up to the amount and no channel carries two.              *)
(***************************************************************************)
AscendingIsExact ==
    pc = "ascending" => /\ Paid = amount
                        /\ Cardinality({part.channel : part \in ToSet(alloc)}) = Len(alloc)

(***************************************************************************)
(* "while respecting channel constraints": after any adjustment a part     *)
(* still is at least the minimum of its channel, and its channel can spend *)
(* it.                                                                     *)
(***************************************************************************)
PartsFitChannels ==
    \A i \in DOMAIN alloc :
        alloc[i].msat \in channels[alloc[i].channel].min .. channels[alloc[i].channel].spendable

(***************************************************************************)
(* A payment is not refused for lack of funds if one channel can carry it  *)
(* alone, nor if minimal amounts cannot stand in its way, nor if it takes  *)
(* all there is.                                                           *)
(***************************************************************************)
EasyAmountsAreFound ==
    pc = "insufficient" =>
        LET funds == SumOf([i \in DOMAIN channels |-> channels[i].spendable])
        IN  /\ \A i \in DOMAIN channels : amount = 0 \/ amount \notin channels[i].min .. channels[i].spendable
            /\ amount # 0 => amount # funds
            /\ (\A i \in DOMAIN channels : channels[i].min = 0) => amount = 0 \/ amount > funds

=============================================================================
