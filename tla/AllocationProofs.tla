------------------------- MODULE AllocationProofs -------------------------
(***************************************************************************)
(* Proofs about the allocation of an amount to channels, for any number of *)
(* channels and any amounts: what the search leaves in the vector it       *)
(* shares, that in ascending order it comes to the amount, and what it     *)
(* cannot fail to find.                                                    *)
(***************************************************************************)
EXTENDS Allocation, FiniteSetTheorems, SequenceTheorems, WellFoundedInduction, TLAPS

-----------------------------------------------------------------------------
(* Recursion on numbers                                                    *)

\* Induction on the natural numbers, for a set of those it holds for.
LEMMA NatSetInduction ==
    ASSUME NEW S \in SUBSET Nat, 0 \in S, \A n \in S : n + 1 \in S
    PROVE  S = Nat
<1> SUFFICES ASSUME Nat \ S # {}
             PROVE  FALSE
  OBVIOUS
<1>1. PICK m \in Nat \ S : \A k \in Nat \ S : ~(<<k, m>> \in OpToRel(<, Nat))
  BY NatLessThanWellFounded, WFMin
<1>2. \A k \in Nat \ S : ~(k < m)
  BY <1>1 DEF OpToRel
<1>3. m # 0 /\ m - 1 \in Nat /\ m - 1 \in S
  BY <1>2
<1> QED
  BY <1>3

\* f starts at b and goes on with g, up to n.
Recursion(f, n, b, g) ==
    /\ f = [k \in 0..n |-> f[k]]
    /\ f[0] = b
    /\ \A k \in 1..n : f[k] = g[k][f[k - 1]]

LEMMA RecursionExists ==
    ASSUME NEW V, NEW b \in V, NEW N \in Nat, NEW g \in [1..N -> [V -> V]]
    PROVE  \E f : Recursion(f, N, b, g) /\ \A k \in 0..N : f[k] \in V
<1> DEFINE S == {n \in Nat : n <= N => \E f : Recursion(f, n, b, g)
                                              /\ \A k \in 0..n : f[k] \in V}
<1>1. 0 \in S
  <2> DEFINE f == [k \in 0..0 |-> b]
  <2>1. Recursion(f, 0, b, g) /\ \A k \in 0..0 : f[k] \in V
    BY DEF Recursion
  <2> HIDE DEF f
  <2> QED
    BY <2>1
<1>2. ASSUME NEW n \in S
      PROVE  n + 1 \in S
  <2> SUFFICES ASSUME n + 1 <= N
               PROVE  \E h : Recursion(h, n + 1, b, g) /\ \A k \in 0..n + 1 : h[k] \in V
    OBVIOUS
  <2>1. PICK f : Recursion(f, n, b, g) /\ \A k \in 0..n : f[k] \in V
    OBVIOUS
  <2> DEFINE h == [k \in 0..n + 1 |-> IF k = n + 1 THEN g[n + 1][f[n]] ELSE f[k]]
  <2>2. \A k \in 0..n : h[k] = f[k]
    OBVIOUS
  <2>3. h[n + 1] = g[n + 1][f[n]]
    OBVIOUS
  <2>4. h = [k \in 0..n + 1 |-> h[k]]
    OBVIOUS
  <2> HIDE DEF h
  <2>5. ASSUME NEW k \in 1..n + 1
        PROVE  h[k] = g[k][h[k - 1]]
    <3>1. CASE k = n + 1
      <4>1. n \in 0..n /\ k - 1 = n
        BY <3>1
      <4>2. h[k - 1] = f[n]
        BY <2>2, <4>1
      <4> QED
        BY <2>3, <3>1, <4>2
    <3>2. CASE k \in 1..n
      <4>1. k \in 0..n /\ k - 1 \in 0..n
        BY <3>2
      <4>2. f[k] = g[k][f[k - 1]]
        BY <2>1, <3>2 DEF Recursion
      <4>3. h[k] = f[k] /\ h[k - 1] = f[k - 1]
        BY <2>2, <4>1
      <4> QED
        BY <4>2, <4>3
    <3> QED
      BY <3>1, <3>2
  <2>6. h[n + 1] \in V
    <3>1. n + 1 \in 1..N /\ f[n] \in V
      BY <2>1
    <3> QED
      BY <2>3, <3>1
  <2>7. \A k \in 0..n + 1 : h[k] \in V
    BY <2>1, <2>2, <2>6
  <2>8. h[0] = b
    BY <2>1, <2>2 DEF Recursion
  <2> QED
    BY <2>4, <2>5, <2>7, <2>8 DEF Recursion
<1>3. S = Nat
  <2> HIDE DEF S
  <2>1. S \in SUBSET Nat
    BY DEF S
  <2> QED
    BY <1>1, <1>2, <2>1, NatSetInduction
<1>4. N \in S
  <2> HIDE DEF S
  <2> QED
    BY <1>3
<1> QED
  BY <1>4

-----------------------------------------------------------------------------
(* Sums                                                                    *)

Sums(s) == CHOOSE f : f = [n \in 0..Len(s) |-> IF n = 0 THEN 0 ELSE f[n - 1] + s[n]]

LEMMA SumIs == ASSUME NEW s PROVE SumOf(s) = Sums(s)[Len(s)]
BY DEF SumOf, Sums

\* The partial sums of a sequence of numbers.
LEMMA SumsAre ==
    ASSUME NEW s \in Seq(Int)
    PROVE  /\ Sums(s)[0] = 0
           /\ \A n \in 1..Len(s) : Sums(s)[n] = Sums(s)[n - 1] + s[n]
           /\ \A n \in 0..Len(s) : Sums(s)[n] \in Int
<1> DEFINE N == Len(s)
           g == [n \in 1..N |-> [x \in Int |-> x + s[n]]]
           Next1(f, n) == IF n = 0 THEN 0 ELSE f[n - 1] + s[n]
<1>1. N \in Nat /\ \A n \in 1..N : s[n] \in Int
  OBVIOUS
<1>2. g \in [1..N -> [Int -> Int]]
  BY <1>1
<1>3. PICK f : Recursion(f, N, 0, g) /\ \A n \in 0..N : f[n] \in Int
  <2> HIDE DEF g, N
  <2>1. 0 \in Int /\ N \in Nat
    BY <1>1
  <2> QED
    BY <1>2, <2>1, RecursionExists
<1>4. ASSUME NEW n \in 1..N
      PROVE  f[n] = f[n - 1] + s[n]
  <2>1. n - 1 \in 0..N
    BY <1>1
  <2>2. f[n] = g[n][f[n - 1]]
    <3> HIDE DEF g, N
    <3> QED
      BY <1>3 DEF Recursion
  <2>3. f[n - 1] \in Int
    BY <1>3, <2>1
  <2> QED
    BY <2>2, <2>3
<1>5. ASSUME NEW n \in 0..N
      PROVE  f[n] = Next1(f, n)
  <2>1. n = 0 \/ n \in 1..N
    OBVIOUS
  <2>2. f[0] = 0
    BY <1>3 DEF Recursion
  <2> QED
    BY <1>4, <2>1, <2>2
<1>6. f = [n \in 0..N |-> Next1(f, n)]
  <2>1. f = [n \in 0..N |-> f[n]]
    BY <1>3 DEF Recursion
  <2> HIDE DEF Next1
  <2> QED
    BY <1>5, <2>1
<1>7. Sums(s) = [n \in 0..N |-> Next1(Sums(s), n)]
  BY <1>6 DEF Sums
<1>8. \A n \in 0..N : Sums(s)[n] = Next1(Sums(s), n)
  <2> HIDE DEF Next1, N
  <2> QED
    BY <1>7
<1>9. Sums(s)[0] = 0 /\ \A n \in 1..N : Sums(s)[n] = Sums(s)[n - 1] + s[n]
  BY <1>1, <1>8
<1>10. \A n \in 0..N : Sums(s)[n] \in Int
  <2> DEFINE S == {n \in Nat : n <= N => Sums(s)[n] \in Int}
  <2>1. 0 \in S
    BY <1>9
  <2>2. ASSUME NEW n \in S
        PROVE  n + 1 \in S
    <3> SUFFICES ASSUME n + 1 <= N
                 PROVE  Sums(s)[n + 1] \in Int
      OBVIOUS
    <3>1. n + 1 \in 1..N /\ (n + 1) - 1 = n /\ Sums(s)[n] \in Int
      OBVIOUS
    <3> QED
      BY <1>1, <1>9, <3>1
  <2>3. S = Nat
    <3> HIDE DEF S
    <3>1. S \in SUBSET Nat
      BY DEF S
    <3> QED
      BY <2>1, <2>2, <3>1, NatSetInduction
  <2> QED
    BY <2>3
<1> QED
  BY <1>9, <1>10

\* Sequences that agree so far have the same sums so far.
LEMMA SumsAgree ==
    ASSUME NEW s \in Seq(Int), NEW t \in Seq(Int), NEW m \in Nat, m <= Len(s), m <= Len(t),
           \A n \in 1..m : s[n] = t[n]
    PROVE  Sums(s)[m] = Sums(t)[m]
<1> DEFINE S == {n \in Nat : n <= m => Sums(s)[n] = Sums(t)[n]}
<1>1. 0 \in S
  BY SumsAre
<1>2. ASSUME NEW n \in S
      PROVE  n + 1 \in S
  <2> SUFFICES ASSUME n + 1 <= m
               PROVE  Sums(s)[n + 1] = Sums(t)[n + 1]
    OBVIOUS
  <2>1. n + 1 \in 1..Len(s) /\ n + 1 \in 1..Len(t) /\ (n + 1) - 1 = n
    OBVIOUS
  <2>2. Sums(s)[n + 1] = Sums(s)[n] + s[n + 1] /\ Sums(t)[n + 1] = Sums(t)[n] + t[n + 1]
    BY <2>1, SumsAre
  <2> QED
    BY <2>2
<1>3. S = Nat
  <2> HIDE DEF S
  <2>1. S \in SUBSET Nat
    BY DEF S
  <2> QED
    BY <1>1, <1>2, <2>1, NatSetInduction
<1> QED
  BY <1>3

LEMMA SumOfAppend ==
    ASSUME NEW s \in Seq(Int), NEW x \in Int
    PROVE  SumOf(Append(s, x)) = SumOf(s) + x
<1> DEFINE t == Append(s, x)
<1>1. t \in Seq(Int)
  OBVIOUS
<1>2. /\ Len(t) = Len(s) + 1 /\ Len(s) \in Nat /\ t[Len(s) + 1] = x
      /\ \A n \in 1..Len(s) : t[n] = s[n]
  OBVIOUS
<1> HIDE DEF t
<1>3. Sums(t)[Len(s)] = Sums(s)[Len(s)]
  <2>1. Len(s) <= Len(s) /\ Len(s) <= Len(t)
    BY <1>2
  <2> QED
    BY <1>1, <1>2, <2>1, SumsAgree
<1>4. Sums(t)[Len(s) + 1] = Sums(t)[(Len(s) + 1) - 1] + x
  <2>1. Len(s) + 1 \in 1..Len(t)
    BY <1>2
  <2> QED
    BY <1>1, <1>2, <2>1, SumsAre
<1>5. SumOf(t) = Sums(t)[Len(s) + 1] /\ SumOf(s) = Sums(s)[Len(s)]
  BY <1>2, SumIs
<1>6. SumOf(t) = SumOf(s) + x
  BY <1>2, <1>3, <1>4, <1>5
<1> QED
  BY <1>6 DEF t

-----------------------------------------------------------------------------
(* The search, level by level                                              *)

Result == {Success, Impossible} \cup {NeedSpace(n) : n \in Nat \ {0}}

Outcome == [result : Result, acc : Vector]

\* try_allocate on the last channels, as TryAllocate has it.
Attempts == [Nat -> [Vector -> Outcome]]

Level(chs, n, rest) ==
    [target \in Nat |-> [acc \in Vector |->
        IF target = 0 THEN [result |-> Success, acc |-> acc]
        ELSE IF n = 0 THEN [result |-> Impossible, acc |-> acc]
        ELSE UseOrSkip(chs, Len(chs) + 1 - n, rest, target, acc)]]

LEMMA ResultCases ==
    /\ Success \in Result /\ Impossible \in Result /\ Success # Impossible
    /\ Success.kind # "need" /\ Impossible.kind # "need"
    /\ \A n \in Nat \ {0} : /\ NeedSpace(n) \in Result /\ NeedSpace(n).kind = "need"
                            /\ NeedSpace(n).short = n
                            /\ NeedSpace(n) # Success /\ NeedSpace(n) # Impossible
    /\ \A r \in Result : \/ r = Success \/ r = Impossible
                         \/ r.kind = "need" /\ r.short \in Nat \ {0} /\ r = NeedSpace(r.short)
<1>1. \A n \in Nat \ {0} : NeedSpace(n).kind = "need" /\ NeedSpace(n).short = n
  BY DEF NeedSpace
<1>2. Success.kind = "success" /\ Impossible.kind = "impossible"
  BY DEF Success, Impossible
<1>3. \A r \in Result : \/ r = Success \/ r = Impossible
                        \/ \E n \in Nat \ {0} : r = NeedSpace(n)
  BY DEF Result
<1>4. Success \in Result /\ Impossible \in Result /\ \A n \in Nat \ {0} : NeedSpace(n) \in Result
  BY DEF Result
<1>5. \A r \in Result : \/ r = Success \/ r = Impossible
                        \/ r.kind = "need" /\ r.short \in Nat \ {0} /\ r = NeedSpace(r.short)
  BY <1>1, <1>3
<1>6. \A n \in Nat \ {0} : NeedSpace(n) # Success /\ NeedSpace(n) # Impossible
  BY <1>1, <1>2
<1>7. Success # Impossible /\ Success.kind # "need" /\ Impossible.kind # "need"
  BY <1>2
<1> QED
  BY <1>1, <1>4, <1>5, <1>6, <1>7

\* What is known of a channel, and of what it is to carry of a target.
LEMMA ChannelBounds ==
    ASSUME NEW c \in Channel
    PROVE  /\ c.spendable \in Nat \ {0} /\ c.min \in Nat /\ c.min < c.spendable
           /\ \A t \in Nat \ {0} : c.min <= t =>
                /\ Lesser(c.spendable, t) \in Nat \ {0}
                /\ Lesser(c.spendable, t) \in c.min..c.spendable
                /\ Lesser(c.spendable, t) <= t
                /\ t <= c.spendable => Lesser(c.spendable, t) = t
                /\ c.spendable <= t => Lesser(c.spendable, t) = c.spendable
<1>1. c.spendable \in Nat \ {0} /\ c.min \in Nat /\ c.min < c.spendable
  BY AllocationConstants DEF Channel
<1> QED
  BY <1>1 DEF Lesser

\* Pushing to the vector and popping from it.
LEMMA Pushed ==
    ASSUME NEW acc \in Vector, NEW i \in Int, NEW n \in Int
    PROVE  /\ Append(acc, Part(i, n)) \in Vector
           /\ Front(Append(acc, Part(i, n))) = acc
           /\ Part(i, n).channel = i /\ Part(i, n).msat = n
<1>1. Part(i, n) \in [channel : Int, msat : Int] /\ Part(i, n).channel = i /\ Part(i, n).msat = n
  BY DEF Part
<1>2. PICK e \in [channel : Int, msat : Int] : e = Part(i, n)
  BY <1>1
<1>3. acc \in Seq([channel : Int, msat : Int])
  BY DEF Vector
<1>4. /\ Append(acc, e) \in Seq([channel : Int, msat : Int])
      /\ Len(Append(acc, e)) = Len(acc) + 1 /\ Len(acc) \in Nat
      /\ \A k \in 1..Len(acc) : Append(acc, e)[k] = acc[k]
  BY <1>3
<1>5. Front(Append(acc, e)) = acc
  BY <1>3, <1>4 DEF Front
<1> QED
  BY <1>1, <1>2, <1>4, <1>5 DEF Vector

LEMMA PushedSome ==
    ASSUME NEW acc \in Vector, NEW i \in Int, NEW n \in Int
    PROVE  Append(acc, Part(i, n)) # <<>>
<1> DEFINE P == [channel : Int, msat : Int]
<1>1. acc \in Seq(P) /\ Part(i, n) \in P
  BY DEF Vector, Part
<1> HIDE DEF P
<1> QED
  BY <1>1, AppendProperties

LEMMA PoppedOf ==
    ASSUME NEW S, NEW acc \in Seq(S)
    PROVE  Front(acc) \in Seq(S)
<1>1. Len(acc) \in Nat /\ \A k \in 1..Len(acc) - 1 : acc[k] \in S
  OBVIOUS
<1> QED
  BY <1>1 DEF Front

\* Where the search stands, with a target and a channel left, and what it does.
Search(chs, i, rest, t, acc) ==
    /\ chs \in Seq(Channel) /\ i \in 1..Len(chs)
    /\ rest \in Attempts
    /\ t \in Nat \ {0} /\ acc \in Vector

Skips(chs, i, rest, t, acc, out) ==
    /\ t < chs[i].min
    /\ LET skipped == rest[t][acc]
       IN  IF skipped.result = Success THEN out = skipped
           ELSE out = [result |-> NeedSpace(chs[i].min - t), acc |-> skipped.acc]

\* It takes what it can, upper, and the channels behind it make full of the rest.
Takes(chs, i, rest, t, acc, upper, full) ==
    /\ chs[i].min <= t
    /\ upper \in Nat \ {0} /\ upper \in chs[i].min..chs[i].spendable
    /\ upper = Lesser(chs[i].spendable, t)
    /\ upper <= t /\ (upper = t \/ upper = chs[i].spendable)
    /\ full = rest[t - upper][Append(acc, Part(i, upper))]
    /\ full \in Outcome

\* It gives back what the channels behind it need.
Adjusts(chs, i, rest, t, upper, full, short, adjusted) ==
    /\ full.result = NeedSpace(short)
    /\ short \in Nat \ {0} /\ short <= upper - chs[i].min
    /\ Front(full.acc) \in Vector
    /\ adjusted = rest[t - (upper - short)][Append(Front(full.acc), Part(i, upper - short))]
    /\ adjusted \in Outcome

\* What is needed is more than it can give back.
AsksMore(chs, i, upper, full, short, out) ==
    /\ full.result = NeedSpace(short)
    /\ short \in Nat \ {0} /\ short > upper - chs[i].min
    /\ out = [result |-> NeedSpace(short - (upper - chs[i].min)), acc |-> Front(full.acc)]

\* Once it has given back, or else the channel is skipped.
Retries(rest, t, adjusted, out) ==
    out = IF adjusted.result = Success THEN adjusted ELSE rest[t][Front(adjusted.acc)]

LEMMA AttemptIsOutcome ==
    ASSUME NEW rest \in Attempts, NEW t \in Nat, NEW acc \in Vector
    PROVE  rest[t][acc] \in Outcome
BY DEF Attempts

LEMMA TakesWhatItCan ==
    ASSUME NEW chs, NEW i, NEW rest, NEW t, NEW acc, Search(chs, i, rest, t, acc),
           chs[i].min <= t
    PROVE  \E upper, full : Takes(chs, i, rest, t, acc, upper, full)
<1>1. PICK c \in Channel : c = chs[i]
  BY DEF Search
<1>2. PICK upper : upper = Lesser(c.spendable, t)
  OBVIOUS
<1>3. /\ upper \in Nat \ {0} /\ upper \in c.min..c.spendable
      /\ upper <= t /\ (upper = t \/ upper = c.spendable)
  <2>1. c.spendable \in Nat /\ t \in Nat
    BY ChannelBounds DEF Search
  <2>2. upper = t \/ upper = c.spendable
    BY <1>2 DEF Lesser
  <2> QED
    BY <1>1, <1>2, <2>2, ChannelBounds DEF Search
<1>4. Append(acc, Part(i, upper)) \in Vector /\ t - upper \in Nat
  <2>1. i \in Int /\ upper \in Int /\ acc \in Vector /\ t \in Nat
    BY <1>3 DEF Search
  <2> QED
    BY <1>3, <2>1, Pushed
<1>5. rest[t - upper][Append(acc, Part(i, upper))] \in Outcome
  BY <1>4, AttemptIsOutcome DEF Search
<1> QED
  BY <1>1, <1>2, <1>3, <1>5 DEF Takes

LEMMA AdjustsWhatItTook ==
    ASSUME NEW chs, NEW i, NEW rest, NEW t, NEW acc, Search(chs, i, rest, t, acc),
           NEW upper, NEW full, Takes(chs, i, rest, t, acc, upper, full),
           full.result.kind = "need", full.result.short <= upper - chs[i].min
    PROVE  \E short, adjusted : Adjusts(chs, i, rest, t, upper, full, short, adjusted)
<1>1. full \in Outcome /\ full.result \in Result /\ full.acc \in Vector
  BY DEF Takes, Outcome
<1>2. PICK short \in Nat \ {0} : full.result = NeedSpace(short) /\ full.result.short = short
  BY <1>1, ResultCases
<1>3. PICK popped \in Vector : popped = Front(full.acc)
  BY <1>1, PoppedOf DEF Vector
<1>4. chs[i] \in Channel /\ chs[i].min \in Nat
  BY ChannelBounds DEF Search
<1>5. /\ upper - short \in Nat /\ upper - short <= t /\ t - (upper - short) \in Nat
      /\ short <= upper - chs[i].min
  BY <1>2, <1>4 DEF Takes, Search
<1>6. Append(popped, Part(i, upper - short)) \in Vector
  BY <1>5, Pushed DEF Search
<1>7. rest[t - (upper - short)][Append(popped, Part(i, upper - short))] \in Outcome
  BY <1>5, <1>6, AttemptIsOutcome DEF Search
<1> QED
  BY <1>2, <1>3, <1>5, <1>7 DEF Adjusts

\* The ways the search goes on.
LEMMA SearchCases ==
    ASSUME NEW chs, NEW i, NEW rest, NEW t, NEW acc, Search(chs, i, rest, t, acc),
           NEW out, out = UseOrSkip(chs, i, rest, t, acc)
    PROVE  \/ Skips(chs, i, rest, t, acc, out)
           \/ \E upper, full :
                 /\ Takes(chs, i, rest, t, acc, upper, full)
                 /\ \/ full.result \in {Success, Impossible} /\ out = full
                    \/ \E short : AsksMore(chs, i, upper, full, short, out)
                    \/ \E short, adjusted :
                          /\ Adjusts(chs, i, rest, t, upper, full, short, adjusted)
                          /\ Retries(rest, t, adjusted, out)
<1>1. chs[i] \in Channel /\ chs[i].min \in Nat /\ t \in Nat
  BY ChannelBounds DEF Search
<1>2. CASE t < chs[i].min
  <2>1. rest[t][acc] \in Outcome
    BY <1>1, AttemptIsOutcome DEF Search
  <2>2. PICK skipped \in Outcome : skipped = rest[t][acc]
    BY <2>1
  <2>3. out = IF skipped.result = Success THEN skipped
              ELSE [skipped EXCEPT !.result = NeedSpace(chs[i].min - t)]
    BY <1>2, <2>2 DEF UseOrSkip
  <2>4. [skipped EXCEPT !.result = NeedSpace(chs[i].min - t)]
            = [result |-> NeedSpace(chs[i].min - t), acc |-> skipped.acc]
    BY DEF Outcome
  <2> QED
    BY <1>2, <2>2, <2>3, <2>4 DEF Skips
<1>3. CASE chs[i].min <= t
  <2>1. PICK upper, full : Takes(chs, i, rest, t, acc, upper, full)
    BY <1>3, TakesWhatItCan
  <2>2. full \in Outcome /\ full.result \in Result
    BY <2>1 DEF Takes, Outcome
  <2>3. /\ ~(t < chs[i].min) /\ upper = Lesser(chs[i].spendable, t)
        /\ full = rest[t - upper][Append(acc, Part(i, upper))]
    BY <1>1, <1>3, <2>1 DEF Takes
  <2>4. CASE full.result.kind # "need"
    <3>1. full.result \in {Success, Impossible}
      BY <2>2, <2>4, ResultCases
    <3>2. out = full
      BY <2>3, <2>4 DEF UseOrSkip
    <3> QED
      BY <2>1, <3>1, <3>2
  <2>5. CASE full.result.kind = "need" /\ full.result.short > upper - chs[i].min
    <3>1. PICK short \in Nat \ {0} : full.result = NeedSpace(short) /\ full.result.short = short
      BY <2>2, <2>5, ResultCases
    <3>2. out = [result |-> NeedSpace(short - (upper - chs[i].min)), acc |-> Front(full.acc)]
      BY <2>3, <2>5, <3>1 DEF UseOrSkip
    <3> QED
      BY <2>1, <2>5, <3>1, <3>2 DEF AsksMore
  <2>6. CASE full.result.kind = "need" /\ full.result.short <= upper - chs[i].min
    <3>1. PICK short, adjusted : Adjusts(chs, i, rest, t, upper, full, short, adjusted)
      BY <2>1, <2>6, AdjustsWhatItTook
    <3>2. full.result.short = short /\ short \in Nat
      BY <3>1, ResultCases DEF Adjusts
    <3>3. ~(short > upper - chs[i].min)
      BY <1>1, <2>1, <3>1, <3>2 DEF Adjusts, Takes
    <3>4. adjusted = rest[t - (upper - short)][Append(Front(full.acc), Part(i, upper - short))]
      BY <3>1 DEF Adjusts
    <3>5. out = IF adjusted.result = Success THEN adjusted ELSE rest[t][Front(adjusted.acc)]
      BY <2>3, <2>6, <3>2, <3>3, <3>4 DEF UseOrSkip
    <3> QED
      BY <2>1, <3>1, <3>5 DEF Retries
  <2>7. full.result.kind = "need" => full.result.short \in Nat
    BY <2>2, ResultCases
  <2>8. upper - chs[i].min \in Int
    BY <1>1, <2>1 DEF Takes
  <2> QED
    BY <2>4, <2>5, <2>6, <2>7, <2>8
<1> QED
  BY <1>1, <1>2, <1>3

\* All of them end in an outcome.
LEMMA SearchIsOutcome ==
    ASSUME NEW chs, NEW i, NEW rest, NEW t, NEW acc, Search(chs, i, rest, t, acc)
    PROVE  UseOrSkip(chs, i, rest, t, acc) \in Outcome
<1>1. chs[i].min \in Nat /\ t \in Nat
  BY ChannelBounds DEF Search
<1>2. PICK out : out = UseOrSkip(chs, i, rest, t, acc)
  OBVIOUS
<1>3. CASE Skips(chs, i, rest, t, acc, out)
  <2>1. PICK skipped \in Outcome : skipped = rest[t][acc]
    BY <1>1, AttemptIsOutcome DEF Search
  <2>2. chs[i].min - t \in Nat \ {0}
    BY <1>1, <1>3 DEF Skips
  <2>3. NeedSpace(chs[i].min - t) \in Result /\ skipped.acc \in Vector
    BY <2>2, ResultCases DEF Outcome
  <2> QED
    BY <1>2, <1>3, <2>1, <2>3 DEF Skips, Outcome
<1>4. ASSUME NEW upper, NEW full, Takes(chs, i, rest, t, acc, upper, full),
             NEW short, AsksMore(chs, i, upper, full, short, out)
      PROVE  out \in Outcome
  <2>1. short - (upper - chs[i].min) \in Nat \ {0}
    BY <1>1, <1>4 DEF Takes, AsksMore
  <2>2. NeedSpace(short - (upper - chs[i].min)) \in Result
    BY <2>1, ResultCases
  <2>3. full.acc \in Vector
    BY <1>4 DEF Takes, Outcome
  <2>4. Front(full.acc) \in Vector
    BY <2>3, PoppedOf DEF Vector
  <2> QED
    BY <1>4, <2>2, <2>4 DEF Outcome, AsksMore
<1>5. ASSUME NEW upper, NEW full, NEW short, NEW adjusted,
             Adjusts(chs, i, rest, t, upper, full, short, adjusted),
             Retries(rest, t, adjusted, out)
      PROVE  out \in Outcome
  <2>1. adjusted \in Outcome /\ adjusted.acc \in Vector
    BY <1>5 DEF Adjusts, Outcome
  <2>2. Front(adjusted.acc) \in Vector
    BY <2>1, PoppedOf DEF Vector
  <2>3. rest[t][Front(adjusted.acc)] \in Outcome
    BY <1>1, <2>2, AttemptIsOutcome DEF Search
  <2> QED
    BY <1>5, <2>1, <2>3 DEF Retries
<1>6. ASSUME NEW upper, NEW full, Takes(chs, i, rest, t, acc, upper, full), out = full
      PROVE  out \in Outcome
  BY <1>6 DEF Takes
<1> QED
  BY <1>2, <1>3, <1>4, <1>5, <1>6, SearchCases

LEMMA LevelIsAttempts ==
    ASSUME NEW chs \in Seq(Channel), NEW n \in 0..Len(chs), NEW rest,
           n = 0 \/ rest \in Attempts
    PROVE  /\ Level(chs, n, rest) \in Attempts
           /\ \A acc \in Vector :
                /\ Level(chs, n, rest)[0][acc] = [result |-> Success, acc |-> acc]
                /\ \A t \in Nat \ {0} :
                     Level(chs, n, rest)[t][acc] =
                         IF n = 0 THEN [result |-> Impossible, acc |-> acc]
                         ELSE UseOrSkip(chs, Len(chs) + 1 - n, rest, t, acc)
           /\ n # 0 => \A acc \in Vector, t \in Nat \ {0} :
                         Search(chs, Len(chs) + 1 - n, rest, t, acc)
<1> DEFINE Out(t, acc) == IF t = 0 THEN [result |-> Success, acc |-> acc]
                          ELSE IF n = 0 THEN [result |-> Impossible, acc |-> acc]
                          ELSE UseOrSkip(chs, Len(chs) + 1 - n, rest, t, acc)
<1>1. Level(chs, n, rest) = [t \in Nat |-> [acc \in Vector |-> Out(t, acc)]]
  BY DEF Level
<1>2. n # 0 => \A acc \in Vector, t \in Nat \ {0} : Search(chs, Len(chs) + 1 - n, rest, t, acc)
  <2>1. n # 0 => Len(chs) + 1 - n \in 1..Len(chs)
    OBVIOUS
  <2> QED
    BY <2>1 DEF Search
<1>3. ASSUME NEW t \in Nat, NEW acc \in Vector
      PROVE  Out(t, acc) \in Outcome
  <2>1. Success \in Result /\ Impossible \in Result
    BY ResultCases
  <2>2. CASE t # 0 /\ n # 0
    <3>1. Search(chs, Len(chs) + 1 - n, rest, t, acc)
      BY <1>2, <2>2
    <3>2. UseOrSkip(chs, Len(chs) + 1 - n, rest, t, acc) \in Outcome
      BY <3>1, SearchIsOutcome
    <3> QED
      BY <2>2, <3>2
  <2>3. CASE t = 0 \/ n = 0
    BY <2>1, <2>3 DEF Outcome
  <2> QED
    BY <2>2, <2>3
<1>4. \A t \in Nat, acc \in Vector : Level(chs, n, rest)[t][acc] = Out(t, acc)
  <2> HIDE DEF Out
  <2> QED
    BY <1>1
<1>5. Level(chs, n, rest) \in Attempts
  <2> HIDE DEF Out
  <2> QED
    BY <1>1, <1>3 DEF Attempts
<1> QED
  BY <1>2, <1>4, <1>5

\* One with a channel to look at.
LEMMA LevelSearches ==
    ASSUME NEW chs \in Seq(Channel), NEW n \in 1..Len(chs), NEW rest \in Attempts
    PROVE  /\ Level(chs, n, rest) \in Attempts
           /\ \A acc \in Vector :
                /\ Level(chs, n, rest)[0][acc] = [result |-> Success, acc |-> acc]
                /\ \A t \in Nat \ {0} :
                     /\ Search(chs, Len(chs) + 1 - n, rest, t, acc)
                     /\ Level(chs, n, rest)[t][acc] = UseOrSkip(chs, Len(chs) + 1 - n, rest, t, acc)
<1>1. n \in 0..Len(chs) /\ n # 0
  OBVIOUS
<1>2. /\ Level(chs, n, rest) \in Attempts
      /\ \A acc \in Vector :
           /\ Level(chs, n, rest)[0][acc] = [result |-> Success, acc |-> acc]
           /\ \A t \in Nat \ {0} :
                Level(chs, n, rest)[t][acc] =
                    IF n = 0 THEN [result |-> Impossible, acc |-> acc]
                    ELSE UseOrSkip(chs, Len(chs) + 1 - n, rest, t, acc)
      /\ n # 0 => \A acc \in Vector, t \in Nat \ {0} :
                    Search(chs, Len(chs) + 1 - n, rest, t, acc)
  BY <1>1, LevelIsAttempts
<1> QED
  BY <1>1, <1>2

Tries(chs) == CHOOSE f : f = [n \in 0..Len(chs) |-> Level(chs, n, f[n - 1])]

LEMMA TryAllocateIs ==
    ASSUME NEW chs
    PROVE  TryAllocate(chs) = Tries(chs)[Len(chs)]
BY DEF TryAllocate, Tries, Level

\* The levels of the search there are, the first on no channels.
LEMMA TriesAre ==
    ASSUME NEW chs \in Seq(Channel)
    PROVE  /\ Tries(chs)[0] = Level(chs, 0, {})
           /\ \A n \in 0..Len(chs) : Tries(chs)[n] \in Attempts
           /\ \A n \in 1..Len(chs) : Tries(chs)[n] = Level(chs, n, Tries(chs)[n - 1])
<1> DEFINE N == Len(chs)
           g == [n \in 1..N |-> [rest \in Attempts |-> Level(chs, n, rest)]]
<1>1. N \in Nat
  OBVIOUS
<1>2. \A x, y : Level(chs, 0, x) = Level(chs, 0, y)
  BY DEF Level
<1>3. Level(chs, 0, {}) \in Attempts
  <2>1. 0 \in 0..Len(chs) /\ (0 = 0 \/ {} \in Attempts)
    BY <1>1
  <2> QED
    BY <2>1, LevelIsAttempts
<1>4. \A n \in 1..N, rest \in Attempts : Level(chs, n, rest) \in Attempts
  BY LevelIsAttempts
<1>5. g \in [1..N -> [Attempts -> Attempts]]
  BY <1>4
<1>6. PICK f : Recursion(f, N, Level(chs, 0, {}), g) /\ \A n \in 0..N : f[n] \in Attempts
  <2> HIDE DEF g, N
  <2> QED
    BY <1>1, <1>3, <1>5, RecursionExists
<1>7. ASSUME NEW n \in 0..N
      PROVE  f[n] = Level(chs, n, f[n - 1])
  <2>1. CASE n = 0
    BY <1>2, <1>6, <2>1 DEF Recursion
  <2>2. CASE n \in 1..N
    <3>1. n - 1 \in 0..N
      BY <2>2
    <3>2. f[n] = g[n][f[n - 1]]
      <4> HIDE DEF g, N
      <4> QED
        BY <1>6, <2>2 DEF Recursion
    <3>3. f[n - 1] \in Attempts
      BY <1>6, <3>1
    <3> QED
      BY <2>2, <3>2, <3>3
  <2> QED
    BY <2>1, <2>2
<1>8. f = [n \in 0..N |-> Level(chs, n, f[n - 1])]
  <2>1. f = [n \in 0..N |-> f[n]]
    BY <1>6 DEF Recursion
  <2> QED
    BY <1>7, <2>1
<1>9. Tries(chs) = [n \in 0..N |-> Level(chs, n, Tries(chs)[n - 1])]
  BY <1>8 DEF Tries
<1>10. \A n \in 0..N : Tries(chs)[n] = Level(chs, n, Tries(chs)[n - 1])
  <2> HIDE DEF N
  <2> QED
    BY <1>9
<1>11. Tries(chs)[0] = Level(chs, 0, {})
  BY <1>1, <1>2, <1>10
<1>12. \A n \in 0..N : Tries(chs)[n] \in Attempts
  <2> DEFINE S == {n \in Nat : n <= N => Tries(chs)[n] \in Attempts}
  <2>1. 0 \in S
    BY <1>3, <1>11
  <2>2. ASSUME NEW n \in S
        PROVE  n + 1 \in S
    <3> SUFFICES ASSUME n + 1 <= N
                 PROVE  Tries(chs)[n + 1] \in Attempts
      OBVIOUS
    <3>1. n + 1 \in 1..N /\ n + 1 \in 0..N /\ (n + 1) - 1 = n /\ Tries(chs)[n] \in Attempts
      BY <1>1
    <3>2. Tries(chs)[n + 1] = Level(chs, n + 1, Tries(chs)[n])
      BY <1>10, <3>1
    <3> QED
      BY <1>4, <3>1, <3>2
  <2>3. S = Nat
    <3> HIDE DEF S
    <3>1. S \in SUBSET Nat
      BY DEF S
    <3> QED
      BY <2>1, <2>2, <3>1, NatSetInduction
  <2> QED
    BY <2>3
<1> QED
  BY <1>10, <1>11, <1>12

-----------------------------------------------------------------------------
(* What the vector holds                                                   *)

\* Contributions their channels can make.
Fitting(chs) ==
    {p \in [channel : Int, msat : Int] :
        p.channel \in DOMAIN chs /\ p.msat \in chs[p.channel].min .. chs[p.channel].spendable}

KeepsFitting(chs, rest) ==
    \A t \in Nat, acc \in Seq(Fitting(chs)) : rest[t][acc].acc \in Seq(Fitting(chs))

\* An allocation that is found for an amount is not empty.
FindsSome(rest) ==
    \A t \in Nat \ {0}, acc \in Vector :
        rest[t][acc].result = Success => rest[t][acc].acc # <<>>

LEMMA FittingIsVector ==
    ASSUME NEW chs, NEW acc \in Seq(Fitting(chs))
    PROVE  acc \in Vector
<1> DEFINE P == [channel : Int, msat : Int]
<1>1. Fitting(chs) \subseteq P
  BY DEF Fitting
<1> HIDE DEF P
<1>2. acc \in Seq(P)
  BY <1>1, SeqMonotonic
<1> QED
  BY <1>2 DEF Vector, P

LEMMA FittingGrows ==
    ASSUME NEW chs, NEW acc \in Seq(Fitting(chs)), NEW i \in Int, i \in DOMAIN chs,
           NEW n \in Int, n \in chs[i].min .. chs[i].spendable
    PROVE  Append(acc, Part(i, n)) \in Seq(Fitting(chs))
<1>1. Part(i, n) \in Fitting(chs)
  BY DEF Part, Fitting
<1> QED
  BY <1>1, AppendProperties

LEMMA FittingIsKept ==
    ASSUME NEW chs, NEW i, NEW rest, NEW t, NEW acc, Search(chs, i, rest, t, acc),
           acc \in Seq(Fitting(chs)), KeepsFitting(chs, rest)
    PROVE  UseOrSkip(chs, i, rest, t, acc).acc \in Seq(Fitting(chs))
<1> DEFINE F == Fitting(chs)
<1>1. chs[i] \in Channel /\ chs[i].min \in Nat /\ chs[i].spendable \in Nat /\ t \in Nat
      /\ i \in Int /\ i \in DOMAIN chs
  BY ChannelBounds DEF Search
<1>2. PICK out : out = UseOrSkip(chs, i, rest, t, acc)
  OBVIOUS
<1>3. rest[t][acc].acc \in Seq(F)
  BY <1>1 DEF KeepsFitting
<1>4. CASE Skips(chs, i, rest, t, acc, out)
  BY <1>2, <1>3, <1>4 DEF Skips
<1>5. ASSUME NEW upper, NEW full, Takes(chs, i, rest, t, acc, upper, full)
      PROVE  full.acc \in Seq(F) /\ Front(full.acc) \in Seq(F)
  <2>1. t - upper \in Nat /\ upper \in Int /\ upper \in chs[i].min .. chs[i].spendable
    BY <1>1, <1>5 DEF Takes
  <2>2. PICK a \in Seq(F) : a = Append(acc, Part(i, upper))
    BY <1>1, <2>1, FittingGrows
  <2>3. rest[t - upper][a].acc \in Seq(F)
    BY <2>1, <2>2 DEF KeepsFitting
  <2>4. full.acc \in Seq(F)
    BY <1>5, <2>2, <2>3 DEF Takes
  <2> HIDE DEF F
  <2> QED
    BY <2>4, PoppedOf
<1>6. ASSUME NEW upper, NEW full, Takes(chs, i, rest, t, acc, upper, full),
             NEW short, NEW adjusted, Adjusts(chs, i, rest, t, upper, full, short, adjusted),
             Retries(rest, t, adjusted, out)
      PROVE  out.acc \in Seq(F)
  <2>1. /\ upper - short \in Int /\ t - (upper - short) \in Nat
        /\ upper - short \in chs[i].min .. chs[i].spendable
    <3>1. upper \in Nat /\ upper <= t /\ upper <= chs[i].spendable
      BY <1>1, <1>6 DEF Takes
    <3>2. short \in Nat \ {0} /\ short <= upper - chs[i].min
      BY <1>6 DEF Adjusts
    <3> QED
      BY <1>1, <3>1, <3>2
  <2>2. Front(full.acc) \in Seq(F)
    BY <1>5, <1>6
  <2>3. PICK a \in Seq(F) : a = Append(Front(full.acc), Part(i, upper - short))
    BY <1>1, <2>1, <2>2, FittingGrows
  <2>4. rest[t - (upper - short)][a].acc \in Seq(F)
    BY <2>1, <2>3 DEF KeepsFitting
  <2>5. adjusted.acc \in Seq(F)
    BY <1>6, <2>3, <2>4 DEF Adjusts
  <2>6. Front(adjusted.acc) \in Seq(F)
    <3> HIDE DEF F
    <3> QED
      BY <2>5, PoppedOf
  <2>7. rest[t][Front(adjusted.acc)].acc \in Seq(F)
    BY <1>1, <2>6 DEF KeepsFitting
  <2> QED
    BY <1>6, <2>5, <2>7 DEF Retries
<1>7. ASSUME NEW upper, NEW full, Takes(chs, i, rest, t, acc, upper, full),
             NEW short, AsksMore(chs, i, upper, full, short, out)
      PROVE  out.acc \in Seq(F)
  <2>1. Front(full.acc) \in Seq(F)
    BY <1>5, <1>7
  <2> HIDE DEF F
  <2> QED
    BY <1>7, <2>1 DEF AsksMore
<1>8. ASSUME NEW upper, NEW full, Takes(chs, i, rest, t, acc, upper, full), out = full
      PROVE  out.acc \in Seq(F)
  BY <1>5, <1>8
<1> HIDE DEF F
<1>9. ASSUME ~Skips(chs, i, rest, t, acc, out)
      PROVE  out.acc \in Seq(F)
  <2>1. PICK upper, full :
           /\ Takes(chs, i, rest, t, acc, upper, full)
           /\ \/ full.result \in {Success, Impossible} /\ out = full
              \/ \E short : AsksMore(chs, i, upper, full, short, out)
              \/ \E short, adjusted :
                    /\ Adjusts(chs, i, rest, t, upper, full, short, adjusted)
                    /\ Retries(rest, t, adjusted, out)
    BY <1>2, <1>9, SearchCases
  <2>2. CASE out = full
    BY <1>8, <2>1, <2>2
  <2>3. CASE \E short : AsksMore(chs, i, upper, full, short, out)
    BY <1>7, <2>1, <2>3
  <2>4. CASE \E short, adjusted : /\ Adjusts(chs, i, rest, t, upper, full, short, adjusted)
                                  /\ Retries(rest, t, adjusted, out)
    BY <1>6, <2>1, <2>4
  <2> QED
    BY <2>1, <2>2, <2>3, <2>4
<1> QED
  BY <1>2, <1>4, <1>9 DEF F

LEMMA SomeIsFound ==
    ASSUME NEW chs, NEW i, NEW rest, NEW t, NEW acc, Search(chs, i, rest, t, acc),
           FindsSome(rest), \A a \in Vector : rest[0][a] = [result |-> Success, acc |-> a],
           UseOrSkip(chs, i, rest, t, acc).result = Success
    PROVE  UseOrSkip(chs, i, rest, t, acc).acc # <<>>
<1>1. chs[i] \in Channel /\ chs[i].min \in Nat /\ t \in Nat \ {0} /\ acc \in Vector /\ i \in Int
  BY ChannelBounds DEF Search
<1>2. PICK out : out = UseOrSkip(chs, i, rest, t, acc)
  OBVIOUS
<1>3. \A r, a : [result |-> r, acc |-> a].result = r /\ [result |-> r, acc |-> a].acc = a
  OBVIOUS
<1>4. CASE Skips(chs, i, rest, t, acc, out)
  <2>1. chs[i].min - t \in Nat \ {0}
    BY <1>1, <1>4 DEF Skips
  <2>2. NeedSpace(chs[i].min - t) # Success
    BY <2>1, ResultCases
  <2>3. out = rest[t][acc] /\ rest[t][acc].result = Success
    BY <1>2, <1>3, <1>4, <2>2 DEF Skips
  <2> QED
    BY <1>1, <1>2, <2>3 DEF FindsSome
<1>5. ASSUME NEW upper, NEW full, Takes(chs, i, rest, t, acc, upper, full), out = full
      PROVE  out.acc # <<>>
  <2>1. t - upper \in Nat /\ upper \in Int
    BY <1>1, <1>5 DEF Takes
  <2>2. Append(acc, Part(i, upper)) \in Vector /\ Append(acc, Part(i, upper)) # <<>>
    <3>1. acc \in Vector /\ i \in Int /\ upper \in Int
      BY <1>1, <2>1
    <3> HIDE DEF Search
    <3>2. Append(acc, Part(i, upper)) \in Vector
      BY <3>1, Pushed
    <3>3. Append(acc, Part(i, upper)) # <<>>
      BY <3>1, PushedSome
    <3> QED
      BY <3>2, <3>3
  <2>3. CASE t - upper = 0
    <3>1. full = rest[0][Append(acc, Part(i, upper))]
      BY <1>5, <2>3 DEF Takes
    <3>2. full = [result |-> Success, acc |-> Append(acc, Part(i, upper))]
      BY <2>2, <3>1
    <3>3. full.acc = Append(acc, Part(i, upper))
      BY <3>2
    <3> QED
      BY <1>5, <2>2, <3>3
  <2>4. CASE t - upper # 0
    BY <1>2, <1>5, <2>1, <2>2, <2>4 DEF Takes, FindsSome
  <2> QED
    BY <2>3, <2>4
<1>6. ASSUME NEW upper, NEW full, Takes(chs, i, rest, t, acc, upper, full),
             NEW short, AsksMore(chs, i, upper, full, short, out)
      PROVE  FALSE
  <2>1. short - (upper - chs[i].min) \in Nat \ {0}
    BY <1>1, <1>6 DEF Takes, AsksMore
  <2>2. NeedSpace(short - (upper - chs[i].min)) # Success
    BY <2>1, ResultCases
  <2> QED
    BY <1>2, <1>3, <1>6, <2>2 DEF AsksMore
<1>7. ASSUME NEW upper, NEW full, Takes(chs, i, rest, t, acc, upper, full),
             NEW short, NEW adjusted, Adjusts(chs, i, rest, t, upper, full, short, adjusted),
             Retries(rest, t, adjusted, out)
      PROVE  out.acc # <<>>
  <2>1. /\ upper - short \in Int /\ t - (upper - short) \in Nat \ {0}
        /\ Front(full.acc) \in Vector
    <3>1. upper \in Nat /\ short \in Nat \ {0} /\ upper <= t /\ Front(full.acc) \in Vector
      BY <1>7 DEF Takes, Adjusts
    <3> QED
      BY <1>1, <3>1
  <2>2. Append(Front(full.acc), Part(i, upper - short)) \in Vector
    BY <1>1, <2>1, Pushed
  <2>3. CASE adjusted.result = Success
    BY <1>7, <2>1, <2>2, <2>3 DEF Adjusts, FindsSome, Retries
  <2>4. CASE adjusted.result # Success
    <3>1. adjusted.acc \in Vector
      BY <1>7 DEF Adjusts, Outcome
    <3>2. Front(adjusted.acc) \in Vector
      BY <3>1, PoppedOf DEF Vector
    <3>3. out = rest[t][Front(adjusted.acc)]
      BY <1>7, <2>4 DEF Retries
    <3> QED
      BY <1>1, <1>2, <3>2, <3>3 DEF FindsSome
  <2> QED
    BY <2>3, <2>4
<1> QED
  BY <1>2, <1>4, <1>5, <1>6, <1>7, SearchCases

\* What holds on no channels, and on one more if on those behind it, holds of
\* the whole search: good has the attempts it holds of, level by level.
LEMMA LevelByLevel ==
    ASSUME NEW chs \in Seq(Channel), NEW good,
           Level(chs, 0, {}) \in good[0],
           \A n \in 1..Len(chs) : \A rest \in good[n - 1] :
               rest \in Attempts => Level(chs, n, rest) \in good[n]
    PROVE  TryAllocate(chs) \in good[Len(chs)] /\ TryAllocate(chs) \in Attempts
<1> DEFINE N == Len(chs)
           S == {n \in Nat : n <= N => Tries(chs)[n] \in good[n]}
<1>1. N \in Nat
  OBVIOUS
<1>2. 0 \in S
  BY TriesAre
<1>3. ASSUME NEW n \in S
      PROVE  n + 1 \in S
  <2> SUFFICES ASSUME n + 1 <= N
               PROVE  Tries(chs)[n + 1] \in good[n + 1]
    OBVIOUS
  <2>1. n + 1 \in 1..N /\ n \in 0..N /\ (n + 1) - 1 = n /\ Tries(chs)[n] \in good[n]
    BY <1>1
  <2>2. Tries(chs)[n] \in Attempts /\ Tries(chs)[n + 1] = Level(chs, n + 1, Tries(chs)[n])
    BY <2>1, TriesAre
  <2> QED
    BY <2>1, <2>2
<1>4. S = Nat
  <2> HIDE DEF S
  <2>1. S \in SUBSET Nat
    BY DEF S
  <2> QED
    BY <1>2, <1>3, <2>1, NatSetInduction
<1>5. N \in S
  <2> HIDE DEF S
  <2> QED
    BY <1>1, <1>4
<1> QED
  BY <1>1, <1>5, TryAllocateIs, TriesAre

LEMMA SearchKeeps ==
    ASSUME NEW chs \in Seq(Channel)
    PROVE  /\ TryAllocate(chs) \in Attempts
           /\ KeepsFitting(chs, TryAllocate(chs))
           /\ FindsSome(TryAllocate(chs))
<1> DEFINE Good(rest) == /\ KeepsFitting(chs, rest) /\ FindsSome(rest)
                         /\ \A a \in Vector : rest[0][a] = [result |-> Success, acc |-> a]
           good == [n \in 0..Len(chs) |-> {rest \in Attempts : Good(rest)}]
<1>1. ASSUME NEW n \in 0..Len(chs), NEW rest, n # 0 => rest \in Attempts /\ Good(rest)
      PROVE  Level(chs, n, rest) \in {r \in Attempts : Good(r)}
  <2> DEFINE level == Level(chs, n, rest)
  <2>1. /\ level \in Attempts
        /\ \A acc \in Vector :
                /\ level[0][acc] = [result |-> Success, acc |-> acc]
                /\ \A t \in Nat \ {0} :
                     level[t][acc] = IF n = 0 THEN [result |-> Impossible, acc |-> acc]
                                     ELSE UseOrSkip(chs, Len(chs) + 1 - n, rest, t, acc)
        /\ n # 0 => \A acc \in Vector, t \in Nat \ {0} :
                         Search(chs, Len(chs) + 1 - n, rest, t, acc)
    BY <1>1, LevelIsAttempts
  <2> HIDE DEF level
  <2>2. ASSUME NEW t \in Nat, NEW acc \in Seq(Fitting(chs))
        PROVE  level[t][acc].acc \in Seq(Fitting(chs))
    <3>1. acc \in Vector
      BY FittingIsVector
    <3>2. CASE t = 0 \/ n = 0
      <4>1. level[t][acc] \in {[result |-> Success, acc |-> acc], [result |-> Impossible, acc |-> acc]}
        BY <2>1, <3>1, <3>2
      <4> QED
        BY <4>1
    <3>3. CASE t # 0 /\ n # 0
      <4>1. /\ Search(chs, Len(chs) + 1 - n, rest, t, acc)
            /\ level[t][acc] = UseOrSkip(chs, Len(chs) + 1 - n, rest, t, acc)
        BY <2>1, <3>1, <3>3
      <4> QED
        BY <1>1, <3>3, <4>1, FittingIsKept
    <3> QED
      BY <3>2, <3>3
  <2>3. ASSUME NEW t \in Nat \ {0}, NEW acc \in Vector, level[t][acc].result = Success
        PROVE  level[t][acc].acc # <<>>
    <3>1. n # 0
      <4>1. n = 0 => level[t][acc] = [result |-> Impossible, acc |-> acc]
        BY <2>1
      <4>2. [result |-> Impossible, acc |-> acc].result # Success
        BY ResultCases
      <4> QED
        BY <2>3, <4>1, <4>2
    <3>2. /\ Search(chs, Len(chs) + 1 - n, rest, t, acc)
          /\ level[t][acc] = UseOrSkip(chs, Len(chs) + 1 - n, rest, t, acc)
      BY <2>1, <3>1
    <3> QED
      BY <1>1, <2>3, <3>1, <3>2, SomeIsFound
  <2>4. KeepsFitting(chs, level)
    BY <2>2 DEF KeepsFitting
  <2>5. FindsSome(level)
    BY <2>3 DEF FindsSome
  <2> QED
    BY <2>1, <2>4, <2>5 DEF level
<1>2. Len(chs) \in Nat /\ 0 \in 0..Len(chs)
  OBVIOUS
<1>3. Level(chs, 0, {}) \in good[0]
  BY <1>1, <1>2
<1>4. \A n \in 1..Len(chs) : \A rest \in good[n - 1] :
         rest \in Attempts => Level(chs, n, rest) \in good[n]
  <2> SUFFICES ASSUME NEW n \in 1..Len(chs), NEW rest \in good[n - 1]
               PROVE  Level(chs, n, rest) \in good[n]
    OBVIOUS
  <2>1. n - 1 \in 0..Len(chs) /\ n \in 0..Len(chs)
    BY <1>2
  <2>2. rest \in Attempts /\ Good(rest)
    BY <2>1
  <2> HIDE DEF Good
  <2> QED
    BY <1>1, <2>1, <2>2
<1>5. TryAllocate(chs) \in good[Len(chs)]
  <2> HIDE DEF good
  <2> QED
    BY <1>3, <1>4, LevelByLevel
<1> QED
  BY <1>2, <1>5

-----------------------------------------------------------------------------
(* What is found                                                           *)

LEMMA SkippingFinds ==
    ASSUME NEW chs, NEW i, NEW rest, NEW t, NEW acc, Search(chs, i, rest, t, acc),
           t < chs[i].min, rest[t][acc].result = Success
    PROVE  UseOrSkip(chs, i, rest, t, acc) = rest[t][acc]
<1>1. chs[i] \in Channel /\ chs[i].min \in Nat /\ t \in Nat
  BY ChannelBounds DEF Search
<1> QED
  BY <1>1, SearchCases DEF Skips, Takes

LEMMA TakingFinds ==
    ASSUME NEW chs, NEW i, NEW rest, NEW t, NEW acc, Search(chs, i, rest, t, acc),
           NEW upper, NEW full, Takes(chs, i, rest, t, acc, upper, full),
           full.result = Success
    PROVE  UseOrSkip(chs, i, rest, t, acc) = full
<1>1. chs[i] \in Channel /\ chs[i].min \in Nat /\ t \in Nat
  BY ChannelBounds DEF Search
<1>2. \A n \in Nat \ {0} : NeedSpace(n) # Success
  BY ResultCases
<1>3. ASSUME NEW u, NEW f, Takes(chs, i, rest, t, acc, u, f)
      PROVE  u = upper /\ f = full
  BY <1>3 DEF Takes
<1>4. ~(t < chs[i].min)
  BY <1>1 DEF Takes
<1> QED
  BY <1>2, <1>3, <1>4, SearchCases DEF Skips, AsksMore, Adjusts

\* What the last n channels can spend.
Funds(chs) == [i \in DOMAIN chs |-> chs[i].spendable]
Behind(chs, n) == Sums(Funds(chs))[Len(chs)] - Sums(Funds(chs))[Len(chs) - n]

LEMMA BehindIs ==
    ASSUME NEW chs \in Seq(Channel)
    PROVE  /\ Behind(chs, 0) = 0
           /\ Behind(chs, Len(chs)) = SumOf(Funds(chs))
           /\ \A n \in 1..Len(chs) :
                Behind(chs, n) = Behind(chs, n - 1) + chs[Len(chs) + 1 - n].spendable
           /\ \A n \in 0..Len(chs) : Behind(chs, n) \in Int
<1> DEFINE f == Funds(chs)
           N == Len(chs)
<1>1. N \in Nat /\ DOMAIN chs = 1..N /\ \A i \in 1..N : chs[i].spendable \in Nat
  BY ChannelBounds
<1>2. f \in Seq(Int) /\ Len(f) = N /\ \A i \in 1..N : f[i] = chs[i].spendable
  BY <1>1 DEF Funds
<1>3. /\ Sums(f)[0] = 0
      /\ \A n \in 1..N : Sums(f)[n] = Sums(f)[n - 1] + f[n]
      /\ \A n \in 0..N : Sums(f)[n] \in Int
  <2> HIDE DEF f
  <2> QED
    BY <1>2, SumsAre
<1> HIDE DEF f
<1>4. SumOf(f) = Sums(f)[N]
  BY <1>2, SumIs
<1>5. ASSUME NEW n \in 0..N
      PROVE  Behind(chs, n) = Sums(f)[N] - Sums(f)[N - n] /\ N - n \in 0..N
  BY <1>1 DEF Behind, f
<1>6. Behind(chs, 0) = 0 /\ Behind(chs, N) = SumOf(f)
  <2>1. 0 \in 0..N /\ N \in 0..N /\ N - 0 = N /\ N - N = 0
    BY <1>1
  <2> QED
    BY <1>3, <1>4, <1>5, <2>1
<1>7. ASSUME NEW n \in 1..N
      PROVE  Behind(chs, n) = Behind(chs, n - 1) + chs[N + 1 - n].spendable
  <2>1. n \in 0..N /\ n - 1 \in 0..N /\ N + 1 - n \in 1..N
        /\ (N + 1 - n) - 1 = N - n /\ N - (n - 1) = N + 1 - n
    BY <1>1
  <2>2. Sums(f)[N + 1 - n] = Sums(f)[N - n] + chs[N + 1 - n].spendable
    BY <1>2, <1>3, <2>1
  <2>3. Sums(f)[N + 1 - n] \in Int /\ Sums(f)[N - n] \in Int /\ Sums(f)[N] \in Int
        /\ chs[N + 1 - n].spendable \in Int
    BY <1>1, <1>3, <2>1
  <2>4. Behind(chs, n) = Sums(f)[N] - Sums(f)[N - n]
    BY <1>5, <2>1
  <2>5. Behind(chs, n - 1) = Sums(f)[N] - Sums(f)[N + 1 - n]
    BY <1>5, <2>1
  <2> QED
    BY <2>2, <2>3, <2>4, <2>5
<1>8. \A n \in 0..N : Behind(chs, n) \in Int
  BY <1>1, <1>3, <1>5
<1> QED
  BY <1>6, <1>7, <1>8 DEF f

\* Amounts the last n channels can carry: all they can spend, anything less if
\* there are no minima, and in descending order what one of them can carry.
Easy(chs, n) ==
    {t \in Nat : \/ t = Behind(chs, n)
                 \/ (\A i \in DOMAIN chs : chs[i].min = 0) /\ t <= Behind(chs, n)
                 \/ /\ \A i, j \in DOMAIN chs : i < j => chs[i].spendable >= chs[j].spendable
                    /\ \E j \in Len(chs) + 1 - n .. Len(chs) :
                          t \in chs[j].min .. chs[j].spendable}

FindsEasy(chs, n, rest) ==
    /\ Behind(chs, n) \in Nat
    /\ \A t \in Easy(chs, n), acc \in Vector : rest[t][acc].result = Success

\* What is easy stays easy behind the channel that takes what it can, or that
\* is skipped.
LEMMA EasyBehind ==
    ASSUME NEW chs \in Seq(Channel), NEW n \in 1..Len(chs), Behind(chs, n - 1) \in Nat,
           NEW c, c = chs[Len(chs) + 1 - n],
           NEW t \in Easy(chs, n), t # 0
    PROVE  IF t < c.min THEN t \in Easy(chs, n - 1)
           ELSE t - Lesser(c.spendable, t) \in Easy(chs, n - 1) \cup {0}
<1> DEFINE i == Len(chs) + 1 - n
           u == Lesser(c.spendable, t)
<1>1. i \in DOMAIN chs /\ c \in Channel /\ t \in Nat \ {0} /\ Len(chs) \in Nat
  BY DEF Easy
<1>2. c.spendable \in Nat \ {0} /\ c.min \in Nat /\ c.min < c.spendable
  BY <1>1, ChannelBounds
<1>3. Behind(chs, n) = Behind(chs, n - 1) + c.spendable
  BY BehindIs
<1>4. u = IF c.spendable < t THEN c.spendable ELSE t
  BY DEF Lesser
<1>5. CASE t = Behind(chs, n)
  <2>1. c.spendable <= t /\ ~(t < c.min)
    BY <1>1, <1>2, <1>3, <1>5
  <2>2. u = c.spendable /\ t - u = Behind(chs, n - 1)
    BY <1>1, <1>2, <1>3, <1>4, <1>5, <2>1
  <2>3. t - u \in Easy(chs, n - 1)
    BY <2>2 DEF Easy
  <2> QED
    BY <2>1, <2>3
<1>6. CASE (\A k \in DOMAIN chs : chs[k].min = 0) /\ t <= Behind(chs, n)
  <2>1. c.min = 0 /\ ~(t < c.min)
    BY <1>1, <1>6
  <2>2. t - u \in Nat /\ (t - u = 0 \/ t - u <= Behind(chs, n - 1))
    BY <1>1, <1>2, <1>3, <1>4, <1>6
  <2>3. t - u = 0 \/ t - u \in Easy(chs, n - 1)
    BY <1>6, <2>2 DEF Easy
  <2> QED
    BY <2>1, <2>3
<1>7. CASE /\ \A k, j \in DOMAIN chs : k < j => chs[k].spendable >= chs[j].spendable
           /\ \E j \in Len(chs) + 1 - n .. Len(chs) : t \in chs[j].min .. chs[j].spendable
  <2>1. PICK j \in i .. Len(chs) : t \in chs[j].min .. chs[j].spendable
    BY <1>7
  <2>2. j \in DOMAIN chs /\ chs[j] \in Channel /\ j \in Nat
    BY <1>1, <2>1
  <2>3. chs[j].spendable \in Nat /\ chs[j].min \in Nat
    BY <2>2, ChannelBounds
  <2>4. CASE t < c.min
    <3>1. j # i
      BY <1>1, <1>2, <2>1, <2>3, <2>4
    <3>2. j \in Len(chs) + 1 - (n - 1) .. Len(chs)
      BY <1>1, <2>1, <2>2, <3>1
    <3>3. t \in Easy(chs, n - 1)
      BY <1>1, <1>7, <2>1, <3>2 DEF Easy
    <3> QED
      BY <2>4, <3>3
  <2>5. CASE ~(t < c.min)
    <3>1. c.spendable >= chs[j].spendable
      <4>1. i < j \/ i = j
        BY <1>1, <2>1, <2>2
      <4> QED
        BY <1>1, <1>2, <1>7, <2>2, <4>1
    <3>2. t <= c.spendable
      BY <1>1, <1>2, <2>1, <2>3, <3>1
    <3>3. u = t
      BY <1>1, <1>2, <1>4, <3>2
    <3> QED
      BY <1>1, <2>5, <3>3
  <2> QED
    BY <2>4, <2>5
<1> QED
  BY <1>5, <1>6, <1>7 DEF Easy

LEMMA LevelFindsEasy ==
    ASSUME NEW chs \in Seq(Channel), NEW n \in 1..Len(chs), NEW rest \in Attempts,
           FindsEasy(chs, n - 1, rest),
           \A a \in Vector : rest[0][a] = [result |-> Success, acc |-> a]
    PROVE  FindsEasy(chs, n, Level(chs, n, rest))
<1> DEFINE i == Len(chs) + 1 - n
           level == Level(chs, n, rest)
<1>1. chs[i] \in Channel /\ i \in DOMAIN chs
  OBVIOUS
<1>2. chs[i].spendable \in Nat /\ chs[i].min \in Nat
  BY <1>1, ChannelBounds
<1>3. /\ \A acc \in Vector :
            /\ level[0][acc] = [result |-> Success, acc |-> acc]
            /\ \A t \in Nat \ {0} :
                 /\ Search(chs, i, rest, t, acc)
                 /\ level[t][acc] = UseOrSkip(chs, i, rest, t, acc)
  BY LevelSearches
<1> HIDE DEF level
<1>4. Behind(chs, n) \in Nat
  <2>1. Behind(chs, n) = Behind(chs, n - 1) + chs[i].spendable /\ Behind(chs, n - 1) \in Nat
    BY BehindIs DEF FindsEasy
  <2> QED
    BY <1>2, <2>1
<1>5. ASSUME NEW t \in Easy(chs, n), NEW acc \in Vector
      PROVE  level[t][acc].result = Success
  <2>1. n \in 0..Len(chs) /\ n # 0 /\ t \in Nat
    BY DEF Easy
  <2>2. CASE t = 0
    <3>1. level[0][acc] = [result |-> Success, acc |-> acc]
      BY <1>3
    <3> QED
      BY <2>2, <3>1
  <2>3. CASE t # 0
    <3>1. /\ level[t][acc] = UseOrSkip(chs, i, rest, t, acc)
          /\ Search(chs, i, rest, t, acc)
      BY <1>3, <2>1, <2>3
    <3>2. PICK c \in Channel : c = chs[i]
      BY <1>1
    <3>3. IF t < c.min THEN t \in Easy(chs, n - 1)
          ELSE t - Lesser(c.spendable, t) \in Easy(chs, n - 1) \cup {0}
      BY <2>3, <3>2, EasyBehind DEF FindsEasy
    <3>4. CASE t < c.min
      <4>1. rest[t][acc].result = Success
        BY <3>3, <3>4 DEF FindsEasy
      <4> QED
        BY <3>1, <3>2, <3>4, <4>1, SkippingFinds
    <3>5. CASE ~(t < c.min)
      <4>1. chs[i].min <= t
        BY <1>2, <2>1, <3>2, <3>5
      <4>2. PICK upper, full : Takes(chs, i, rest, t, acc, upper, full)
        BY <3>1, <4>1, TakesWhatItCan
      <4>3. t - upper \in Easy(chs, n - 1) \cup {0}
        BY <3>2, <3>3, <3>5, <4>2 DEF Takes
      <4>4. upper \in Int /\ i \in Int
        BY <4>2 DEF Takes
      <4>5. Append(acc, Part(i, upper)) \in Vector
        BY <4>4, Pushed
      <4>6. rest[t - upper][Append(acc, Part(i, upper))].result = Success
        <5>1. CASE t - upper = 0
          <6>1. rest[0][Append(acc, Part(i, upper))]
                    = [result |-> Success, acc |-> Append(acc, Part(i, upper))]
            BY <4>5
          <6> QED
            BY <5>1, <6>1
        <5>2. CASE t - upper \in Easy(chs, n - 1)
          BY <4>5, <5>2 DEF FindsEasy
        <5> QED
          BY <4>3, <5>1, <5>2
      <4>7. full.result = Success
        BY <4>2, <4>6 DEF Takes
      <4> QED
        BY <3>1, <4>2, <4>7, TakingFinds
    <3> QED
      BY <3>4, <3>5
  <2> QED
    BY <2>2, <2>3
<1> QED
  BY <1>4, <1>5 DEF FindsEasy, level

-----------------------------------------------------------------------------
(* The search that leaves nothing behind                                   *)

FindsNothing(rest) == \A acc \in Vector : rest[0][acc] = [result |-> Success, acc |-> acc]

\* The result does not depend on what is in the vector.
SameResult(rest) ==
    \A t \in Nat, acc \in Vector : rest[t][acc].result = rest[t][<<>>].result

\* What more is asked for is enough, and less than that brings it closer.
Converges(rest) ==
    \A t \in Nat, s \in Nat \ {0} : rest[t][<<>>].result = NeedSpace(s) =>
        \A d \in 0..s : LET r == rest[t + d][<<>>].result
                        IN  r = Success \/ (d < s /\ r = NeedSpace(s - d))

\* Nothing is left in the vector when more is asked for.
LeavesNothing(rest) ==
    \A t \in Nat, acc \in Vector :
        rest[t][acc].result.kind = "need" => rest[t][acc].acc = acc

Clean(rest) ==
    FindsNothing(rest) /\ SameResult(rest) /\ Converges(rest) /\ LeavesNothing(rest)

\* The ways a clean search goes on: it skips the channel, in vain or not; all
\* behind it is impossible; it asks for more; or it gives some, and succeeds.
SkipsWell(chs, i, rest, t, acc, out) ==
    t < chs[i].min /\ out = rest[t][acc] /\ out.result = Success

SkipsInVain(chs, i, rest, t, acc, out) ==
    /\ t < chs[i].min /\ rest[t][acc].result # Success
    /\ out = [result |-> NeedSpace(chs[i].min - t), acc |-> rest[t][acc].acc]

FindsImpossible(chs, i, rest, t, acc, out) ==
    \E upper : Takes(chs, i, rest, t, acc, upper, out) /\ out.result = Impossible

Asks(chs, i, rest, t, acc, out) ==
    \E upper, full, short :
        /\ Takes(chs, i, rest, t, acc, upper, full)
        /\ AsksMore(chs, i, upper, full, short, out)
        /\ out.acc = acc

CanGive(chs, i, rest, t) ==
    LET r == rest[t - chs[i].spendable][<<>>].result
    IN  r = Success \/ \E s \in 1 .. chs[i].spendable - chs[i].min : r = NeedSpace(s)

Gives(chs, i, rest, t, acc, out) ==
    /\ chs[i].min <= t
    /\ \E n \in Nat : /\ n <= t
                      /\ out = rest[t - n][Append(acc, Part(i, n))]
    /\ out.result = Success
    /\ t > chs[i].spendable => CanGive(chs, i, rest, t)

LEMMA NilIsVector == <<>> \in Vector
BY DEF Vector

\* What is given back for the channels behind is what they need.
LEMMA AdjustingFinds ==
    ASSUME NEW chs, NEW i, NEW rest, NEW t, NEW acc, Search(chs, i, rest, t, acc), Clean(rest),
           NEW upper, NEW full, Takes(chs, i, rest, t, acc, upper, full),
           NEW short, NEW adjusted, Adjusts(chs, i, rest, t, upper, full, short, adjusted)
    PROVE  adjusted.result = Success /\ Gives(chs, i, rest, t, acc, adjusted)
<1>1. /\ chs[i].min \in Nat /\ t \in Nat /\ upper \in Nat /\ upper <= t
      /\ short \in Nat \ {0} /\ short <= upper - chs[i].min /\ chs[i].min <= t
      /\ acc \in Vector /\ i \in Int
  <2>1. chs[i] \in Channel /\ t \in Nat /\ acc \in Vector /\ i \in Int
    BY DEF Search
  <2>2. upper \in Nat /\ upper <= t /\ chs[i].min <= t
    BY DEF Takes
  <2>3. short \in Nat \ {0} /\ short <= upper - chs[i].min
    BY DEF Adjusts
  <2> QED
    BY <2>1, <2>2, <2>3, ChannelBounds
<1>2. /\ t - upper \in Nat /\ upper - short \in Nat /\ t - (upper - short) \in Nat
      /\ (t - upper) + short = t - (upper - short) /\ upper - short <= t
  BY <1>1
<1>3. PICK a \in Vector : a = Append(acc, Part(i, upper)) /\ Front(a) = acc
  <2>1. acc \in Vector /\ i \in Int /\ upper \in Int
    BY <1>1
  <2> QED
    BY <2>1, Pushed
<1>4. full = rest[t - upper][a] /\ full.result = NeedSpace(short)
  BY <1>3 DEF Takes, Adjusts
<1>5. full.acc = a
  <2>1. full.result.kind = "need"
    BY <1>1, <1>4, ResultCases
  <2> QED
    BY <1>2, <1>4, <2>1 DEF Clean, LeavesNothing
<1>6. PICK b \in Vector : b = Append(acc, Part(i, upper - short))
  <2>1. acc \in Vector /\ i \in Int /\ upper - short \in Int
    BY <1>1, <1>2
  <2> QED
    BY <2>1, Pushed
<1>7. adjusted = rest[t - (upper - short)][b]
  BY <1>3, <1>5, <1>6 DEF Adjusts
<1>8. rest[t - upper][<<>>].result = NeedSpace(short)
  BY <1>2, <1>4 DEF Clean, SameResult
<1>9. rest[t - (upper - short)][<<>>].result = Success
  <2>1. short \in 0..short /\ ~(short < short)
    BY <1>1
  <2>2. rest[(t - upper) + short][<<>>].result = Success
    BY <1>1, <1>2, <1>8, <2>1 DEF Clean, Converges
  <2> QED
    BY <1>2, <2>2
<1>10. adjusted.result = Success
  BY <1>2, <1>7, <1>9 DEF Clean, SameResult
<1>11. t > chs[i].spendable => CanGive(chs, i, rest, t)
  <2>1. t > chs[i].spendable => upper = chs[i].spendable
    BY DEF Takes, Lesser
  <2>2. upper = chs[i].spendable => short \in 1 .. chs[i].spendable - chs[i].min
    BY <1>1
  <2> QED
    BY <1>8, <2>1, <2>2 DEF CanGive
<1> QED
  BY <1>1, <1>2, <1>6, <1>7, <1>10, <1>11 DEF Gives

LEMMA CleanSearch ==
    ASSUME NEW chs, NEW i, NEW rest, NEW t, NEW acc, Search(chs, i, rest, t, acc), Clean(rest),
           NEW out, out = UseOrSkip(chs, i, rest, t, acc)
    PROVE  \/ SkipsWell(chs, i, rest, t, acc, out)
           \/ SkipsInVain(chs, i, rest, t, acc, out)
           \/ FindsImpossible(chs, i, rest, t, acc, out)
           \/ Asks(chs, i, rest, t, acc, out)
           \/ Gives(chs, i, rest, t, acc, out)
<1>1. CASE Skips(chs, i, rest, t, acc, out)
  BY <1>1 DEF Skips, SkipsWell, SkipsInVain
<1>2. ASSUME NEW upper, NEW full, Takes(chs, i, rest, t, acc, upper, full), out = full,
             full.result \in {Success, Impossible}
      PROVE  Gives(chs, i, rest, t, acc, out) \/ FindsImpossible(chs, i, rest, t, acc, out)
  <2>1. CASE full.result = Impossible
    BY <1>2, <2>1 DEF FindsImpossible
  <2>2. CASE full.result = Success
    <3>1. upper \in Nat /\ upper <= t /\ chs[i].min <= t
      BY <1>2 DEF Takes
    <3>2. out = rest[t - upper][Append(acc, Part(i, upper))] /\ out.result = Success
      BY <1>2, <2>2 DEF Takes
    <3>3. t > chs[i].spendable => CanGive(chs, i, rest, t)
      <4> SUFFICES ASSUME t > chs[i].spendable
                   PROVE  CanGive(chs, i, rest, t)
        OBVIOUS
      <4>1. upper = chs[i].spendable /\ t - upper \in Nat
        <5>1. chs[i] \in Channel /\ t \in Nat
          BY DEF Search
        <5>2. chs[i].spendable \in Nat
          BY <5>1, ChannelBounds
        <5> QED
          BY <1>2, <3>1, <5>1, <5>2 DEF Takes
      <4>2. acc \in Vector /\ i \in Int /\ upper \in Int
        BY <3>1 DEF Search
      <4>3. Append(acc, Part(i, upper)) \in Vector
        BY <4>2, Pushed
      <4>4. rest[t - upper][<<>>].result = Success
        BY <3>2, <4>1, <4>3 DEF Clean, SameResult
      <4> QED
        BY <4>1, <4>4 DEF CanGive
    <3> QED
      BY <3>1, <3>2, <3>3 DEF Gives
  <2> QED
    BY <1>2, <2>1, <2>2
<1>3. ASSUME NEW upper, NEW full, Takes(chs, i, rest, t, acc, upper, full),
             NEW short, AsksMore(chs, i, upper, full, short, out)
      PROVE  Asks(chs, i, rest, t, acc, out)
  <2>1. acc \in Vector /\ i \in Int /\ upper \in Int /\ t - upper \in Nat
    BY <1>3 DEF Search, Takes
  <2>2. PICK a \in Vector : a = Append(acc, Part(i, upper)) /\ Front(a) = acc
    BY <2>1, Pushed
  <2>3. full = rest[t - upper][a] /\ full.result.kind = "need"
    BY <1>3, <2>2, ResultCases DEF Takes, AsksMore
  <2>4. full.acc = a
    BY <2>1, <2>3 DEF Clean, LeavesNothing
  <2>5. out.acc = acc
    BY <1>3, <2>2, <2>4 DEF AsksMore
  <2> QED
    BY <1>3, <2>5 DEF Asks
<1>4. ASSUME NEW upper, NEW full, Takes(chs, i, rest, t, acc, upper, full),
             NEW short, NEW adjusted, Adjusts(chs, i, rest, t, upper, full, short, adjusted),
             Retries(rest, t, adjusted, out)
      PROVE  Gives(chs, i, rest, t, acc, out)
  <2>1. adjusted.result = Success /\ Gives(chs, i, rest, t, acc, adjusted)
    BY <1>4, AdjustingFinds
  <2> QED
    BY <1>4, <2>1 DEF Retries
<1> QED
  <2>1. CASE ~Skips(chs, i, rest, t, acc, out)
    <3>1. PICK upper, full :
             /\ Takes(chs, i, rest, t, acc, upper, full)
             /\ \/ full.result \in {Success, Impossible} /\ out = full
                \/ \E short : AsksMore(chs, i, upper, full, short, out)
                \/ \E short, adjusted :
                      /\ Adjusts(chs, i, rest, t, upper, full, short, adjusted)
                      /\ Retries(rest, t, adjusted, out)
      BY <2>1, SearchCases
    <3> QED
      BY <1>2, <1>3, <1>4, <3>1
  <2> QED
    BY <1>1, <2>1

\* Result and vector of what is found.
LEMMA EndsAre ==
    ASSUME NEW chs, NEW i, NEW rest, NEW t, NEW acc, Search(chs, i, rest, t, acc), Clean(rest),
           NEW out
    PROVE  /\ SkipsInVain(chs, i, rest, t, acc, out)
                => /\ out.result = NeedSpace(chs[i].min - t) /\ out.acc = rest[t][acc].acc
                   /\ chs[i].min - t \in Nat \ {0}
           /\ Gives(chs, i, rest, t, acc, out) => out.result = Success
           /\ FindsImpossible(chs, i, rest, t, acc, out)
                => /\ out.result = Impossible /\ chs[i].min <= t
                   /\ t > chs[i].spendable
                   /\ rest[t - chs[i].spendable][<<>>].result = Impossible
           /\ \A s : Asks(chs, i, rest, t, acc, out) /\ out.result = NeedSpace(s) /\ s \in Nat \ {0}
                => /\ chs[i].min <= t /\ t > chs[i].spendable
                   /\ rest[t - chs[i].spendable][<<>>].result
                        = NeedSpace(s + (chs[i].spendable - chs[i].min))
           /\ Asks(chs, i, rest, t, acc, out) => out.result.kind = "need" /\ out.acc = acc
<1>1. /\ chs[i] \in Channel /\ chs[i].min \in Nat /\ chs[i].spendable \in Nat
      /\ t \in Nat \ {0} /\ acc \in Vector /\ i \in Int
  BY ChannelBounds DEF Search
<1>2. SkipsInVain(chs, i, rest, t, acc, out)
        => /\ out.result = NeedSpace(chs[i].min - t) /\ out.acc = rest[t][acc].acc
           /\ chs[i].min - t \in Nat \ {0}
  BY <1>1 DEF SkipsInVain
<1>3. ASSUME NEW upper, NEW full, Takes(chs, i, rest, t, acc, upper, full),
             full.result # Success
      PROVE  /\ upper = chs[i].spendable /\ t > upper /\ chs[i].min <= t
             /\ rest[t - chs[i].spendable][<<>>].result = full.result
  <2>1. upper \in Int /\ upper <= t /\ t - upper \in Nat /\ (upper = t \/ upper = chs[i].spendable)
    BY <1>1, <1>3 DEF Takes
  <2>2. PICK a \in Vector : a = Append(acc, Part(i, upper))
    <3>1. acc \in Vector /\ i \in Int /\ upper \in Int
      BY <1>1, <2>1
    <3> QED
      BY <3>1, Pushed
  <2>3. full = rest[t - upper][a]
    BY <1>3, <2>2 DEF Takes
  <2>4. t - upper # 0
    <3>1. rest[0][a] = [result |-> Success, acc |-> a]
      BY DEF Clean, FindsNothing
    <3> QED
      BY <1>3, <2>3, <3>1
  <2>5. upper = chs[i].spendable /\ t > upper
    BY <1>1, <2>1, <2>4
  <2>6. rest[t - upper][<<>>].result = full.result
    BY <2>1, <2>2, <2>3 DEF Clean, SameResult
  <2> QED
    BY <1>3, <2>5, <2>6 DEF Takes
<1>4. FindsImpossible(chs, i, rest, t, acc, out)
        => /\ out.result = Impossible /\ chs[i].min <= t /\ t > chs[i].spendable
           /\ rest[t - chs[i].spendable][<<>>].result = Impossible
  BY <1>3, ResultCases DEF FindsImpossible
<1>5. ASSUME Asks(chs, i, rest, t, acc, out)
      PROVE  /\ out.result.kind = "need" /\ out.acc = acc
             /\ \A s \in Nat \ {0} : out.result = NeedSpace(s)
                => /\ chs[i].min <= t /\ t > chs[i].spendable
                   /\ rest[t - chs[i].spendable][<<>>].result
                        = NeedSpace(s + (chs[i].spendable - chs[i].min))
  <2>1. PICK upper, full, short : /\ Takes(chs, i, rest, t, acc, upper, full)
                                  /\ AsksMore(chs, i, upper, full, short, out)
                                  /\ out.acc = acc
    BY <1>5 DEF Asks
  <2>2. short \in Nat \ {0} /\ full.result = NeedSpace(short) /\ full.result # Success
    BY <2>1, ResultCases DEF AsksMore
  <2>3. /\ upper = chs[i].spendable /\ t > upper /\ chs[i].min <= t
        /\ rest[t - chs[i].spendable][<<>>].result = NeedSpace(short)
    BY <1>3, <2>1, <2>2
  <2>4. /\ short - (chs[i].spendable - chs[i].min) \in Nat \ {0}
        /\ out.result = NeedSpace(short - (chs[i].spendable - chs[i].min))
    BY <1>1, <2>1, <2>2, <2>3 DEF AsksMore
  <2>5. \A s \in Nat \ {0} : out.result = NeedSpace(s)
                => short = s + (chs[i].spendable - chs[i].min)
    <3>1. \A s \in Nat \ {0} : out.result = NeedSpace(s)
                => s = short - (chs[i].spendable - chs[i].min)
      BY <2>4, ResultCases
    <3> QED
      BY <1>1, <2>2, <3>1
  <2>6. out.result.kind = "need"
    BY <2>4, ResultCases
  <2> QED
    BY <2>1, <2>3, <2>5, <2>6
<1> QED
  BY <1>2, <1>4, <1>5 DEF Gives

\* The result of a clean search, from those behind the channel.
LEMMA ResultIs ==
    ASSUME NEW chs, NEW i, NEW rest, NEW t, NEW acc, Search(chs, i, rest, t, acc), Clean(rest),
           NEW R, R = UseOrSkip(chs, i, rest, t, acc).result,
           NEW c, c = chs[i]
    PROVE  /\ t < c.min => R = IF rest[t][<<>>].result = Success THEN Success
                               ELSE NeedSpace(c.min - t)
           /\ c.min <= t /\ t <= c.spendable => R = Success
           /\ c.min <= t /\ t > c.spendable =>
                LET r == rest[t - c.spendable][<<>>].result
                IN  /\ r \in {Success, Impossible} => R = r
                    /\ \A s \in Nat \ {0} : r = NeedSpace(s) =>
                         R = IF s <= c.spendable - c.min THEN Success
                             ELSE NeedSpace(s - (c.spendable - c.min))
<1>1. /\ c \in Channel /\ c.min \in Nat /\ c.spendable \in Nat
      /\ t \in Nat \ {0} /\ acc \in Vector
  BY ChannelBounds DEF Search
<1>2. PICK out : out = UseOrSkip(chs, i, rest, t, acc)
  OBVIOUS
<1>3. rest[t][acc].result = rest[t][<<>>].result
  BY <1>1 DEF Clean, SameResult
<1>4. out.result = R
  BY <1>2
<1>5. CASE SkipsWell(chs, i, rest, t, acc, out)
  BY <1>1, <1>3, <1>4, <1>5 DEF SkipsWell
<1>6. CASE SkipsInVain(chs, i, rest, t, acc, out)
  BY <1>1, <1>3, <1>4, <1>6, EndsAre DEF SkipsInVain
<1>7. CASE FindsImpossible(chs, i, rest, t, acc, out)
  <2>1. /\ R = Impossible /\ c.min <= t /\ t > c.spendable
        /\ rest[t - c.spendable][<<>>].result = Impossible
    BY <1>4, <1>7, EndsAre
  <2> QED
    BY <1>1, <2>1, ResultCases
<1>8. CASE Asks(chs, i, rest, t, acc, out)
  <2>1. PICK s \in Nat \ {0} : R = NeedSpace(s)
    <3>1. R.kind = "need" /\ R \in Result
      <4>1. out \in Outcome
        BY <1>2, SearchIsOutcome
      <4> QED
        BY <1>4, <1>8, <4>1, EndsAre DEF Outcome
    <3> QED
      BY <3>1, ResultCases
  <2>2. /\ c.min <= t /\ t > c.spendable
        /\ rest[t - c.spendable][<<>>].result = NeedSpace(s + (c.spendable - c.min))
    BY <1>4, <1>8, <2>1, EndsAre
  <2>3. s + (c.spendable - c.min) \in Nat \ {0}
    BY <1>1, ChannelBounds
  <2>4. \A k \in Nat \ {0} : NeedSpace(s + (c.spendable - c.min)) = NeedSpace(k)
                                => k = s + (c.spendable - c.min)
    BY <2>3, ResultCases
  <2>5. NeedSpace(s + (c.spendable - c.min)) \notin {Success, Impossible}
    BY <2>3, ResultCases
  <2>6. \A k \in Nat \ {0} : k = s + (c.spendable - c.min) =>
            ~(k <= c.spendable - c.min) /\ k - (c.spendable - c.min) = s
    BY <1>1
  <2>7. ~(t < c.min) /\ ~(t <= c.spendable)
    BY <1>1, <2>2
  <2> QED
    BY <2>1, <2>2, <2>4, <2>5, <2>6, <2>7
<1>9. CASE Gives(chs, i, rest, t, acc, out)
  <2>1. R = Success /\ c.min <= t /\ (t > c.spendable => CanGive(chs, i, rest, t))
    BY <1>4, <1>9 DEF Gives
  <2>2. ~(t < c.min)
    BY <1>1, <2>1
  <2>3. ASSUME t > c.spendable
        PROVE  LET r == rest[t - c.spendable][<<>>].result
               IN  /\ r # Impossible
                   /\ \A s \in Nat \ {0} : r = NeedSpace(s) => s <= c.spendable - c.min
    <3>1. PICK r : r = rest[t - c.spendable][<<>>].result
      OBVIOUS
    <3>2. r = Success \/ \E s \in 1 .. c.spendable - c.min : r = NeedSpace(s)
      BY <2>1, <2>3, <3>1 DEF CanGive
    <3>3. CASE r = Success
      BY <3>1, <3>3, ResultCases
    <3>4. ASSUME NEW s \in 1 .. c.spendable - c.min, r = NeedSpace(s)
          PROVE  r # Impossible /\ \A k \in Nat \ {0} : r = NeedSpace(k) => k <= c.spendable - c.min
      <4>1. s \in Nat \ {0} /\ s <= c.spendable - c.min
        BY <1>1
      <4>2. NeedSpace(s).short = s /\ NeedSpace(s) # Impossible
        BY <4>1, ResultCases
      <4>3. \A k \in Nat \ {0} : r = NeedSpace(k) => k = s
        BY <3>4, <4>2, ResultCases
      <4> QED
        BY <3>4, <4>1, <4>2, <4>3
    <3> QED
      BY <3>1, <3>2, <3>3, <3>4
  <2> QED
    BY <2>1, <2>2, <2>3
<1> QED
  BY <1>2, <1>5, <1>6, <1>7, <1>8, <1>9, CleanSearch

\* The same, where there is a target left for the channels behind.
LEMMA ResultBeyond ==
    ASSUME NEW chs, NEW i, NEW rest, NEW t, NEW acc, Search(chs, i, rest, t, acc), Clean(rest),
           chs[i].min <= t, t > chs[i].spendable,
           NEW r, rest[t - chs[i].spendable][<<>>].result = r,
           r \in {Success, Impossible}
    PROVE  UseOrSkip(chs, i, rest, t, acc).result = r
<1>1. PICK c : c = chs[i]
  OBVIOUS
<1> QED
  BY <1>1, ResultIs

LEMMA ResultNeed ==
    ASSUME NEW chs, NEW i, NEW rest, NEW t, NEW acc, Search(chs, i, rest, t, acc), Clean(rest),
           chs[i].min <= t, t > chs[i].spendable,
           NEW r, rest[t - chs[i].spendable][<<>>].result = r,
           r.kind = "need", r.short \in Nat \ {0}, r = NeedSpace(r.short)
    PROVE  \/ /\ r.short <= chs[i].spendable - chs[i].min
              /\ UseOrSkip(chs, i, rest, t, acc).result = Success
           \/ /\ r.short > chs[i].spendable - chs[i].min
              /\ UseOrSkip(chs, i, rest, t, acc).result
                    = NeedSpace(r.short - (chs[i].spendable - chs[i].min))
<1>1. PICK c : c = chs[i]
  OBVIOUS
<1>2. c.spendable \in Nat /\ c.min \in Nat
  <2>1. c \in Channel
    BY <1>1 DEF Search
  <2> QED
    BY <2>1, ChannelBounds
<1>3. PICK R : R = UseOrSkip(chs, i, rest, t, acc).result
  OBVIOUS
<1>4. \A k \in Nat \ {0} : rest[t - c.spendable][<<>>].result = NeedSpace(k) =>
          R = IF k <= c.spendable - c.min THEN Success
              ELSE NeedSpace(k - (c.spendable - c.min))
  BY <1>1, <1>3, ResultIs
<1>5. PICK s \in Nat \ {0} : s = r.short
  OBVIOUS
<1>6. R = IF s <= c.spendable - c.min THEN Success
          ELSE NeedSpace(s - (c.spendable - c.min))
  BY <1>1, <1>4, <1>5
<1>7. CASE s <= c.spendable - c.min
  BY <1>1, <1>3, <1>5, <1>6, <1>7
<1>8. CASE s > c.spendable - c.min
  <2>1. ~(s <= c.spendable - c.min)
    BY <1>2, <1>8
  <2> QED
    BY <1>1, <1>3, <1>5, <1>6, <1>8, <2>1
<1> QED
  BY <1>2, <1>7, <1>8

\* In ascending order.
Rising(chs) == \A i, j \in DOMAIN chs : i < j => chs[i].spendable <= chs[j].spendable

\* A target below what each channel can spend is met by one, or by none.
LeavesSmall(chs, n, rest) ==
    \A t \in Nat, acc \in Vector :
        (\A j \in Len(chs) + 1 - n .. Len(chs) : t <= chs[j].spendable)
            => rest[t][acc].result = Success \/ rest[t][acc].acc = acc

LEMMA SameResultKept ==
    ASSUME NEW chs, NEW i, NEW rest, NEW t, NEW acc, Search(chs, i, rest, t, acc), Clean(rest)
    PROVE  UseOrSkip(chs, i, rest, t, acc).result = UseOrSkip(chs, i, rest, t, <<>>).result
<1>1. Search(chs, i, rest, t, <<>>)
  BY NilIsVector DEF Search
<1>2. /\ chs[i] \in Channel /\ chs[i].min \in Nat /\ chs[i].spendable \in Nat /\ t \in Nat
  BY ChannelBounds DEF Search
<1>3. PICK R : R = UseOrSkip(chs, i, rest, t, acc).result
  OBVIOUS
<1>4. PICK Q : Q = UseOrSkip(chs, i, rest, t, <<>>).result
  OBVIOUS
<1>5. PICK c : c = chs[i]
  OBVIOUS
<1>6. CASE t < c.min
  BY <1>1, <1>3, <1>4, <1>5, <1>6, ResultIs
<1>7. CASE c.min <= t /\ t <= c.spendable
  BY <1>1, <1>3, <1>4, <1>5, <1>7, ResultIs
<1>8. CASE c.min <= t /\ t > c.spendable
  <2>1. PICK r : r = rest[t - c.spendable][<<>>].result
    OBVIOUS
  <2>2. r \in Result
    <3>1. t - c.spendable \in Nat
      BY <1>2, <1>5, <1>8
    <3>2. rest[t - c.spendable][<<>>] \in Outcome
      BY <3>1, NilIsVector, AttemptIsOutcome DEF Search
    <3> QED
      BY <2>1, <3>2 DEF Outcome
  <2>3. CASE r \in {Success, Impossible}
    <3>1. R = r
      BY <1>3, <1>5, <1>8, <2>1, <2>3, ResultIs
    <3>2. Q = r
      BY <1>1, <1>4, <1>5, <1>8, <2>1, <2>3, ResultIs
    <3> QED
      BY <1>3, <1>4, <3>1, <3>2
  <2>4. ASSUME NEW s \in Nat \ {0}, r = NeedSpace(s)
        PROVE  R = Q
    <3>0. r.kind = "need" /\ r.short = s /\ r = NeedSpace(r.short)
      BY <2>4, ResultCases
    <3>1. \/ s <= c.spendable - c.min /\ R = Success
          \/ s > c.spendable - c.min /\ R = NeedSpace(s - (c.spendable - c.min))
      BY <1>3, <1>5, <1>8, <2>1, <3>0, ResultNeed
    <3>2. \/ s <= c.spendable - c.min /\ Q = Success
          \/ s > c.spendable - c.min /\ Q = NeedSpace(s - (c.spendable - c.min))
      BY <1>1, <1>4, <1>5, <1>8, <2>1, <3>0, ResultNeed
    <3> QED
      BY <1>2, <1>5, <3>1, <3>2
  <2> QED
    BY <1>3, <1>4, <2>2, <2>3, <2>4, ResultCases
<1> QED
  BY <1>2, <1>5, <1>6, <1>7, <1>8

\* Asking for more converges, through one more channel.
SearchFrom(chs, i, rest) == \A t \in Nat \ {0} : Search(chs, i, rest, t, <<>>)

ConvergeFrom(chs, i, rest) ==
    \A t \in Nat \ {0}, s \in Nat \ {0} : \A d \in 0..s :
        UseOrSkip(chs, i, rest, t, <<>>).result = NeedSpace(s) =>
            \/ UseOrSkip(chs, i, rest, t + d, <<>>).result = Success
            \/ d < s /\ UseOrSkip(chs, i, rest, t + d, <<>>).result = NeedSpace(s - d)

LEMMA ConvergesKept ==
    ASSUME NEW chs, NEW i, NEW rest, Clean(rest), SearchFrom(chs, i, rest)
    PROVE  ConvergeFrom(chs, i, rest)
<1> SUFFICES ASSUME NEW t \in Nat \ {0}, NEW s \in Nat \ {0}, NEW d \in 0..s,
                    UseOrSkip(chs, i, rest, t, <<>>).result = NeedSpace(s),
                    NEW R, R = UseOrSkip(chs, i, rest, t + d, <<>>).result
             PROVE  R = Success \/ (d < s /\ R = NeedSpace(s - d))
  BY DEF ConvergeFrom
<1>1. PICK c \in Channel : c = chs[i]
  BY DEF SearchFrom, Search
<1>2. /\ c.min \in Nat /\ c.spendable \in Nat \ {0} /\ c.min < c.spendable
      /\ d \in Nat /\ d <= s /\ t + d \in Nat \ {0} /\ s - d \in Nat
  BY ChannelBounds
<1>3. Search(chs, i, rest, t, <<>>) /\ Search(chs, i, rest, t + d, <<>>)
  BY <1>2 DEF SearchFrom
<1>4. NeedSpace(s) # Success /\ NeedSpace(s) # Impossible
  BY ResultCases
<1>5. CASE t < c.min
  <2>1. NeedSpace(s) = NeedSpace(c.min - t)
    BY <1>1, <1>3, <1>4, <1>5, ResultIs
  <2>2. s = c.min - t
    BY <1>2, <1>5, <2>1, ResultCases
  <2>3. CASE t + d < c.min
    <3>1. R = Success \/ R = NeedSpace(c.min - (t + d))
      BY <1>1, <1>3, <2>3, ResultIs
    <3>2. c.min - (t + d) = s - d /\ d < s
      BY <1>2, <2>2, <2>3
    <3> QED
      BY <3>1, <3>2
  <2>4. CASE t + d = c.min
    <3>1. c.min <= t + d /\ t + d <= c.spendable
      BY <1>2, <2>4
    <3> QED
      BY <1>1, <1>3, <3>1, ResultIs
  <2> QED
    BY <1>2, <2>2, <2>3, <2>4
<1>6. CASE c.min <= t
  <2>1. t > c.spendable
    <3>1. ~(t <= c.spendable)
      BY <1>1, <1>3, <1>4, <1>6, ResultIs
    <3> QED
      BY <1>2, <3>1
  <2>2. PICK r : r = rest[t - c.spendable][<<>>].result
    OBVIOUS
  <2>3. r \in Result /\ t - c.spendable \in Nat
    <3>1. t - c.spendable \in Nat
      BY <1>2, <2>1
    <3>2. rest[t - c.spendable][<<>>] \in Outcome
      BY <1>3, <3>1, NilIsVector, AttemptIsOutcome DEF Search
    <3> QED
      BY <2>2, <3>1, <3>2 DEF Outcome
  <2>4. r \notin {Success, Impossible}
    BY <1>1, <1>3, <1>4, <1>6, <2>1, <2>2, ResultIs
  <2>5. PICK k \in Nat \ {0} : r = NeedSpace(k)
    BY <2>3, <2>4, ResultCases
  <2>6. \/ k <= c.spendable - c.min /\ NeedSpace(s) = Success
        \/ k > c.spendable - c.min /\ NeedSpace(s) = NeedSpace(k - (c.spendable - c.min))
    <3>1. r.kind = "need" /\ r.short = k /\ r = NeedSpace(r.short)
      BY <2>5, ResultCases
    <3> QED
      BY <1>1, <1>3, <1>6, <2>1, <2>2, <3>1, ResultNeed
  <2>7. k > c.spendable - c.min /\ s = k - (c.spendable - c.min)
    <3>1. k > c.spendable - c.min /\ NeedSpace(s) = NeedSpace(k - (c.spendable - c.min))
      BY <1>4, <2>6
    <3>2. k - (c.spendable - c.min) \in Nat \ {0}
      BY <1>2, <3>1
    <3> QED
      BY <1>2, <3>1, <3>2, ResultCases
  <2>8. d \in 0..k /\ d < k
    BY <1>2, <2>7
  <2>9. PICK q : q = rest[(t - c.spendable) + d][<<>>].result
    OBVIOUS
  <2>10. q = Success \/ q = NeedSpace(k - d)
    BY <2>2, <2>3, <2>5, <2>8, <2>9 DEF Clean, Converges
  <2>11. /\ (t + d) - c.spendable = (t - c.spendable) + d
         /\ c.min <= t + d /\ t + d > c.spendable
    BY <1>2, <1>6, <2>1
  <2>12. q = rest[(t + d) - c.spendable][<<>>].result
    BY <2>9, <2>11
  <2>13. CASE q = Success
    BY <1>1, <1>3, <2>11, <2>12, <2>13, ResultBeyond
  <2>14. CASE q = NeedSpace(k - d)
    <3>1. k - d \in Nat \ {0}
      BY <1>2, <2>8
    <3>2. \/ k - d <= c.spendable - c.min /\ R = Success
          \/ k - d > c.spendable - c.min /\ R = NeedSpace((k - d) - (c.spendable - c.min))
      <4>1. q.kind = "need" /\ q.short = k - d /\ q = NeedSpace(q.short)
        BY <2>14, <3>1, ResultCases
      <4> QED
        BY <1>1, <1>3, <2>11, <2>12, <3>1, <4>1, ResultNeed
    <3>3. (k - d) - (c.spendable - c.min) = s - d
      BY <1>2, <2>7
    <3>4. k - d > c.spendable - c.min => d < s
      BY <1>2, <2>7
    <3> QED
      BY <3>2, <3>3, <3>4
  <2> QED
    BY <2>10, <2>13, <2>14
<1> QED
  BY <1>2, <1>5, <1>6

\* What is left in the vector, if the channels behind leave nothing of a target
\* below the channel's minimum.
LEMMA LittleIsLeft ==
    ASSUME NEW chs, NEW i, NEW rest, NEW t, NEW acc, Search(chs, i, rest, t, acc), Clean(rest),
           t < chs[i].min => rest[t][acc].result = Success \/ rest[t][acc].acc = acc,
           NEW out, out = UseOrSkip(chs, i, rest, t, acc)
    PROVE  /\ out.result.kind = "need" => out.acc = acc
           /\ t <= chs[i].spendable => out.result = Success \/ out.acc = acc
<1>1. chs[i].spendable \in Nat /\ t \in Nat
  <2>1. chs[i] \in Channel
    BY DEF Search
  <2> QED
    BY <2>1, ChannelBounds DEF Search
<1>2. CASE SkipsWell(chs, i, rest, t, acc, out)
  BY <1>2, ResultCases DEF SkipsWell
<1>3. CASE SkipsInVain(chs, i, rest, t, acc, out)
  <2>1. out.acc = rest[t][acc].acc
    BY <1>3, EndsAre
  <2> QED
    BY <1>3, <2>1 DEF SkipsInVain
<1>4. CASE FindsImpossible(chs, i, rest, t, acc, out)
  <2>1. out.result = Impossible /\ t > chs[i].spendable
    BY <1>4, EndsAre
  <2> QED
    BY <1>1, <2>1, ResultCases
<1>5. CASE Asks(chs, i, rest, t, acc, out)
  BY <1>5 DEF Asks
<1>6. CASE Gives(chs, i, rest, t, acc, out)
  BY <1>6, ResultCases DEF Gives
<1> QED
  BY <1>2, <1>3, <1>4, <1>5, <1>6, CleanSearch

LEMMA LevelIsClean ==
    ASSUME NEW chs \in Seq(Channel), Rising(chs), NEW n \in 1..Len(chs), NEW rest \in Attempts,
           Clean(rest), LeavesSmall(chs, n - 1, rest)
    PROVE  Clean(Level(chs, n, rest)) /\ LeavesSmall(chs, n, Level(chs, n, rest))
<1> DEFINE i == Len(chs) + 1 - n
           level == Level(chs, n, rest)
<1>1. i \in DOMAIN chs /\ Len(chs) \in Nat
  OBVIOUS
<1>2. chs[i].spendable \in Nat /\ chs[i].min \in Nat /\ chs[i].min < chs[i].spendable
  BY <1>1, ChannelBounds
<1>3. \A acc \in Vector :
         /\ level[0][acc] = [result |-> Success, acc |-> acc]
         /\ \A t \in Nat \ {0} :
              /\ Search(chs, i, rest, t, acc)
              /\ level[t][acc] = UseOrSkip(chs, i, rest, t, acc)
  BY LevelSearches
<1> HIDE DEF level
<1>4. ASSUME NEW acc \in Vector
      PROVE  level[0][acc].result = Success /\ level[0][acc].acc = acc
  <2>1. level[0][acc] = [result |-> Success, acc |-> acc]
    BY <1>3
  <2> QED
    BY <2>1
<1>5. ASSUME NEW t \in Nat \ {0}, NEW acc \in Vector
      PROVE  /\ level[t][acc].result.kind = "need" => level[t][acc].acc = acc
             /\ t <= chs[i].spendable => level[t][acc].result = Success \/ level[t][acc].acc = acc
  <2>1. t < chs[i].min => rest[t][acc].result = Success \/ rest[t][acc].acc = acc
    <3> SUFFICES ASSUME t < chs[i].min
                 PROVE  rest[t][acc].result = Success \/ rest[t][acc].acc = acc
      OBVIOUS
    <3>1. ASSUME NEW j \in Len(chs) + 1 - (n - 1) .. Len(chs)
          PROVE  t <= chs[j].spendable
      <4>1. j \in DOMAIN chs /\ i < j
        BY <1>1
      <4>2. chs[i].spendable <= chs[j].spendable
        BY <1>1, <4>1 DEF Rising
      <4>3. chs[j].spendable \in Nat
        BY <4>1, ChannelBounds
      <4> QED
        BY <1>2, <4>2, <4>3
    <3>2. t \in Nat
      OBVIOUS
    <3> QED
      BY <3>1, <3>2 DEF LeavesSmall
  <2>2. Search(chs, i, rest, t, acc) /\ level[t][acc] = UseOrSkip(chs, i, rest, t, acc)
    BY <1>3
  <2> HIDE DEF i
  <2> QED
    BY <2>1, <2>2, LittleIsLeft
<1>6. SameResult(level)
  <2>1. ASSUME NEW t \in Nat, NEW acc \in Vector
        PROVE  level[t][acc].result = level[t][<<>>].result
    <3>1. CASE t = 0
      BY <1>4, <3>1, NilIsVector
    <3>2. CASE t # 0
      <4>1. t \in Nat \ {0}
        BY <3>2
      <4>2. /\ Search(chs, i, rest, t, acc) /\ level[t][acc] = UseOrSkip(chs, i, rest, t, acc)
            /\ level[t][<<>>] = UseOrSkip(chs, i, rest, t, <<>>)
        BY <1>3, <4>1, NilIsVector
      <4> HIDE DEF i
      <4> QED
        BY <4>2, SameResultKept
    <3> QED
      BY <3>1, <3>2
  <2> QED
    BY <2>1 DEF SameResult
<1>7. Converges(level)
  <2>1. ASSUME NEW t \in Nat, NEW s \in Nat \ {0}, level[t][<<>>].result = NeedSpace(s),
               NEW d \in 0..s
        PROVE  LET r == level[t + d][<<>>].result
               IN  r = Success \/ (d < s /\ r = NeedSpace(s - d))
    <3>1. t # 0
      BY <1>4, <2>1, NilIsVector, ResultCases
    <3>2. t \in Nat \ {0} /\ t + d \in Nat \ {0}
      BY <3>1
    <3>3. SearchFrom(chs, i, rest)
      BY <1>3, NilIsVector DEF SearchFrom
    <3>4. /\ level[t][<<>>] = UseOrSkip(chs, i, rest, t, <<>>)
          /\ level[t + d][<<>>] = UseOrSkip(chs, i, rest, t + d, <<>>)
      BY <1>3, <3>2, NilIsVector
    <3> HIDE DEF i
    <3>5. ConvergeFrom(chs, i, rest)
      BY <3>3, ConvergesKept
    <3>6. UseOrSkip(chs, i, rest, t, <<>>).result = NeedSpace(s)
      BY <2>1, <3>4
    <3>7. \/ UseOrSkip(chs, i, rest, t + d, <<>>).result = Success
          \/ d < s /\ UseOrSkip(chs, i, rest, t + d, <<>>).result = NeedSpace(s - d)
      <4>1. t \in Nat \ {0} /\ s \in Nat \ {0} /\ d \in 0..s
        BY <2>1, <3>2
      <4> QED
        BY Zenon, <3>5, <3>6, <4>1 DEF ConvergeFrom
    <3> QED
      BY <3>4, <3>7
  <2> QED
    BY <2>1 DEF Converges
<1>8. LeavesNothing(level)
  BY <1>4, <1>5 DEF LeavesNothing
<1>9. LeavesSmall(chs, n, level)
  <2>1. ASSUME NEW t \in Nat, NEW acc \in Vector,
               \A j \in i .. Len(chs) : t <= chs[j].spendable
        PROVE  level[t][acc].result = Success \/ level[t][acc].acc = acc
    <3>1. t <= chs[i].spendable
      BY <1>1, <2>1
    <3> QED
      BY <1>4, <1>5, <3>1
  <2> QED
    BY <2>1 DEF LeavesSmall
<1>10. FindsNothing(level)
  BY <1>3 DEF FindsNothing
<1> QED
  BY <1>6, <1>7, <1>8, <1>9, <1>10 DEF Clean, level

LEMMA NoChannelsIsClean ==
    ASSUME NEW chs \in Seq(Channel)
    PROVE  Clean(Level(chs, 0, {})) /\ LeavesSmall(chs, 0, Level(chs, 0, {}))
<1> DEFINE level == Level(chs, 0, {})
<1>1. ASSUME NEW acc \in Vector
      PROVE  /\ level[0][acc] = [result |-> Success, acc |-> acc]
             /\ \A t \in Nat \ {0} : level[t][acc] = [result |-> Impossible, acc |-> acc]
  <2>1. 0 \in 0..Len(chs)
    OBVIOUS
  <2> HIDE DEF level
  <2> QED
    BY <2>1, LevelIsAttempts DEF level
<1> HIDE DEF level
<1>2. ASSUME NEW acc \in Vector, NEW t \in Nat
      PROVE  /\ level[t][acc].result = (IF t = 0 THEN Success ELSE Impossible)
             /\ level[t][acc].acc = acc
  <2>1. CASE t = 0
    <3>1. level[t][acc] = [result |-> Success, acc |-> acc]
      BY <1>1, <2>1
    <3> QED
      BY <2>1, <3>1
  <2>2. CASE t # 0
    <3>1. level[t][acc] = [result |-> Impossible, acc |-> acc]
      BY <1>1, <2>2
    <3> QED
      BY <2>2, <3>1
  <2> QED
    BY <2>1, <2>2
<1>3. FindsNothing(level)
  BY <1>1 DEF FindsNothing
<1>4. SameResult(level)
  BY <1>2, NilIsVector DEF SameResult
<1>5. Converges(level)
  BY <1>2, NilIsVector, ResultCases DEF Converges
<1>6. LeavesNothing(level) /\ LeavesSmall(chs, 0, level)
  BY <1>2 DEF LeavesNothing, LeavesSmall
<1> QED
  BY <1>3, <1>4, <1>5, <1>6 DEF Clean, level

-----------------------------------------------------------------------------
(* What the parts come to                                                  *)

Msats(acc) == [k \in DOMAIN acc |-> acc[k].msat]

\* Parts on ever later channels, up to the m-th: no channel carries two.
Rises(acc, m) ==
    /\ \A k \in DOMAIN acc : acc[k].channel \in 1..m
    /\ \A j, k \in DOMAIN acc : j < k => acc[j].channel < acc[k].channel

\* What is found for a target adds as much to the vector, on channels behind
\* those it has.
AddsUp(rest, m, last) ==
    \A t \in Nat, acc \in Vector : rest[t][acc].result = Success =>
        /\ SumOf(Msats(rest[t][acc].acc)) = SumOf(Msats(acc)) + t
        /\ Rises(acc, m) => Rises(rest[t][acc].acc, last)

LEMMA PushedAdds ==
    ASSUME NEW acc \in Vector, NEW i \in Nat \ {0}, NEW n \in Int
    PROVE  /\ SumOf(Msats(acc)) \in Int
           /\ SumOf(Msats(Append(acc, Part(i, n)))) = SumOf(Msats(acc)) + n
           /\ Rises(acc, i - 1) => Rises(acc, i) /\ Rises(Append(acc, Part(i, n)), i)
<1> DEFINE P == [channel : Int, msat : Int]
<1>1. acc \in Seq(P)
  BY DEF Vector
<1>2. PICK e \in P : e = Part(i, n) /\ e.channel = i /\ e.msat = n
  <2>1. i \in Int /\ n \in Int
    OBVIOUS
  <2>2. Part(i, n) \in P /\ Part(i, n).channel = i /\ Part(i, n).msat = n
    BY <2>1 DEF Part
  <2> HIDE DEF P
  <2> QED
    BY <2>2
<1>3. /\ Len(acc) \in Nat /\ DOMAIN acc = 1..Len(acc)
      /\ \A k \in 1..Len(acc) : acc[k] \in P
  <2> HIDE DEF P
  <2> QED
    BY <1>1
<1>4. PICK b : b = Append(acc, e)
  OBVIOUS
<1>5. /\ b \in Seq(P) /\ Len(b) = Len(acc) + 1 /\ DOMAIN b = 1..(Len(acc) + 1)
      /\ b[Len(acc) + 1] = e /\ \A k \in 1..Len(acc) : b[k] = acc[k]
  <2> HIDE DEF P
  <2> QED
    BY <1>1, <1>2, <1>4
<1>6. Msats(acc) \in Seq(Int) /\ Len(Msats(acc)) = Len(acc)
      /\ \A k \in 1..Len(acc) : Msats(acc)[k] = acc[k].msat
  BY <1>3 DEF Msats
<1>7. Msats(b) = Append(Msats(acc), n)
  <2>1. Msats(b) \in Seq(Int) /\ Len(Msats(b)) = Len(acc) + 1
        /\ \A k \in 1..(Len(acc) + 1) : Msats(b)[k] = b[k].msat
    <3>1. \A k \in 1..(Len(acc) + 1) : b[k].msat \in Int
      <4>1. \A k \in 1..(Len(acc) + 1) : b[k] \in P
        <5> HIDE DEF P
        <5> QED
          BY <1>3, <1>5
      <4> QED
        BY <4>1
    <3> QED
      BY <1>3, <1>5, <3>1 DEF Msats
  <2>2. PICK a : a = Append(Msats(acc), n)
    OBVIOUS
  <2>3. a \in Seq(Int) /\ Len(a) = Len(acc) + 1 /\ a[Len(acc) + 1] = n
        /\ \A k \in 1..Len(acc) : a[k] = acc[k].msat
    BY <1>6, <2>2
  <2>4. \A k \in 1..(Len(acc) + 1) : Msats(b)[k] = a[k]
    <3> SUFFICES ASSUME NEW k \in 1..(Len(acc) + 1)
                 PROVE  Msats(b)[k] = a[k]
      OBVIOUS
    <3>1. CASE k = Len(acc) + 1
      BY <1>2, <1>5, <2>1, <2>3, <3>1
    <3>2. CASE k # Len(acc) + 1
      <4>1. k \in 1..Len(acc)
        BY <1>3, <3>2
      <4> QED
        BY <1>5, <2>1, <2>3, <4>1
    <3> QED
      BY <3>1, <3>2
  <2>5. Msats(b) = a
    BY <2>1, <2>3, <2>4, SeqEqual
  <2> QED
    BY <2>2, <2>5
<1>8. SumOf(Msats(acc)) \in Int
  <2>1. Len(Msats(acc)) \in 0..Len(Msats(acc))
    BY <1>3, <1>6
  <2> QED
    BY <1>6, <2>1, SumIs, SumsAre
<1>9. SumOf(Msats(b)) = SumOf(Msats(acc)) + n
  BY <1>6, <1>7, SumOfAppend
<1>10. ASSUME Rises(acc, i - 1)
       PROVE  Rises(acc, i) /\ Rises(b, i)
  <2>1. \A k \in 1..Len(acc) : acc[k].channel \in Int /\ acc[k].channel \in 1..(i - 1)
    BY <1>3, <1>10 DEF Rises
  <2>2. \A k \in 1..Len(acc) : acc[k].channel \in 1..i /\ acc[k].channel < i
    BY <2>1
  <2>3. \A j, k \in 1..Len(acc) : j < k => acc[j].channel < acc[k].channel
    BY <1>3, <1>10 DEF Rises
  <2>4. Rises(acc, i)
    BY <1>3, <2>2, <2>3 DEF Rises
  <2>5. \A k \in 1..(Len(acc) + 1) : b[k].channel \in 1..i
    <3> SUFFICES ASSUME NEW k \in 1..(Len(acc) + 1)
                 PROVE  b[k].channel \in 1..i
      OBVIOUS
    <3>1. k = Len(acc) + 1 \/ k \in 1..Len(acc)
      BY <1>3
    <3> QED
      BY <1>2, <1>5, <2>2, <3>1
  <2>6. \A j, k \in 1..(Len(acc) + 1) : j < k => b[j].channel < b[k].channel
    <3> SUFFICES ASSUME NEW j \in 1..(Len(acc) + 1), NEW k \in 1..(Len(acc) + 1), j < k
                 PROVE  b[j].channel < b[k].channel
      OBVIOUS
    <3>1. j \in 1..Len(acc) /\ (k = Len(acc) + 1 \/ k \in 1..Len(acc))
      <4>1. \A m \in Nat : \A x, y \in 1..(m + 1) :
                x < y => x \in 1..m /\ (y = m + 1 \/ y \in 1..m)
        OBVIOUS
      <4> QED
        BY <1>3, <4>1
    <3> QED
      BY <1>2, <1>5, <2>2, <2>3, <3>1
  <2> QED
    BY <1>5, <2>4, <2>5, <2>6 DEF Rises
<1> QED
  BY <1>2, <1>4, <1>8, <1>9, <1>10

LEMMA SearchAdds ==
    ASSUME NEW chs, NEW i, NEW rest, NEW t, NEW acc, Search(chs, i, rest, t, acc), Clean(rest),
           NEW last, AddsUp(rest, i, last),
           NEW out, out = UseOrSkip(chs, i, rest, t, acc), out.result = Success
    PROVE  /\ SumOf(Msats(out.acc)) = SumOf(Msats(acc)) + t
           /\ Rises(acc, i - 1) => Rises(out.acc, last)
<1>1. acc \in Vector /\ i \in Nat \ {0} /\ t \in Nat
  BY DEF Search
<1>2. \A s \in Nat \ {0} : NeedSpace(s) # Success
  BY ResultCases
<1>3. CASE SkipsWell(chs, i, rest, t, acc, out)
  <2>1. out = rest[t][acc]
    BY <1>3 DEF SkipsWell
  <2>2. SumOf(Msats(out.acc)) = SumOf(Msats(acc)) + t /\ (Rises(acc, i) => Rises(out.acc, last))
    BY <1>1, <2>1 DEF AddsUp
  <2>3. 0 \in Int
    OBVIOUS
  <2> QED
    BY <1>1, <2>2, <2>3, PushedAdds
<1>4. CASE Gives(chs, i, rest, t, acc, out)
  <2>1. PICK n \in Nat : n <= t /\ out = rest[t - n][Append(acc, Part(i, n))]
    BY <1>4 DEF Gives
  <2>2. t - n \in Nat /\ n \in Int /\ i \in Int
    BY <1>1, <2>1
  <2>3. PICK a \in Vector : a = Append(acc, Part(i, n))
    BY <1>1, <2>2, Pushed
  <2>4. SumOf(Msats(out.acc)) = SumOf(Msats(a)) + (t - n) /\ (Rises(a, i) => Rises(out.acc, last))
    BY <2>1, <2>2, <2>3 DEF AddsUp
  <2>5. /\ SumOf(Msats(acc)) \in Int
        /\ SumOf(Msats(a)) = SumOf(Msats(acc)) + n
        /\ Rises(acc, i - 1) => Rises(a, i)
    BY <1>1, <2>2, <2>3, PushedAdds
  <2> QED
    BY <1>1, <2>4, <2>5
<1>5. CASE SkipsInVain(chs, i, rest, t, acc, out)
  BY <1>2, <1>5, EndsAre
<1>6. CASE FindsImpossible(chs, i, rest, t, acc, out)
  BY <1>6, EndsAre, ResultCases
<1>7. CASE Asks(chs, i, rest, t, acc, out)
  BY <1>7, EndsAre, ResultCases
<1> QED
  BY <1>3, <1>4, <1>5, <1>6, <1>7, CleanSearch

LEMMA RisesTo ==
    ASSUME NEW chs \in Seq(Channel), Rising(chs)
    PROVE  Clean(TryAllocate(chs)) /\ AddsUp(TryAllocate(chs), 0, Len(chs))
<1> DEFINE N == Len(chs)
           Good(n, rest) == /\ Clean(rest) /\ LeavesSmall(chs, n, rest)
                            /\ AddsUp(rest, N - n, N)
           good == [n \in 0..N |-> {rest \in Attempts : Good(n, rest)}]
<1>1. N \in Nat /\ 0 \in 0..N
  OBVIOUS
<1>2. Level(chs, 0, {}) \in good[0]
  <2> DEFINE level == Level(chs, 0, {})
  <2>1. /\ level \in Attempts
        /\ \A acc \in Vector :
             /\ level[0][acc] = [result |-> Success, acc |-> acc]
             /\ \A t \in Nat \ {0} : level[t][acc] = [result |-> Impossible, acc |-> acc]
    BY <1>1, LevelIsAttempts
  <2>2. Clean(level) /\ LeavesSmall(chs, 0, level)
    BY NoChannelsIsClean
  <2> HIDE DEF level
  <2>3. ASSUME NEW t \in Nat, NEW acc \in Vector, level[t][acc].result = Success
        PROVE  /\ SumOf(Msats(level[t][acc].acc)) = SumOf(Msats(acc)) + t
               /\ level[t][acc].acc = acc
    <3>1. t = 0
      <4>1. [result |-> Impossible, acc |-> acc].result # Success
        BY ResultCases
      <4> QED
        BY <2>1, <2>3, <4>1
    <3>2. level[t][acc] = [result |-> Success, acc |-> acc]
      BY <2>1, <3>1
    <3>3. level[t][acc].acc = acc
      BY <3>2
    <3>4. SumOf(Msats(acc)) \in Int
      <4>1. 1 \in Nat \ {0} /\ 0 \in Int
        OBVIOUS
      <4> QED
        BY <4>1, PushedAdds
    <3> QED
      BY <3>1, <3>3, <3>4
  <2>4. AddsUp(level, N - 0, N)
    BY <1>1, <2>3 DEF AddsUp
  <2> QED
    BY <1>1, <2>1, <2>2, <2>4 DEF level
<1>3. ASSUME NEW n \in 1..N, NEW rest \in Attempts, Good(n - 1, rest)
      PROVE  Good(n, Level(chs, n, rest))
  <2> DEFINE i == N + 1 - n
             level == Level(chs, n, rest)
  <2>1. i = N - (n - 1) /\ i - 1 = N - n /\ i \in Nat \ {0}
    BY <1>1
  <2>2. AddsUp(rest, i, N) /\ Clean(rest)
    BY <1>3, <2>1
  <2>3. Clean(level) /\ LeavesSmall(chs, n, level)
    BY <1>3, LevelIsClean
  <2>4. \A acc \in Vector :
           /\ level[0][acc] = [result |-> Success, acc |-> acc]
           /\ \A t \in Nat \ {0} :
                /\ Search(chs, i, rest, t, acc)
                /\ level[t][acc] = UseOrSkip(chs, i, rest, t, acc)
    BY LevelSearches
  <2> HIDE DEF level
  <2>5. ASSUME NEW t \in Nat, NEW acc \in Vector, level[t][acc].result = Success
        PROVE  /\ SumOf(Msats(level[t][acc].acc)) = SumOf(Msats(acc)) + t
               /\ Rises(acc, i - 1) => Rises(level[t][acc].acc, N)
    <3>1. CASE t = 0
      <4>1. level[0][acc] = [result |-> Success, acc |-> acc]
        BY <2>4
      <4>2. level[t][acc].acc = acc
        BY <3>1, <4>1
      <4>3. SumOf(Msats(acc)) \in Int
        <5>1. 1 \in Nat \ {0} /\ 0 \in Int
          OBVIOUS
        <5> QED
          BY <5>1, PushedAdds
      <4>4. Rises(acc, i - 1) => Rises(acc, N)
        <5>1. \A x : x \in 1..(i - 1) => x \in 1..N
          BY <1>1, <2>1
        <5> QED
          BY <5>1 DEF Rises
      <4> QED
        BY <3>1, <4>2, <4>3, <4>4
    <3>2. CASE t # 0
      <4>1. t \in Nat \ {0}
        BY <3>2
      <4>2. PICK out : out = UseOrSkip(chs, i, rest, t, acc)
        OBVIOUS
      <4>3. Search(chs, i, rest, t, acc) /\ level[t][acc] = out
        BY <2>4, <4>1, <4>2
      <4> HIDE DEF i
      <4> QED
        BY <2>2, <2>5, <4>2, <4>3, SearchAdds
    <3> QED
      BY <3>1, <3>2
  <2>6. AddsUp(level, N - n, N)
    BY <2>1, <2>5 DEF AddsUp
  <2> QED
    BY <2>3, <2>6 DEF level
<1>4. \A n \in 1..N : \A rest \in good[n - 1] :
         rest \in Attempts => Level(chs, n, rest) \in good[n]
  <2> SUFFICES ASSUME NEW n \in 1..N, NEW rest \in good[n - 1]
               PROVE  Level(chs, n, rest) \in good[n]
    OBVIOUS
  <2>1. n - 1 \in 0..N /\ n \in 0..N
    BY <1>1
  <2> HIDE DEF Good
  <2>2. rest \in Attempts /\ Good(n - 1, rest)
    BY <2>1
  <2>3. Level(chs, n, rest) \in Attempts
    BY <2>2, LevelSearches
  <2> QED
    BY <1>3, <2>1, <2>2, <2>3
<1>5. TryAllocate(chs) \in good[N]
  <2> HIDE DEF good
  <2> QED
    BY <1>2, <1>4, LevelByLevel
<1>6. Good(N, TryAllocate(chs))
  <2> HIDE DEF Good
  <2> QED
    BY <1>1, <1>5
<1>7. N - N = 0
  BY <1>1
<1> QED
  BY <1>6, <1>7

-----------------------------------------------------------------------------
(* The order channels are tried in                                         *)

UpTo(chs, sign, i) == {j \in DOMAIN chs : \/ Before(chs[j], chs[i], sign)
                                          \/ chs[j] = chs[i] /\ j <= i}

LEMMA BeforeOrders ==
    ASSUME NEW sign \in {1, -1}, NEW a \in Channel, NEW b \in Channel, NEW c \in Channel
    PROVE  /\ Before(a, b, sign) /\ Before(b, c, sign) => Before(a, c, sign)
           /\ Before(a, b, sign) => ~Before(b, a, sign) /\ a # b
           /\ a # b => Before(a, b, sign) \/ Before(b, a, sign)
           /\ ~Before(b, a, sign) => sign * a.spendable <= sign * b.spendable
<1>1. \A x \in Channel : x.spendable \in Int /\ x.min \in Int
  BY ChannelBounds
<1>2. a.spendable = b.spendable /\ a.min = b.min => a = b
  BY DEF Channel
<1>3. sign = 1 \/ sign = -1
  OBVIOUS
<1>4. CASE sign = 1
  BY <1>1, <1>2, <1>4 DEF Before
<1>5. CASE sign = -1
  BY <1>1, <1>2, <1>5 DEF Before
<1> QED
  BY <1>3, <1>4, <1>5

\* The number of channels up to one is another for each, and grows in the order.
LEMMA UpToGrows ==
    ASSUME NEW chs \in Seq(Channel), NEW sign \in {1, -1},
           NEW i \in DOMAIN chs, NEW j \in DOMAIN chs, j \in UpTo(chs, sign, i), i # j
    PROVE  /\ Cardinality(UpTo(chs, sign, j)) < Cardinality(UpTo(chs, sign, i))
           /\ Cardinality(UpTo(chs, sign, j)) \in Nat /\ Cardinality(UpTo(chs, sign, i)) \in Nat
<1> DEFINE A == UpTo(chs, sign, i)
           B == UpTo(chs, sign, j)
<1>1. Len(chs) \in Nat /\ DOMAIN chs = 1..Len(chs)
  OBVIOUS
<1>2. \A k \in DOMAIN chs : chs[k] \in Channel /\ k \in Int
  BY <1>1
<1>3. B \subseteq A
  BY <1>1, <1>2, BeforeOrders DEF UpTo
<1>4. i \in A /\ i \notin B
  BY <1>1, <1>2, BeforeOrders DEF UpTo
<1>5. IsFiniteSet(A)
  <2>1. IsFiniteSet(1..Len(chs)) /\ A \subseteq 1..Len(chs)
    BY <1>1, FS_Interval DEF UpTo
  <2> QED
    BY <2>1, FS_Subset
<1> HIDE DEF A, B
<1>6. /\ IsFiniteSet(B) /\ Cardinality(B) <= Cardinality(A)
      /\ Cardinality(A) = Cardinality(B) => A = B
  BY <1>3, <1>5, FS_Subset
<1>7. Cardinality(A) \in Nat /\ Cardinality(B) \in Nat
  BY <1>5, <1>6, FS_CardinalityType
<1> QED
  BY <1>4, <1>6, <1>7 DEF A, B

\* Every place is taken, so that a channel is found for it.
LEMMA SortedIs ==
    ASSUME NEW chs \in Seq(Channel), NEW sign \in {1, -1}
    PROVE  \E at \in [DOMAIN chs -> DOMAIN chs] :
              /\ Sorted(chs, sign) = [n \in DOMAIN chs |-> chs[at[n]]]
              /\ \A n \in DOMAIN chs : Cardinality(UpTo(chs, sign, at[n])) = n
<1> DEFINE D == DOMAIN chs
           place == [i \in D |-> Cardinality(UpTo(chs, sign, i))]
           at == [n \in D |-> CHOOSE i \in D : place[i] = n]
<1>1. Len(chs) \in Nat /\ D = 1..Len(chs)
  OBVIOUS
<1>2. IsFiniteSet(D) /\ Cardinality(D) = Len(chs)
  BY <1>1, FS_Interval
<1>3. \A k \in D : chs[k] \in Channel /\ k \in Int
  BY <1>1
<1>4. ASSUME NEW i \in D
      PROVE  Cardinality(UpTo(chs, sign, i)) \in D
  <2>1. UpTo(chs, sign, i) \subseteq D /\ i \in UpTo(chs, sign, i)
    BY <1>1 DEF UpTo
  <2>2. PICK U : U = UpTo(chs, sign, i)
    OBVIOUS
  <2> HIDE DEF D
  <2>3. IsFiniteSet(U) /\ Cardinality(U) <= Len(chs)
    BY <1>2, <2>1, <2>2, FS_Subset
  <2>4. Cardinality(U) \in Nat /\ Cardinality(U) # 0
    BY <2>1, <2>2, <2>3, FS_CardinalityType, FS_EmptySet
  <2> QED
    BY <1>1, <2>2, <2>3, <2>4
<1>5. place \in Injection(D, D)
  <2>1. place \in [D -> D]
    BY <1>4
  <2>2. ASSUME NEW i \in D, NEW j \in D, i # j
        PROVE  place[i] # place[j]
    <3>1. j \in UpTo(chs, sign, i) \/ i \in UpTo(chs, sign, j)
      BY <1>1, <1>3, <2>2, BeforeOrders DEF UpTo
    <3>2. \/ Cardinality(UpTo(chs, sign, j)) < Cardinality(UpTo(chs, sign, i))
          \/ Cardinality(UpTo(chs, sign, i)) < Cardinality(UpTo(chs, sign, j))
      BY <2>2, <3>1, UpToGrows
    <3>3. Cardinality(UpTo(chs, sign, j)) \in Int /\ Cardinality(UpTo(chs, sign, i)) \in Int
      BY <1>1, <1>4
    <3> QED
      BY <3>2, <3>3
  <2> HIDE DEF place
  <2> QED
    BY <2>1, <2>2 DEF Injection, IsInjective
<1>6. place \in Surjection(D, D)
  <2> HIDE DEF place, D
  <2> QED
    BY <1>2, <1>5, FS_Injection
<1>7. \A n \in D : \E i \in D : place[i] = n
  <2> HIDE DEF place
  <2> QED
    BY <1>6 DEF Surjection
<1>8. \A n \in D : at[n] \in D /\ place[at[n]] = n
  <2> HIDE DEF place
  <2> QED
    BY <1>7
<1>9. at \in [D -> D]
  <2>1. at = [n \in D |-> at[n]]
    OBVIOUS
  <2> HIDE DEF at
  <2> QED
    BY <1>8, <2>1
<1>10. \A n \in D : Cardinality(UpTo(chs, sign, at[n])) = n
  <2>1. \A i \in D : place[i] = Cardinality(UpTo(chs, sign, i))
    OBVIOUS
  <2> HIDE DEF at, place
  <2> QED
    BY <1>8, <2>1
<1>11. Sorted(chs, sign) = [n \in D |-> chs[CHOOSE i \in D : place[i] = n]]
  BY DEF Sorted, UpTo
<1>12. Sorted(chs, sign) = [n \in D |-> chs[at[n]]]
  <2>1. \A n \in D : at[n] = CHOOSE i \in D : place[i] = n
    OBVIOUS
  <2> HIDE DEF at, place
  <2> QED
    BY <1>11, <2>1
<1> HIDE DEF at
<1> QED
  BY <1>9, <1>10, <1>12

LEMMA SortedOrders ==
    ASSUME NEW chs \in Seq(Channel), NEW sign \in {1, -1},
           NEW s, s = Sorted(chs, sign)
    PROVE  /\ s \in Seq(Channel) /\ Len(s) = Len(chs)
           /\ \A m, n \in DOMAIN s : m < n => sign * s[m].spendable <= sign * s[n].spendable
<1>1. PICK at \in [DOMAIN chs -> DOMAIN chs] :
         /\ s = [n \in DOMAIN chs |-> chs[at[n]]]
         /\ \A n \in DOMAIN chs : Cardinality(UpTo(chs, sign, at[n])) = n
  BY SortedIs
<1>2. DOMAIN chs = 1..Len(chs) /\ Len(chs) \in Nat
  OBVIOUS
<1>3. \A n \in DOMAIN chs : at[n] \in DOMAIN chs /\ s[n] = chs[at[n]] /\ s[n] \in Channel
  BY <1>1
<1>4. s \in [1..Len(chs) -> Channel]
  BY <1>1, <1>2, <1>3
<1>5. s \in Seq(Channel) /\ Len(s) = Len(chs) /\ DOMAIN s = DOMAIN chs
  BY <1>2, <1>4
<1>6. ASSUME NEW m \in DOMAIN chs, NEW n \in DOMAIN chs, m < n
      PROVE  sign * s[m].spendable <= sign * s[n].spendable
  <2>1. PICK i \in DOMAIN chs : i = at[m]
    BY <1>3
  <2>2. PICK j \in DOMAIN chs : j = at[n]
    BY <1>3
  <2>3. Cardinality(UpTo(chs, sign, i)) = m /\ Cardinality(UpTo(chs, sign, j)) = n
    BY <1>1, <2>1, <2>2
  <2>4. m \in Int /\ n \in Int /\ i # j
    BY <1>2, <1>6, <2>3
  <2>5. j \notin UpTo(chs, sign, i)
    BY <1>6, <2>3, <2>4, UpToGrows
  <2>6. chs[i] \in Channel /\ chs[j] \in Channel
    BY <1>2
  <2>7. ~Before(chs[j], chs[i], sign)
    BY <2>5 DEF UpTo
  <2>8. sign * chs[i].spendable <= sign * chs[j].spendable
    BY <2>6, <2>7, BeforeOrders
  <2> QED
    BY <1>3, <2>1, <2>2, <2>8
<1> QED
  BY <1>5, <1>6

-----------------------------------------------------------------------------
(* find_allocation                                                         *)

LEMMA EasyIsEasy ==
    ASSUME NEW chs \in Seq(Channel)
    PROVE  FindsEasy(chs, Len(chs), TryAllocate(chs))
<1> DEFINE N == Len(chs)
           Good(n, rest) == FindsEasy(chs, n, rest) /\ FindsNothing(rest)
           good == [n \in 0..N |-> {rest \in Attempts : Good(n, rest)}]
<1>1. N \in Nat /\ 0 \in 0..N /\ N \in 0..N
  OBVIOUS
<1>2. Level(chs, 0, {}) \in good[0]
  <2> DEFINE level == Level(chs, 0, {})
  <2>1. /\ level \in Attempts
        /\ \A acc \in Vector :
             /\ level[0][acc] = [result |-> Success, acc |-> acc]
             /\ \A t \in Nat \ {0} : level[t][acc] = [result |-> Impossible, acc |-> acc]
    BY <1>1, LevelIsAttempts
  <2> HIDE DEF level
  <2>2. Behind(chs, 0) = 0
    BY BehindIs
  <2>3. \A t \in Easy(chs, 0) : t = 0
    <3>1. ~ \E j \in N + 1 - 0 .. N : TRUE
      BY <1>1
    <3> QED
      BY <2>2, <3>1 DEF Easy
  <2>4. ASSUME NEW acc \in Vector
        PROVE  level[0][acc].result = Success
    <3>1. level[0][acc] = [result |-> Success, acc |-> acc]
      BY <2>1
    <3> QED
      BY <3>1
  <2>5. Good(0, level)
    <3>1. FindsNothing(level)
      BY <2>1 DEF FindsNothing
    <3>2. \A t \in Easy(chs, 0), acc \in Vector : level[t][acc].result = Success
      BY <2>3, <2>4
    <3>3. FindsEasy(chs, 0, level)
      BY <2>2, <3>2 DEF FindsEasy
    <3> QED
      BY <3>1, <3>3
  <2> HIDE DEF Good
  <2> QED
    BY <1>1, <2>1, <2>5 DEF level
<1>3. \A n \in 1..N : \A rest \in good[n - 1] :
         rest \in Attempts => Level(chs, n, rest) \in good[n]
  <2> SUFFICES ASSUME NEW n \in 1..N, NEW rest \in good[n - 1]
               PROVE  Level(chs, n, rest) \in good[n]
    OBVIOUS
  <2>1. n - 1 \in 0..N /\ n \in 0..N
    BY <1>1
  <2>2. rest \in Attempts /\ Good(n - 1, rest)
    <3> HIDE DEF Good
    <3> QED
      BY <2>1
  <2>3. /\ Level(chs, n, rest) \in Attempts
        /\ \A acc \in Vector : Level(chs, n, rest)[0][acc] = [result |-> Success, acc |-> acc]
    BY <2>2, LevelSearches
  <2>4. FindsEasy(chs, n, Level(chs, n, rest))
    <3>1. \A a \in Vector : rest[0][a] = [result |-> Success, acc |-> a]
      BY <2>2 DEF FindsNothing
    <3> QED
      BY <2>2, <3>1, LevelFindsEasy
  <2>5. Good(n, Level(chs, n, rest))
    BY <2>3, <2>4 DEF FindsNothing
  <2> HIDE DEF Good
  <2> QED
    BY <2>1, <2>3, <2>5
<1>4. TryAllocate(chs) \in good[N]
  <2> HIDE DEF good
  <2> QED
    BY <1>2, <1>3, LevelByLevel
<1> QED
  BY <1>1, <1>4

LEMMA WhatIsAllocated ==
    ASSUME NEW chs \in Seq(Channel), NEW t \in Nat, NEW a, a = FindAllocation(chs, t)
    PROVE  /\ a \in Seq(Fitting(chs))
           /\ a = <<>> => t = 0 \/ TryAllocate(chs)[t][<<>>].result # Success
           /\ a # <<>> => /\ TryAllocate(chs)[t][<<>>].result = Success
                          /\ a = TryAllocate(chs)[t][<<>>].acc
<1>1. PICK found : found = TryAllocate(chs)[t][<<>>]
  OBVIOUS
<1>2. a = IF t > 0 /\ found.result = Success THEN found.acc ELSE <<>>
  BY <1>1 DEF FindAllocation
<1>3. <<>> \in Seq(Fitting(chs))
  OBVIOUS
<1>4. found.acc \in Seq(Fitting(chs))
  BY <1>1, <1>3, SearchKeeps DEF KeepsFitting
<1>5. t # 0 /\ found.result = Success => found.acc # <<>>
  BY <1>1, NilIsVector, SearchKeeps DEF FindsSome
<1> QED
  BY <1>1, <1>2, <1>3, <1>4, <1>5

\* In ascending order the parts come to the amount, on as many channels.
LEMMA AscendingAdds ==
    ASSUME NEW chs \in Seq(Channel), Rising(chs), NEW t \in Nat,
           TryAllocate(chs)[t][<<>>].result = Success
    PROVE  /\ SumOf(Msats(TryAllocate(chs)[t][<<>>].acc)) = t
           /\ Rises(TryAllocate(chs)[t][<<>>].acc, Len(chs))
<1>1. /\ SumOf(Msats(TryAllocate(chs)[t][<<>>].acc)) = SumOf(Msats(<<>>)) + t
      /\ Rises(<<>>, 0) => Rises(TryAllocate(chs)[t][<<>>].acc, Len(chs))
  BY NilIsVector, RisesTo DEF AddsUp
<1>2. Rises(<<>>, 0)
  BY DEF Rises
<1>3. SumOf(Msats(<<>>)) = 0
  <2>1. Msats(<<>>) = <<>>
    BY DEF Msats
  <2>2. <<>> \in Seq(Int) /\ Len(<<>>) = 0
    OBVIOUS
  <2> QED
    BY <2>1, <2>2, SumIs, SumsAre
<1> QED
  BY <1>1, <1>2, <1>3

LEMMA RisingAreDistinct ==
    ASSUME NEW chs, NEW a \in Seq(Fitting(chs)), NEW m, Rises(a, m)
    PROVE  Cardinality({part.channel : part \in ToSet(a)}) = Len(a)
<1> DEFINE F == Fitting(chs)
           C == {part.channel : part \in ToSet(a)}
           f == [k \in 1..Len(a) |-> a[k].channel]
<1> HIDE DEF F
<1>1. Len(a) \in Nat /\ DOMAIN a = 1..Len(a)
  BY DEF F
<1>2. C = {a[k].channel : k \in 1..Len(a)}
  BY <1>1 DEF ToSet
<1> HIDE DEF C
<1>3. f \in [1..Len(a) -> C]
  BY <1>2
<1>4. \A j, k \in 1..Len(a) : f[j] = f[k] => j = k
  <2>1. \A k \in 1..Len(a) : a[k].channel \in Int
    <3>1. \A k \in 1..Len(a) : a[k] \in F
      BY DEF F
    <3> QED
      BY <3>1 DEF F, Fitting
  <2>2. \A j, k \in 1..Len(a) : j < k => a[j].channel < a[k].channel
    BY <1>1 DEF Rises
  <2>3. \A j, k \in 1..Len(a) : a[j].channel = a[k].channel => j = k
    BY <1>1, <2>1, <2>2
  <2> QED
    BY <2>3
<1>5. \A c \in C : \E k \in 1..Len(a) : f[k] = c
  BY <1>2
<1> HIDE DEF f
<1>6. f \in Bijection(1..Len(a), C)
  BY <1>3, <1>4, <1>5 DEF Bijection, Injection, IsInjective, Surjection
<1>7. IsFiniteSet(1..Len(a)) /\ Cardinality(1..Len(a)) = Len(a)
  BY <1>1, FS_Interval
<1>8. Cardinality(C) = Cardinality(1..Len(a))
  BY <1>6, <1>7, FS_Bijection DEF ExistsBijection
<1> QED
  BY <1>7, <1>8 DEF C

-----------------------------------------------------------------------------
(* The strategies                                                          *)

Falling(chs) == \A i, j \in DOMAIN chs : i < j => chs[i].spendable >= chs[j].spendable

(***************************************************************************)
(* An allocation fits the channels it is on; the one found in ascending    *)
(* order comes to the amount; and none is found in descending order either *)
(* before the payment is given up.                                         *)
(***************************************************************************)
AllocationInv ==
    /\ channels \in Seq(Channel) /\ Len(channels) <= MaxChannels
    /\ amount \in 0..(MaxChannels * MaxMsat)
    /\ pc \in {"start", "descend", "ascending", "descending", "insufficient"}
    /\ alloc \in Seq(Fitting(channels))
    /\ pc = "ascending" => SumOf(Msats(alloc)) = amount /\ Rises(alloc, Len(channels))
    /\ pc = "insufficient" =>
         /\ Falling(channels)
         /\ amount = 0 \/ TryAllocate(channels)[amount][<<>>].result # Success

LEMMA AllocationStarts == Init => AllocationInv
<1> SUFFICES ASSUME Init
             PROVE  AllocationInv
  OBVIOUS
<1>1. PICK m \in 0..MaxChannels : channels \in [1..m -> Channel]
  BY DEF Init, BoundedSeq, SeqOf
<1>2. channels \in Seq(Channel) /\ Len(channels) <= MaxChannels
  <2>1. m \in Nat /\ m <= MaxChannels
    BY <1>1, AllocationConstants
  <2> QED
    BY <1>1, <2>1
<1>3. alloc \in Seq(Fitting(channels))
  BY DEF Init
<1> QED
  BY <1>2, <1>3 DEF Init, AllocationInv

LEMMA AllocationSteps == AllocationInv /\ [Next]_vars => AllocationInv'
<1> SUFFICES ASSUME AllocationInv, [Next]_vars
             PROVE  AllocationInv'
  OBVIOUS
<1>1. PICK t \in Nat : t = amount
  <2>1. amount \in Nat
    BY AllocationConstants DEF AllocationInv
  <2> QED
    BY <2>1
<1>2. PICK old \in Seq(Channel) : old = channels
  BY DEF AllocationInv
<1>3. PICK new : new = channels'
  OBVIOUS
<1>4. PICK a : a = alloc'
  OBVIOUS
<1>5. CASE TryAscending
  <2>1. /\ new = Sorted(old, 1) /\ a = FindAllocation(new, t)
        /\ pc' = (IF a # <<>> THEN "ascending" ELSE "descend") /\ amount' = amount
    BY <1>1, <1>2, <1>3, <1>4, <1>5 DEF TryAscending, Ascending
  <2>2. /\ new \in Seq(Channel) /\ Len(new) = Len(old)
        /\ \A i, j \in DOMAIN new : i < j => 1 * new[i].spendable <= 1 * new[j].spendable
    BY <2>1, SortedOrders
  <2>3. Rising(new)
    <3>1. \A i \in DOMAIN new : new[i].spendable \in Nat
      BY <2>2, ChannelBounds
    <3> QED
      BY <2>2, <3>1 DEF Rising
  <2>4. a \in Seq(Fitting(new))
    BY <2>1, <2>2, WhatIsAllocated
  <2>5. a # <<>> => SumOf(Msats(a)) = t /\ Rises(a, Len(new))
    <3> SUFFICES ASSUME a # <<>>
                 PROVE  SumOf(Msats(a)) = t /\ Rises(a, Len(new))
      OBVIOUS
    <3>1. /\ TryAllocate(new)[t][<<>>].result = Success
          /\ a = TryAllocate(new)[t][<<>>].acc
      BY <2>1, <2>2, WhatIsAllocated
    <3>2. t \in Nat
      OBVIOUS
    <3> QED
      BY <2>2, <2>3, <3>1, <3>2, AscendingAdds
  <2> QED
    BY <1>1, <1>2, <1>3, <1>4, <2>1, <2>2, <2>4, <2>5 DEF AllocationInv
<1>6. CASE TryDescending
  <2>1. /\ new = Sorted(old, -1) /\ a = FindAllocation(new, t)
        /\ pc' = (IF a # <<>> THEN "descending" ELSE "insufficient") /\ amount' = amount
    BY <1>1, <1>2, <1>3, <1>4, <1>6 DEF TryDescending, Descending
  <2>2. /\ new \in Seq(Channel) /\ Len(new) = Len(old)
        /\ \A i, j \in DOMAIN new : i < j => (-1) * new[i].spendable <= (-1) * new[j].spendable
    BY <2>1, SortedOrders
  <2>3. Falling(new)
    <3>1. \A i \in DOMAIN new : new[i].spendable \in Nat
      BY <2>2, ChannelBounds
    <3> QED
      BY <2>2, <3>1 DEF Falling
  <2>4. a \in Seq(Fitting(new))
    BY <2>1, <2>2, WhatIsAllocated
  <2>5. a = <<>> => t = 0 \/ TryAllocate(new)[t][<<>>].result # Success
    BY <2>1, <2>2, WhatIsAllocated
  <2> QED
    BY <1>1, <1>2, <1>3, <1>4, <2>1, <2>2, <2>3, <2>4, <2>5 DEF AllocationInv
<1>7. CASE UNCHANGED vars
  BY <1>7 DEF AllocationInv, vars
<1> QED
  BY <1>5, <1>6, <1>7 DEF Next

LEMMA AllocationInvHolds == Spec => []AllocationInv
BY AllocationStarts, AllocationSteps, PTL DEF Spec

(***************************************************************************)
(* Type correctness: whatever the search pushes, pops and adjusts, what it *)
(* returns names channels there are and amounts within bounds.             *)
(***************************************************************************)
THEOREM AllocationTypeCorrect == Spec => []TypeOK
<1>1. AllocationInv => TypeOK
  <2> SUFFICES ASSUME AllocationInv
               PROVE  TypeOK
    OBVIOUS
  <2>1. PICK chs \in Seq(Channel) : chs = channels /\ Len(chs) <= MaxChannels
    BY DEF AllocationInv
  <2>2. PICK F : F = Fitting(chs)
    OBVIOUS
  <2>3. F \subseteq Contribution
    <3> SUFFICES ASSUME NEW p \in F
                 PROVE  p \in Contribution
      OBVIOUS
    <3>1. /\ p \in [channel : Int, msat : Int] /\ p.channel \in 1..Len(chs)
          /\ p.msat \in chs[p.channel].min .. chs[p.channel].spendable
      BY <2>1, <2>2 DEF Fitting
    <3>2. PICK c \in Channel : c = chs[p.channel]
      BY <3>1
    <3>3. c.min \in Nat /\ c.spendable \in Nat /\ c.spendable <= MaxMsat
      BY AllocationConstants DEF Channel
    <3>4. p.channel \in 1..MaxChannels /\ p.msat \in 0..MaxMsat
      BY <2>1, <3>1, <3>2, <3>3, AllocationConstants
    <3> QED
      BY <3>1, <3>4 DEF Contribution
  <2>4. alloc \in Seq(F)
    BY <2>1, <2>2 DEF AllocationInv
  <2>5. alloc \in Seq(Contribution)
    BY <2>3, <2>4, SeqMonotonic
  <2> QED
    BY <2>5 DEF AllocationInv, TypeOK
<1> QED
  BY <1>1, AllocationInvHolds, PTL

(***************************************************************************)
(* After any adjustment, in either order, a part is at least the minimum   *)
(* of its channel, and its channel can spend it.                           *)
(***************************************************************************)
THEOREM PartsFit == Spec => []PartsFitChannels
<1>1. AllocationInv => PartsFitChannels
  <2> SUFFICES ASSUME AllocationInv, NEW i \in DOMAIN alloc
               PROVE  alloc[i].msat \in channels[alloc[i].channel].min .. channels[alloc[i].channel].spendable
    BY DEF PartsFitChannels
  <2>1. PICK F : F = Fitting(channels)
    OBVIOUS
  <2>2. alloc[i] \in F
    BY <2>1 DEF AllocationInv
  <2> QED
    BY <2>1, <2>2 DEF Fitting
<1> QED
  BY <1>1, AllocationInvHolds, PTL

(***************************************************************************)
(* What try_allocate finds in ascending order comes to the amount, each    *)
(* part on a channel of its own: no adjustment loses or repeats a part.    *)
(***************************************************************************)
THEOREM AscendingAllocationIsExact == Spec => []AscendingIsExact
<1>1. AllocationInv => AscendingIsExact
  <2> SUFFICES ASSUME AllocationInv, pc = "ascending"
               PROVE  /\ Paid = amount
                      /\ Cardinality({part.channel : part \in ToSet(alloc)}) = Len(alloc)
    BY DEF AscendingIsExact
  <2>1. Paid = SumOf(Msats(alloc))
    BY DEF Paid, Msats
  <2> QED
    BY <2>1, RisingAreDistinct DEF AllocationInv
<1> QED
  BY <1>1, AllocationInvHolds, PTL

(***************************************************************************)
(* When trampoline_pay gives up, in descending order at last, no channel   *)
(* could have carried the amount alone, it is not all they can spend, and  *)
(* if no channel has a minimum it is more than that.                       *)
(***************************************************************************)
THEOREM EasyIsFound == Spec => []EasyAmountsAreFound
<1>1. AllocationInv => EasyAmountsAreFound
  <2> SUFFICES ASSUME AllocationInv, pc = "insufficient", amount # 0
               PROVE  /\ \A i \in DOMAIN channels :
                            amount \notin channels[i].min .. channels[i].spendable
                      /\ amount # SumOf(Funds(channels))
                      /\ (\A i \in DOMAIN channels : channels[i].min = 0)
                            => amount > SumOf(Funds(channels))
    BY DEF EasyAmountsAreFound, Funds, AllocationInv
  <2>1. PICK t \in Nat : t = amount
    <3>1. amount \in Nat
      BY AllocationConstants DEF AllocationInv
    <3> QED
      BY <3>1
  <2>2. PICK chs \in Seq(Channel) : chs = channels
    BY DEF AllocationInv
  <2>3. TryAllocate(chs)[t][<<>>].result # Success /\ Falling(chs)
    BY <2>1, <2>2 DEF AllocationInv
  <2>4. t \notin Easy(chs, Len(chs)) /\ Behind(chs, Len(chs)) \in Nat
    BY <2>3, EasyIsEasy, NilIsVector DEF FindsEasy
  <2>5. Behind(chs, Len(chs)) = SumOf(Funds(chs))
    BY BehindIs
  <2>6. t # SumOf(Funds(chs))
    BY <2>4, <2>5 DEF Easy
  <2>7. (\A i \in DOMAIN chs : chs[i].min = 0) => t > SumOf(Funds(chs))
    BY <2>4, <2>5 DEF Easy
  <2>8. \A i \in DOMAIN chs : t \notin chs[i].min .. chs[i].spendable
    <3>1. Len(chs) \in Nat /\ DOMAIN chs = 1..Len(chs) /\ Len(chs) + 1 - Len(chs) = 1
      OBVIOUS
    <3> QED
      BY <2>3, <2>4, <3>1 DEF Easy, Falling
  <2> QED
    BY <2>1, <2>2, <2>6, <2>7, <2>8
<1> QED
  BY <1>1, AllocationInvHolds, PTL

=============================================================================
