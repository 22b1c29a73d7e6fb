-------------------------- MODULE ReceivingProofs --------------------------
(***************************************************************************)
(* Proofs about the events of a node and its invoices, for any number of   *)
(* clients, invoices and parts and any capacity of the channels: a stream  *)
(* has no gaps, payments are published once, for invoices that exist, a    *)
(* TLV stream that is written reads back as it was, and so the hook, when  *)
(* it answers, makes every part that an LSP reduced acceptable.            *)
(***************************************************************************)
EXTENDS Receiving, SequenceTheorems, WellFoundedInduction, TLAPS

-----------------------------------------------------------------------------
(* The events a stream has passed                                          *)

\* Induction on the natural numbers, for a set of those it holds for.
LEMMA NatSetInduction ==
    ASSUME NEW S \in SUBSET Nat, 0 \in S, \A n \in S : n + 1 \in S
    PROVE  S = Nat
<1> SUFFICES ASSUME Nat \ S # {}
             PROVE  FALSE
  OBVIOUS
<1>1. PICK m \in Nat \ S : \A k \in Nat \ S : ~(<<k, m>> \in OpToRel(<, Nat))
  BY NatLessThanWellFounded, WFMin
<1>2. \A k \in Nat \ S : ~(k < m)
  BY <1>1 DEF OpToRel
<1>3. m # 0 /\ m - 1 \in Nat /\ m - 1 \in S
  BY <1>2
<1> QED
  BY <1>3

\* How Passed goes through the events ev, up to the n-th, for a stream of kind k
\* whose receiver started at a.
Goes(ev, k, a, n, f) ==
    f = [m \in 0..n |-> IF m <= a THEN <<>>
                        ELSE IF ev[m].kind = k THEN Append(f[m - 1], ev[m])
                        ELSE f[m - 1]]

\* It can: there is such a function.
LEMMA GoesExists ==
    ASSUME NEW ev, NEW k, NEW a \in Nat, NEW n \in Nat
    PROVE  \E f : Goes(ev, k, a, n, f)
<1> DEFINE Body(f, m) == IF m <= a THEN <<>>
                         ELSE IF ev[m].kind = k THEN Append(f[m - 1], ev[m])
                         ELSE f[m - 1]
           S == {i \in Nat : \E f : f = [m \in 0..i |-> Body(f, m)]}
<1>1. 0 \in S
  <2> DEFINE f == [m \in 0..0 |-> <<>>]
  <2>1. \A m \in 0..0 : Body(f, m) = <<>>
    OBVIOUS
  <2>2. f = [m \in 0..0 |-> Body(f, m)]
    <3> HIDE DEF Body
    <3> QED
      BY <2>1
  <2> QED
    BY <2>2
<1>2. ASSUME NEW i \in S
      PROVE  i + 1 \in S
  <2>1. PICK f : f = [m \in 0..i |-> Body(f, m)]
    OBVIOUS
  <2> DEFINE g == [m \in 0..i + 1 |-> Body(f, m)]
  <2>2. \A m \in 0..i : g[m] = f[m]
    <3> HIDE DEF Body
    <3> QED
      BY <2>1
  <2>3. \A m \in 0..i + 1 : Body(f, m) = Body(g, m)
    <3> HIDE DEF g
    <3> QED
      BY <2>2
  <2>4. g = [m \in 0..i + 1 |-> Body(g, m)]
    <3>1. g = [m \in 0..i + 1 |-> Body(f, m)]
      OBVIOUS
    <3> HIDE DEF g, Body
    <3> QED
      BY <2>3, <3>1
  <2> HIDE DEF g, Body
  <2> QED
    BY <2>4
<1>3. S = Nat
  <2> HIDE DEF S
  <2>1. S \in SUBSET Nat
    BY DEF S
  <2> QED
    BY <1>1, <1>2, <2>1, NatSetInduction
<1>4. n \in S
  BY <1>3
<1> QED
  BY <1>4 DEF Goes

\* The same, position by position.
GoesOn(ev, k, a, n, f) ==
    /\ \A m \in 0..n : m <= a => f[m] = <<>>
    /\ \A m \in 0..n - 1 : m >= a =>
         f[m + 1] = IF ev[m + 1].kind = k THEN Append(f[m], ev[m + 1]) ELSE f[m]

LEMMA GoesTo ==
    ASSUME NEW ev, NEW k, NEW a \in Nat, NEW n \in Nat, NEW f, Goes(ev, k, a, n, f)
    PROVE  GoesOn(ev, k, a, n, f)
<1> DEFINE Body(i) == IF i <= a THEN <<>>
                      ELSE IF ev[i].kind = k THEN Append(f[i - 1], ev[i])
                      ELSE f[i - 1]
<1>1. f = [i \in 0..n |-> Body(i)]
  BY DEF Goes
<1>2. \A m \in 0..n : f[m] = Body(m)
  <2> HIDE DEF Body
  <2> QED
    BY <1>1
<1>3. \A m \in 0..n : m <= a => f[m] = <<>>
  BY <1>2
<1>4. ASSUME NEW m \in 0..n - 1, m >= a
      PROVE  f[m + 1] = IF ev[m + 1].kind = k THEN Append(f[m], ev[m + 1]) ELSE f[m]
  <2>1. m + 1 \in 0..n /\ ~(m + 1 <= a) /\ (m + 1) - 1 = m
    BY <1>4
  <2>2. f[m + 1] = Body(m + 1)
    BY <1>2, <2>1
  <2> QED
    BY <2>1, <2>2
<1> QED
  BY <1>3, <1>4 DEF GoesOn

\* What is published later does not change it.
LEMMA GoesAlike ==
    ASSUME NEW ev, NEW ew, NEW k, NEW a \in Nat,
           NEW n \in Nat, NEW f, Goes(ev, k, a, n, f),
           NEW m \in Nat, NEW g, Goes(ew, k, a, m, g),
           n <= m, \A i \in 1..n : ev[i] = ew[i]
    PROVE  \A i \in 0..n : f[i] = g[i]
<1>1. GoesOn(ev, k, a, n, f)
  BY GoesTo
<1>2. GoesOn(ew, k, a, m, g)
  BY GoesTo
<1> DEFINE S == {i \in Nat : i <= n => f[i] = g[i]}
<1>3. 0 \in S
  BY <1>1, <1>2 DEF GoesOn
<1>4. ASSUME NEW i \in S
      PROVE  i + 1 \in S
  <2> SUFFICES ASSUME i + 1 <= n
               PROVE  f[i + 1] = g[i + 1]
    OBVIOUS
  <2>1. i \in 0..n - 1 /\ i \in 0..m - 1 /\ f[i] = g[i]
    OBVIOUS
  <2>2. CASE i >= a
    <3>1. f[i + 1] = IF ev[i + 1].kind = k THEN Append(f[i], ev[i + 1]) ELSE f[i]
      BY <1>1, <2>1, <2>2 DEF GoesOn
    <3>2. g[i + 1] = IF ew[i + 1].kind = k THEN Append(g[i], ew[i + 1]) ELSE g[i]
      BY <1>2, <2>1, <2>2 DEF GoesOn
    <3>3. ev[i + 1] = ew[i + 1]
      BY <2>1
    <3> QED
      BY <2>1, <3>1, <3>2, <3>3
  <2>3. CASE i < a
    <3>1. i + 1 \in 0..n /\ i + 1 \in 0..m /\ i + 1 <= a
      BY <2>1, <2>3
    <3> QED
      BY <1>1, <1>2, <3>1 DEF GoesOn
  <2> QED
    BY <2>1, <2>2, <2>3
<1>5. S = Nat
  <2> HIDE DEF S
  <2>1. S \in SUBSET Nat
    BY DEF S
  <2> QED
    BY <1>3, <1>4, <2>1, NatSetInduction
<1> QED
  BY <1>5

PassedOf(ev, k, a, n) == CHOOSE f : Goes(ev, k, a, n, f)

LEMMA PassedIs == ASSUME NEW s PROVE Passed(s) = PassedOf(events, s.kind, s.start, Len(events))[s.next]
  BY DEF Passed, PassedOf, Goes

LEMMA PassedOfGoes ==
    ASSUME NEW ev, NEW k, NEW a \in Nat, NEW n \in Nat
    PROVE  Goes(ev, k, a, n, PassedOf(ev, k, a, n))
  BY GoesExists DEF PassedOf

\* A receiver that has not moved has passed nothing; one that moves on passes
\* the next event, if it is of its kind.
LEMMA PassedGrows ==
    ASSUME Len(events) \in Nat,
           NEW s, s.start \in Nat, s.next \in s.start..Len(events)
    PROVE  /\ s.next = s.start => Passed(s) = <<>>
           /\ \A t : /\ t.kind = s.kind /\ t.start = s.start /\ t.next = s.next + 1
                     /\ s.next < Len(events)
                     => Passed(t) = IF events[s.next + 1].kind = s.kind
                                    THEN Append(Passed(s), events[s.next + 1]) ELSE Passed(s)
<1> DEFINE f == PassedOf(events, s.kind, s.start, Len(events))
<1>1. GoesOn(events, s.kind, s.start, Len(events), f)
  BY PassedOfGoes, GoesTo
<1>2. Passed(s) = f[s.next]
  BY PassedIs
<1>3. \A t : t.kind = s.kind /\ t.start = s.start => Passed(t) = f[t.next]
  BY PassedIs
<1> HIDE DEF f
<1>4. s.next = s.start => Passed(s) = <<>>
  BY <1>1, <1>2 DEF GoesOn
<1>5. ASSUME NEW t, t.kind = s.kind, t.start = s.start, t.next = s.next + 1, s.next < Len(events)
      PROVE  Passed(t) = IF events[s.next + 1].kind = s.kind
                         THEN Append(Passed(s), events[s.next + 1]) ELSE Passed(s)
  <2>1. s.next \in 0..Len(events) - 1 /\ s.next >= s.start
    BY <1>5
  <2>2. f[s.next + 1] = IF events[s.next + 1].kind = s.kind
                        THEN Append(f[s.next], events[s.next + 1]) ELSE f[s.next]
    BY <1>1, <2>1 DEF GoesOn
  <2>3. Passed(t) = f[s.next + 1]
    BY <1>3, <1>5
  <2> QED
    BY <1>2, <2>2, <2>3
<1> QED
  BY <1>4, <1>5

\* ew goes on where ev ends.
Continues(ev, ew) ==
    /\ Len(ev) \in Nat /\ Len(ew) \in Nat /\ Len(ev) <= Len(ew)
    /\ \A i \in 1..Len(ev) : ev[i] = ew[i]

LEMMA PassedOfAlike ==
    ASSUME NEW ev, NEW ew, NEW k, NEW a \in Nat, NEW n \in Nat, NEW m \in Nat, n <= m,
           \A i \in 1..n : ev[i] = ew[i]
    PROVE  \A i \in 0..n : PassedOf(ev, k, a, n)[i] = PassedOf(ew, k, a, m)[i]
<1> DEFINE f == PassedOf(ev, k, a, n)
           g == PassedOf(ew, k, a, m)
<1>1. Goes(ev, k, a, n, f)
  BY PassedOfGoes
<1>2. Goes(ew, k, a, m, g)
  BY PassedOfGoes
<1> HIDE DEF f, g
<1>3. \A i \in 0..n : f[i] = g[i]
  BY <1>1, <1>2, GoesAlike
<1> QED
  BY <1>3 DEF f, g

\* Publishing changes nothing of what a stream has passed.
LEMMA PassedStays ==
    ASSUME Continues(events, events'),
           NEW CONSTANT s, s.start \in Nat, s.next \in 0..Len(events)
    PROVE  Passed(s)' = Passed(s)
<1>1. Passed(s)' = PassedOf(events', s.kind, s.start, Len(events'))[s.next]
  BY DEF Passed, PassedOf, Goes
<1>2. Passed(s) = PassedOf(events, s.kind, s.start, Len(events))[s.next]
  BY PassedIs
<1>3. PICK ev, ew : ev = events /\ ew = events'
  OBVIOUS
<1>4. PICK n \in Nat : n = Len(ev)
  BY <1>3 DEF Continues
<1>5. PICK m \in Nat : m = Len(ew)
  BY <1>3 DEF Continues
<1>6. n <= m /\ \A i \in 1..n : ev[i] = ew[i]
  BY <1>3, <1>4, <1>5 DEF Continues
<1>7. PICK a \in Nat : a = s.start
  OBVIOUS
<1>8. PICK k : k = s.kind
  OBVIOUS
<1>9. \A i \in 0..n : PassedOf(ev, k, a, n)[i] = PassedOf(ew, k, a, m)[i]
  BY <1>6, PassedOfAlike
<1> QED
  BY <1>1, <1>2, <1>3, <1>4, <1>5, <1>7, <1>8, <1>9

-----------------------------------------------------------------------------
(* The streams                                                             *)

Event == [kind : {"payment", "custommsg", "call"}, of : Labels \cup {None}]

Stream == [kind : {"payment", "custommsg", None}, pc : {"none", "receive", "send", "done"},
           start : Nat, next : Nat, sending : Seq(Event), slot : Seq(Event),
           got : Seq(Event), left : BOOLEAN]

StreamOK(s) ==
    /\ s.start <= s.next /\ s.next <= Len(events)
    /\ Len(s.slot) <= 1
    /\ s.sending # <<>> <=> s.pc = "send"
    /\ Len(s.sending) <= 1

\* GapFree, of one stream.
NoGap(s) ==
    ~s.left => /\ s.got \o s.slot \o s.sending = Passed(s)
               /\ s.pc = "done" => Len(events) - s.next > Capacity

EventsInv ==
    /\ events \in Seq(Event) /\ Len(events) <= MaxEvents
    /\ rpcCalls \in 0..RpcCapacity
    /\ listener \in [Clients -> Stream]
    /\ \A c \in Clients : StreamOK(listener[c]) /\ NoGap(listener[c])

LEMMA EventsInvMeans ==
    ASSUME EventsInv
    PROVE  EventsTypeOK /\ GapFree
<1>1. GapFree
  BY DEF EventsInv, GapFree, NoGap, Behind
<1>2. \A e \in ToSet(events) : e.kind \in {"payment", "custommsg", "call"}
  <2> SUFFICES ASSUME NEW e \in ToSet(events)
               PROVE  e.kind \in {"payment", "custommsg", "call"}
    OBVIOUS
  <2>1. PICK i \in DOMAIN events : e = events[i]
    BY DEF ToSet
  <2>2. e \in Event
    BY <2>1 DEF EventsInv
  <2> QED
    BY <2>2 DEF Event
<1>3. ASSUME NEW c \in Clients
      PROVE  /\ listener[c].pc \in {"none", "receive", "send", "done"}
             /\ 0 <= listener[c].start /\ listener[c].start <= listener[c].next
             /\ listener[c].next <= Len(events)
             /\ Len(listener[c].slot) <= 1
             /\ Len(listener[c].sending) = (IF listener[c].pc = "send" THEN 1 ELSE 0)
  <2>1. listener[c] \in Stream /\ StreamOK(listener[c])
    BY DEF EventsInv
  <2>2. listener[c].sending \in Seq(Event)
    BY <2>1 DEF Stream
  <2>3. Len(listener[c].sending) = (IF listener[c].pc = "send" THEN 1 ELSE 0)
    BY <2>1, <2>2 DEF StreamOK
  <2> QED
    BY <2>1, <2>3 DEF Stream, StreamOK
<1> QED
  BY <1>1, <1>2, <1>3 DEF EventsInv, EventsTypeOK

\* Publishing leaves no gap: no stream has passed the event yet.
LEMMA PublishKeeps ==
    ASSUME EventsInv, NEW e \in Event, Publish(e), rpcCalls' \in 0..RpcCapacity,
           UNCHANGED listener
    PROVE  EventsInv'
<1>1. /\ events \in Seq(Event) /\ Len(events) < MaxEvents
      /\ events' = Append(events, e) /\ MaxEvents \in Nat
  BY EventsConstants DEF EventsInv, Publish
<1>2. events' \in Seq(Event) /\ Len(events') = Len(events) + 1 /\ Len(events) \in Nat
      /\ \A i \in 1..Len(events) : events'[i] = events[i]
  BY <1>1
<1>3. Continues(events, events')
  BY <1>2 DEF Continues
<1>4. ASSUME NEW CONSTANT c \in Clients
      PROVE  StreamOK(listener[c])' /\ NoGap(listener[c])'
  <2>1. PICK s : s = listener[c]
    OBVIOUS
  <2>2. s \in Stream /\ StreamOK(s) /\ NoGap(s) /\ listener'[c] = s
    BY <2>1 DEF EventsInv
  <2>3. s.start \in Nat /\ s.next \in Nat /\ s.next \in 0..Len(events)
    BY <1>2, <2>2 DEF Stream, StreamOK
  <2>4. Passed(s)' = Passed(s)
    BY <1>3, <2>3, PassedStays
  <2>5. StreamOK(s)'
    BY <1>2, <2>2, <2>3 DEF StreamOK
  <2>6. Len(events) - s.next > Capacity => Len(events') - s.next > Capacity
    BY <1>2, <2>3, EventsConstants
  <2>7. NoGap(s)'
    BY <2>2, <2>4, <2>6 DEF NoGap
  <2> QED
    BY <2>2, <2>5, <2>7
<1>5. \A c \in Clients : StreamOK(listener[c])' /\ NoGap(listener[c])'
  BY <1>4
<1> QED
  BY <1>1, <1>2, <1>5 DEF EventsInv

\* A step of one stream.
LEMMA StreamKeeps ==
    ASSUME EventsInv, UNCHANGED <<events, rpcCalls>>, NEW CONSTANT c \in Clients,
           NEW CONSTANT t \in Stream, StreamOK(t), NoGap(t),
           listener' = [listener EXCEPT ![c] = t]
    PROVE  EventsInv'
<1>1. listener' \in [Clients -> Stream]
  BY DEF EventsInv
<1>2. ASSUME NEW CONSTANT d \in Clients
      PROVE  StreamOK(listener[d])' /\ NoGap(listener[d])'
  <2>1. PICK s : s = listener'[d]
    OBVIOUS
  <2>2. StreamOK(s) /\ NoGap(s)
    BY <2>1 DEF EventsInv
  <2>3. Passed(s)' = Passed(s)
    BY DEF Passed
  <2>4. StreamOK(s)' /\ NoGap(s)'
    BY <2>2, <2>3 DEF StreamOK, NoGap
  <2> QED
    BY <2>1, <2>4
<1>3. \A d \in Clients : StreamOK(listener[d])' /\ NoGap(listener[d])'
  BY <1>2
<1> QED
  BY <1>1, <1>3 DEF EventsInv

LEMMA SubscribeKeeps ==
    ASSUME EventsInv, NEW CONSTANT c \in Clients, NEW CONSTANT kind \in {"payment", "custommsg"},
           Subscribe(c, kind)
    PROVE  EventsInv'
<1> DEFINE t == [NoStream EXCEPT !.kind = kind, !.pc = "receive",
                     !.start = Len(events), !.next = Len(events)]
<1>1. Len(events) \in Nat
  BY DEF EventsInv
<1>2. /\ t.kind = kind /\ t.pc = "receive" /\ t.start = Len(events) /\ t.next = Len(events)
      /\ t.sending = <<>> /\ t.slot = <<>> /\ t.got = <<>> /\ t.left = FALSE
  BY DEF NoStream
<1>3. t \in Stream
  <2>1. <<>> \in Seq(Event)
    OBVIOUS
  <2>2. NoStream \in Stream
    BY <2>1 DEF NoStream, Stream
  <2> QED
    BY <1>1, <2>2 DEF Stream
<1>4. listener' = [listener EXCEPT ![c] = t] /\ UNCHANGED <<events, rpcCalls>>
  BY DEF Subscribe
<1> HIDE DEF t
<1>5. Passed(t) = <<>>
  BY <1>1, <1>2, PassedGrows
<1>6. StreamOK(t) /\ NoGap(t)
  BY <1>1, <1>2, <1>5 DEF StreamOK, NoGap
<1>7. PICK u : u = t
  OBVIOUS
<1> QED
  BY <1>3, <1>4, <1>6, <1>7, StreamKeeps

\* An event that is of the stream's kind is sent on, others are passed over, and
\* behind an error nothing is.
LEMMA ReceiveKeeps ==
    ASSUME EventsInv, NEW CONSTANT c \in Clients, Receive(c)
    PROVE  EventsInv'
<1>1. PICK s : s = listener[c]
  OBVIOUS
<1>2. PICK e : e = events[s.next + 1]
  OBVIOUS
<1>3. s \in Stream /\ StreamOK(s) /\ NoGap(s) /\ s.pc = "receive" /\ s.next < Len(events)
  BY <1>1 DEF EventsInv, Receive
<1>4. /\ s.next \in Nat /\ s.start \in Nat /\ Len(events) \in Nat
      /\ s.next \in s.start..Len(events) /\ e \in Event
      /\ s.got \in Seq(Event) /\ s.slot \in Seq(Event) /\ s.sending = <<>>
  BY <1>2, <1>3 DEF Stream, StreamOK, EventsInv
<1>5. UNCHANGED <<events, rpcCalls>>
  BY DEF Receive
<1>6. CASE Behind(c)
  <2>1. PICK t : t = [s EXCEPT !.pc = "done"]
    OBVIOUS
  <2>2. listener' = [listener EXCEPT ![c] = t]
    BY <1>1, <1>6, <2>1 DEF Receive
  <2>3. /\ t \in Stream /\ t.kind = s.kind /\ t.start = s.start /\ t.next = s.next
        /\ t.sending = s.sending /\ t.slot = s.slot /\ t.got = s.got /\ t.left = s.left
        /\ t.pc = "done"
    BY <1>3, <2>1 DEF Stream
  <2>4. Passed(t) = Passed(s)
    BY <2>3 DEF Passed
  <2>5. StreamOK(t) /\ NoGap(t)
    BY <1>1, <1>3, <1>4, <1>6, <2>3, <2>4 DEF StreamOK, NoGap, Behind
  <2> QED
    BY <1>5, <2>2, <2>3, <2>5, StreamKeeps
<1>7. CASE ~Behind(c) /\ e.kind = s.kind
  <2>1. PICK t : t = [s EXCEPT !.next = @ + 1, !.pc = "send", !.sending = <<e>>]
    OBVIOUS
  <2>2. listener' = [listener EXCEPT ![c] = t]
    BY <1>1, <1>2, <1>7, <2>1 DEF Receive
  <2>3. /\ t \in Stream /\ t.kind = s.kind /\ t.start = s.start /\ t.next = s.next + 1
        /\ t.sending = <<e>> /\ t.slot = s.slot /\ t.got = s.got /\ t.left = s.left
        /\ t.pc = "send"
    <3>1. s.next + 1 \in Nat /\ <<e>> \in Seq(Event)
      BY <1>4
    <3> QED
      BY <1>3, <2>1, <3>1 DEF Stream
  <2>4. Passed(t) = Append(Passed(s), e)
    BY <1>2, <1>3, <1>4, <1>7, <2>3, PassedGrows
  <2>5. ~s.left => Passed(s) = s.got \o s.slot
    <3>1. (s.got \o s.slot) \o <<>> = s.got \o s.slot
      BY <1>4
    <3> QED
      BY <1>3, <1>4, <3>1 DEF NoGap
  <2>6. ~t.left => t.got \o t.slot \o t.sending = Passed(t)
    <3>1. (s.got \o s.slot) \o <<e>> = Append(s.got \o s.slot, e)
      <4>1. s.got \o s.slot \in Seq(Event)
        BY <1>4, ConcatProperties
      <4> QED
        BY <1>4, <4>1, AppendIsConcat
    <3> QED
      BY <2>3, <2>4, <2>5, <3>1
  <2>7. StreamOK(t)
    <3>1. <<e>> # <<>> /\ Len(<<e>>) = 1
      OBVIOUS
    <3> QED
      BY <1>3, <1>4, <2>3, <3>1 DEF StreamOK
  <2>8. NoGap(t)
    BY <2>3, <2>6 DEF NoGap
  <2> QED
    BY <1>5, <2>2, <2>3, <2>7, <2>8, StreamKeeps
<1>8. CASE ~Behind(c) /\ e.kind # s.kind
  <2>1. PICK t : t = [s EXCEPT !.next = @ + 1]
    OBVIOUS
  <2>2. listener' = [listener EXCEPT ![c] = t]
    BY <1>1, <1>2, <1>8, <2>1 DEF Receive
  <2>3. /\ t \in Stream /\ t.kind = s.kind /\ t.start = s.start /\ t.next = s.next + 1
        /\ t.sending = s.sending /\ t.slot = s.slot /\ t.got = s.got /\ t.left = s.left
        /\ t.pc = "receive"
    <3>1. s.next + 1 \in Nat
      BY <1>4
    <3> QED
      BY <1>3, <2>1, <3>1 DEF Stream
  <2>4. Passed(t) = Passed(s)
    BY <1>2, <1>3, <1>4, <1>8, <2>3, PassedGrows
  <2>5. StreamOK(t)
    BY <1>3, <1>4, <2>3 DEF StreamOK
  <2>6. NoGap(t)
    BY <1>3, <2>3, <2>4 DEF NoGap
  <2> QED
    BY <1>5, <2>2, <2>3, <2>5, <2>6, StreamKeeps
<1> QED
  BY <1>6, <1>7, <1>8

\* A step that moves events along, from the task into the slot and to the client,
\* or throws them away when the client has left.
LEMMA HandOverKeeps ==
    ASSUME EventsInv, NEW CONSTANT c \in Clients, UNCHANGED <<events, rpcCalls>>,
           NEW CONSTANT t \in Stream, listener' = [listener EXCEPT ![c] = t],
           t.start = listener[c].start, t.next = listener[c].next, t.kind = listener[c].kind,
           Len(t.slot) <= 1, t.sending # <<>> <=> t.pc = "send", Len(t.sending) <= 1,
           ~t.left => /\ ~listener[c].left /\ (t.pc = "done" => listener[c].pc = "done")
                      /\ t.got \o t.slot \o t.sending
                         = listener[c].got \o listener[c].slot \o listener[c].sending
    PROVE  EventsInv'
<1>1. StreamOK(listener[c]) /\ NoGap(listener[c])
  BY DEF EventsInv
<1>2. StreamOK(t)
  BY <1>1 DEF StreamOK
<1>3. Passed(t) = Passed(listener[c])
  BY DEF Passed
<1>4. NoGap(t)
  BY <1>1, <1>3 DEF NoGap
<1> QED
  BY <1>2, <1>4, StreamKeeps

LEMMA SendKeeps ==
    ASSUME EventsInv, NEW CONSTANT c \in Clients, Send(c)
    PROVE  EventsInv'
<1>1. PICK s : s = listener[c]
  OBVIOUS
<1>2. s \in Stream /\ StreamOK(s) /\ s.pc = "send" /\ s.slot = <<>> /\ ~s.left
  BY <1>1 DEF EventsInv, Send
<1>3. PICK t : t = [s EXCEPT !.pc = "receive", !.slot = s.sending, !.sending = <<>>]
  OBVIOUS
<1>4. listener' = [listener EXCEPT ![c] = t] /\ UNCHANGED <<events, rpcCalls>>
  BY <1>1, <1>3 DEF Send
<1>5. /\ t \in Stream /\ t.start = s.start /\ t.next = s.next /\ t.kind = s.kind
      /\ t.pc = "receive" /\ t.slot = s.sending /\ t.sending = <<>> /\ t.got = s.got
  BY <1>2, <1>3 DEF Stream
<1>6. t.got \o t.slot \o t.sending = s.got \o s.slot \o s.sending
  <2>1. s.got \in Seq(Event) /\ s.sending \in Seq(Event)
    BY <1>2 DEF Stream
  <2>2. (s.got \o s.sending) \o <<>> = s.got \o s.sending /\ s.got \o <<>> = s.got
    BY <2>1
  <2> QED
    BY <1>2, <1>5, <2>2
<1>7. Len(t.slot) <= 1 /\ Len(t.sending) <= 1
  BY <1>2, <1>5 DEF StreamOK
<1> QED
  BY <1>1, <1>2, <1>4, <1>5, <1>6, <1>7, HandOverKeeps

LEMMA SendFailsKeeps ==
    ASSUME EventsInv, NEW CONSTANT c \in Clients, SendFails(c)
    PROVE  EventsInv'
<1>1. PICK s : s = listener[c]
  OBVIOUS
<1>2. s \in Stream /\ StreamOK(s) /\ s.left
  BY <1>1 DEF EventsInv, SendFails, Stream
<1>3. PICK t : t = [s EXCEPT !.sending = <<>>,
                        !.pc = IF s.kind = "custommsg" THEN "done" ELSE "receive"]
  OBVIOUS
<1>4. listener' = [listener EXCEPT ![c] = t] /\ UNCHANGED <<events, rpcCalls>>
  BY <1>1, <1>3 DEF SendFails
<1>5. /\ t \in Stream /\ t.start = s.start /\ t.next = s.next /\ t.kind = s.kind
      /\ t.pc \in {"done", "receive"} /\ t.slot = s.slot /\ t.sending = <<>> /\ t.left = s.left
  <2>1. <<>> \in Seq(Event)
    OBVIOUS
  <2> QED
    BY <1>2, <1>3, <2>1 DEF Stream
<1>6. Len(t.slot) <= 1 /\ Len(t.sending) <= 1
  BY <1>2, <1>5 DEF StreamOK
<1>7. t.left
  BY <1>2, <1>5
<1> QED
  BY <1>1, <1>4, <1>5, <1>6, <1>7, HandOverKeeps

LEMMA ReadKeeps ==
    ASSUME EventsInv, NEW CONSTANT c \in Clients, Read(c)
    PROVE  EventsInv'
<1>1. PICK s : s = listener[c]
  OBVIOUS
<1>2. s \in Stream /\ StreamOK(s) /\ ~s.left
  BY <1>1 DEF EventsInv, Read
<1>3. PICK t : t = [s EXCEPT !.got = @ \o s.slot, !.slot = <<>>]
  OBVIOUS
<1>4. listener' = [listener EXCEPT ![c] = t] /\ UNCHANGED <<events, rpcCalls>>
  BY <1>1, <1>3 DEF Read
<1>5. s.got \in Seq(Event) /\ s.slot \in Seq(Event) /\ s.sending \in Seq(Event)
  BY <1>2 DEF Stream
<1>6. s.got \o s.slot \in Seq(Event)
  BY <1>5, ConcatProperties
<1>7. /\ t \in Stream /\ t.start = s.start /\ t.next = s.next /\ t.kind = s.kind
      /\ t.pc = s.pc /\ t.slot = <<>> /\ t.sending = s.sending /\ t.got = s.got \o s.slot
  <2>1. <<>> \in Seq(Event)
    OBVIOUS
  <2> QED
    BY <1>2, <1>3, <1>6, <2>1 DEF Stream
<1>8. t.got \o t.slot \o t.sending = s.got \o s.slot \o s.sending
  <2>1. (s.got \o s.slot) \o <<>> = s.got \o s.slot
    BY <1>6, ConcatEmptySeq
  <2> QED
    BY <1>7, <2>1
<1>9. /\ Len(t.slot) <= 1 /\ Len(t.sending) <= 1
      /\ t.sending # <<>> <=> t.pc = "send"
  BY <1>2, <1>7 DEF StreamOK
<1> QED
  BY <1>1, <1>2, <1>4, <1>7, <1>8, <1>9, HandOverKeeps

LEMMA CloseKeeps ==
    ASSUME EventsInv, NEW CONSTANT c \in Clients, Close(c)
    PROVE  EventsInv'
<1>1. PICK s : s = listener[c]
  OBVIOUS
<1>2. s \in Stream /\ StreamOK(s)
  BY <1>1 DEF EventsInv
<1>3. PICK t : t = [s EXCEPT !.left = TRUE, !.slot = <<>>]
  OBVIOUS
<1>4. listener' = [listener EXCEPT ![c] = t] /\ UNCHANGED <<events, rpcCalls>>
  BY <1>1, <1>3 DEF Close
<1>5. /\ t \in Stream /\ t.start = s.start /\ t.next = s.next /\ t.kind = s.kind
      /\ t.pc = s.pc /\ t.slot = <<>> /\ t.sending = s.sending /\ t.left
  <2>1. <<>> \in Seq(Event)
    OBVIOUS
  <2> QED
    BY <1>2, <1>3, <2>1 DEF Stream
<1>6. /\ Len(t.slot) <= 1 /\ Len(t.sending) <= 1
      /\ t.sending # <<>> <=> t.pc = "send"
  BY <1>2, <1>5 DEF StreamOK
<1> QED
  BY <1>1, <1>4, <1>5, <1>6, HandOverKeeps

\* A step of neither the events nor the streams.
LEMMA OthersKeep ==
    ASSUME EventsInv, UNCHANGED <<events, listener>>, rpcCalls' \in 0..RpcCapacity
    PROVE  EventsInv'
<1>1. ASSUME NEW CONSTANT c \in Clients
      PROVE  StreamOK(listener[c])' /\ NoGap(listener[c])'
  <2>1. PICK s : s = listener[c]
    OBVIOUS
  <2>2. StreamOK(s) /\ NoGap(s) /\ listener'[c] = s
    BY <2>1 DEF EventsInv
  <2>3. Passed(s)' = Passed(s)
    BY DEF Passed
  <2>4. StreamOK(s)' /\ NoGap(s)'
    BY <2>2, <2>3 DEF StreamOK, NoGap
  <2> QED
    BY <2>2, <2>4
<1>2. \A c \in Clients : StreamOK(listener[c])' /\ NoGap(listener[c])'
  BY <1>1
<1> QED
  BY <1>2 DEF EventsInv

LEMMA EventStepKeeps ==
    ASSUME EventsInv, EventStep
    PROVE  EventsInv'
<1>1. CASE Called
  <2>1. rpcCalls' \in 0..RpcCapacity /\ UNCHANGED <<events, listener>>
    BY <1>1, EventsConstants DEF EventsInv, Called
  <2> QED
    BY <2>1, OthersKeep
<1>2. CASE Bridge
  <2>1. rpcCalls' \in 0..RpcCapacity
    BY <1>2, EventsConstants DEF EventsInv, Bridge
  <2>2. RpcCall \in Event
    BY DEF RpcCall, Event
  <2> QED
    BY <1>2, <2>1, <2>2, PublishKeeps DEF Bridge
<1>3. CASE CustomMsgHook
  <2>1. CustomMsg \in Event
    BY DEF CustomMsg, Event
  <2>2. rpcCalls' \in 0..RpcCapacity
    BY <1>3 DEF EventsInv, CustomMsgHook
  <2> QED
    BY <1>3, <2>1, <2>2, PublishKeeps DEF CustomMsgHook
<1>4. ASSUME NEW c \in Clients, NEW kind \in {"payment", "custommsg"}, Subscribe(c, kind)
      PROVE  EventsInv'
  BY <1>4, SubscribeKeeps
<1>5. ASSUME NEW c \in Clients, Receive(c) \/ Send(c) \/ SendFails(c) \/ Read(c) \/ Close(c)
      PROVE  EventsInv'
  BY <1>5, ReceiveKeeps, SendKeeps, SendFailsKeeps, ReadKeeps, CloseKeeps
<1> QED
  BY <1>1, <1>2, <1>3, <1>4, <1>5 DEF EventStep

\* The rest of Next publishes a payment or leaves the events alone.
LEMMA EventsInvInductive ==
    /\ Init => EventsInv
    /\ EventsInv /\ [Next]_vars => EventsInv'
<1>1. ASSUME Init
      PROVE  EventsInv
  <2>1. events = <<>> /\ rpcCalls = 0 /\ listener = [c \in Clients |-> NoStream]
    BY <1>1 DEF Init, EventsInit
  <2>2. <<>> \in Seq(Event) /\ Len(<<>>) = 0
    OBVIOUS
  <2>3. NoStream \in Stream
    BY <2>2 DEF NoStream, Stream
  <2>4. /\ NoStream.start = 0 /\ NoStream.next = 0 /\ NoStream.pc = "none"
        /\ NoStream.got = <<>> /\ NoStream.slot = <<>> /\ NoStream.sending = <<>>
    BY DEF NoStream
  <2>5. Passed(NoStream) = <<>>
    BY <2>1, <2>2, <2>4, PassedGrows
  <2>6. StreamOK(NoStream) /\ NoGap(NoStream)
    BY <2>1, <2>2, <2>4, <2>5 DEF StreamOK, NoGap
  <2> QED
    BY <2>1, <2>2, <2>3, <2>6, EventsConstants DEF EventsInv
<1>2. ASSUME EventsInv, [Next]_vars
      PROVE  EventsInv'
  <2>1. CASE UNCHANGED eventVars
    <3>1. rpcCalls' \in 0..RpcCapacity /\ UNCHANGED <<events, listener>>
      BY <1>2, <2>1 DEF eventVars, EventsInv
    <3> QED
      BY <1>2, <3>1, OthersKeep
  <2>2. CASE EventStep
    BY <1>2, <2>2, EventStepKeeps
  <2>3. ASSUME NEW l \in Labels, InvoicePayment(l)
        PROVE  EventsInv'
    <3>1. Payment(l) \in Event
      BY DEF Payment, Event
    <3>2. (Publish(Payment(l)) \/ UNCHANGED events) /\ UNCHANGED <<rpcCalls, listener>>
      BY <2>3 DEF InvoicePayment
    <3>3. rpcCalls' \in 0..RpcCapacity
      BY <1>2, <3>2 DEF EventsInv
    <3> QED
      BY <1>2, <3>1, <3>2, <3>3, PublishKeeps, OthersKeep
  <2>4. \/ UNCHANGED eventVars \/ EventStep \/ \E l \in Labels : InvoicePayment(l)
    <3>1. /\ \A l, a : LspInvoice(l, a) => UNCHANGED eventVars
          /\ \A l, a : Invoice(l, a) => UNCHANGED eventVars
      BY DEF LspInvoice, Invoice
    <3>2. \A l : CheckCapacity(l) \/ RegularInvoice(l) \/ GatherOffers(l) => UNCHANGED eventVars
      BY DEF CheckCapacity, RegularInvoice, GatherOffers
    <3>3. \A l : Negotiate(l) \/ Fails(l) \/ Expire(l) => UNCHANGED eventVars
      BY DEF Negotiate, Fails, Expire
    <3>4. /\ \A i, l, onion, fwd, htlc : Arrives(i, l, onion, fwd, htlc) => UNCHANGED eventVars
          /\ \A i : Decide(i) \/ Abandon(i) => UNCHANGED eventVars
      BY DEF Arrives, HtlcAccepted, HookFails, Decide, Keep, Reject, Refuse, Abandon
    <3>5. UNCHANGED vars => UNCHANGED eventVars
      BY DEF vars
    <3> QED
      BY Zenon, <1>2, <3>1, <3>2, <3>3, <3>4, <3>5 DEF Next
  <2> QED
    BY <2>1, <2>2, <2>3, <2>4
<1> QED
  BY <1>1, <1>2

(***************************************************************************)
(* A client of stream_incoming or stream_custommsg that reads to the end   *)
(* has every event of its kind since it subscribed, in order and once, up  *)
(* to some moment, for any number of clients and any capacity of the       *)
(* channel: the loop of the stream's task ends at the first error and      *)
(* keeps what it has until the slot is free.                               *)
(***************************************************************************)
THEOREM StreamsHaveNoGap == Spec => []GapFree
<1>1. EventsInv => GapFree
  BY EventsInvMeans
<1> QED
  BY <1>1, EventsInvInductive, PTL DEF Spec

-----------------------------------------------------------------------------
(* Requests, invoices and parts                                            *)

Request == [pc : {"none", "capacity", "regular", "offers", "negotiate", "made", "failed"},
            amount : Nat, lsp : Peers \cup {None}]

Hints == SUBSET {c.alias : c \in UNION Listings}

InvoiceRecord == [made : {"none", "regular", "jit"}, amount : Nat, hints : Hints, called : BOOLEAN]

\* An HTLC, with payloads among B.
Htlc(B) == [pc : {"none", "unanswered", "decide", "kept", "overpaid", "failed"},
            label : Labels \cup {None}, htlc : Int, fwd : Int, sent : B, payload : B]

\* A request and its invoice.
Agree(r, v) ==
    /\ r.pc = "made" <=> v.made # "none"
    /\ v.amount \in 0..r.amount
    /\ r.pc = "negotiate" => r.lsp \in Peers
    /\ v.made = "none" => v.amount = 0 /\ ~v.called

\* Parts that are for an invoice are for one that is there.
PartHasInvoice == \A i \in Parts : part[i].label \in Labels => invoice[part[i].label].made # "none"

\* A payment is published when its invoice came to the hook, and not before.
PublishedIsCalled == \A l \in Labels : Payment(l) \in ToSet(events) => invoice[l].called

PublishedOnce ==
    \A m, n \in DOMAIN events : m # n /\ events[m].kind = "payment" => events[m] # events[n]

PaymentsInv ==
    /\ request \in [Labels -> Request]
    /\ invoice \in [Labels -> InvoiceRecord]
    /\ \E B : part \in [Parts -> Htlc(B)]
    /\ \A l \in Labels : Agree(request[l], invoice[l])
    /\ PartHasInvoice
    /\ PublishedIsCalled /\ PublishedOnce

\* What a call of invoice or lsp_invoice changes.
LEMMA RequestKeeps ==
    ASSUME PaymentsInv, UNCHANGED <<part, eventVars>>, NEW CONSTANT l \in Labels,
           NEW CONSTANT r \in Request, request' = [request EXCEPT ![l] = r],
           NEW CONSTANT v \in InvoiceRecord, invoice' = [invoice EXCEPT ![l] = v],
           Agree(r, v), v.called = invoice[l].called,
           invoice[l].made # "none" => v.made # "none"
    PROVE  PaymentsInv'
<1>1. request' \in [Labels -> Request] /\ invoice' \in [Labels -> InvoiceRecord]
  BY DEF PaymentsInv
<1>2. (\E B : part \in [Parts -> Htlc(B)])'
  BY DEF PaymentsInv
<1>3. \A k \in Labels : /\ k # l => request'[k] = request[k] /\ invoice'[k] = invoice[k]
                        /\ k = l => request'[k] = r /\ invoice'[k] = v
  BY DEF PaymentsInv
<1>4. \A k \in Labels : Agree(request'[k], invoice'[k])
  BY <1>3 DEF PaymentsInv
<1>5. PartHasInvoice'
  BY <1>3 DEF PaymentsInv, PartHasInvoice
<1>6. PublishedIsCalled' /\ PublishedOnce'
  <2>1. events' = events
    BY DEF eventVars
  <2> QED
    BY <1>3, <2>1 DEF PaymentsInv, PublishedIsCalled, PublishedOnce
<1> QED
  BY <1>1, <1>2, <1>4, <1>5, <1>6 DEF PaymentsInv, Agree

\* A request that goes on and has made no invoice yet.
LEMMA PendingKeeps ==
    ASSUME PaymentsInv, UNCHANGED <<invoice, part, eventVars>>, NEW CONSTANT l \in Labels,
           request[l].pc # "made",
           NEW CONSTANT r \in Request, request' = [request EXCEPT ![l] = r],
           r.pc # "made", r.pc = "negotiate" => r.lsp \in Peers
    PROVE  PaymentsInv'
<1>1. PICK v : v = invoice[l]
  OBVIOUS
<1>2. v \in InvoiceRecord /\ invoice' = [invoice EXCEPT ![l] = v] /\ Agree(request[l], v)
  BY <1>1 DEF PaymentsInv
<1>3. v.amount \in Nat /\ r.amount \in Nat
  BY <1>2 DEF InvoiceRecord, Request
<1>4. Agree(r, v)
  BY <1>1, <1>2, <1>3 DEF Agree
<1> QED
  BY <1>1, <1>2, <1>4, RequestKeeps

\* An invoice for a request that had none.
LEMMA InvoiceKeeps ==
    ASSUME PaymentsInv, UNCHANGED <<part, eventVars>>, NEW CONSTANT l \in Labels,
           request[l].pc # "made",
           NEW CONSTANT r \in Request, request' = [request EXCEPT ![l] = r], r.pc = "made",
           NEW CONSTANT v \in InvoiceRecord, invoice' = [invoice EXCEPT ![l] = v],
           v.made # "none", v.amount <= r.amount, ~v.called
    PROVE  PaymentsInv'
<1>1. invoice[l] \in InvoiceRecord /\ Agree(request[l], invoice[l])
  BY DEF PaymentsInv
<1>2. v.amount \in Nat /\ r.amount \in Nat
  BY DEF InvoiceRecord, Request
<1>3. Agree(r, v)
  BY <1>2 DEF Agree
<1>4. v.called = invoice[l].called
  BY <1>1 DEF Agree, InvoiceRecord
<1> QED
  BY <1>3, <1>4, RequestKeeps

\* Min is one of the set.
LEMMA LeastIsIn ==
    ASSUME NEW S \in SUBSET Nat, S # {}
    PROVE  Min(S) \in S
<1>1. PICK m \in S : \A k \in S : ~(<<k, m>> \in OpToRel(<, Nat))
  BY NatLessThanWellFounded, WFMin
<1>2. ASSUME NEW k \in S
      PROVE  m <= k
  <2>1. m \in Nat /\ k \in Nat
    OBVIOUS
  <2>2. ~(k < m)
    BY <1>1, <2>1 DEF OpToRel
  <2> QED
    BY <2>1, <2>2
<1> QED
  BY <1>2 DEF Min

LEMMA CallsKeep ==
    ASSUME PaymentsInv, NEW CONSTANT l \in Labels,
           \/ \E a \in Amounts : LspInvoice(l, a)
           \/ CheckCapacity(l) \/ GatherOffers(l) \/ Fails(l)
    PROVE  PaymentsInv'
<1>1. request[l] \in Request /\ \A a \in Amounts : a \in Nat
  BY ReceivingConstants DEF PaymentsInv
<1>2. ASSUME NEW CONSTANT r \in Request, request' = [request EXCEPT ![l] = r],
             request[l].pc # "made", r.pc # "made", r.pc = "negotiate" => r.lsp \in Peers,
             UNCHANGED <<invoice, part, eventVars>>
      PROVE  PaymentsInv'
  BY <1>2, PendingKeeps
<1>3. ASSUME NEW a \in Amounts, LspInvoice(l, a)
      PROVE  PaymentsInv'
  <2>1. PICK r : r = [NoRequest EXCEPT !.pc = "capacity", !.amount = a]
    OBVIOUS
  <2>2. r \in Request /\ r.pc = "capacity"
    BY <1>1, <2>1 DEF NoRequest, Request
  <2> QED
    BY <1>2, <1>3, <2>1, <2>2 DEF LspInvoice
<1>4. CASE CheckCapacity(l)
  <2>1. PICK to \in {"regular", "offers"} : request' = [request EXCEPT ![l].pc = to]
    BY <1>4 DEF CheckCapacity
  <2>2. PICK r : r = [request[l] EXCEPT !.pc = to]
    OBVIOUS
  <2>3. r \in Request /\ r.pc = to
    BY <1>1, <2>2 DEF Request
  <2>4. request' = [request EXCEPT ![l] = r]
    BY <2>1, <2>2
  <2> QED
    BY <1>2, <1>4, <2>3, <2>4 DEF CheckCapacity
<1>5. CASE GatherOffers(l)
  <2>1. PICK lsps \in SUBSET (DOMAIN PeerOrder) :
           request' = IF lsps = {}
                      THEN [request EXCEPT ![l] = Failed]
                      ELSE [request EXCEPT ![l].pc = "negotiate", ![l].lsp = PeerOrder[Min(lsps)]]
    BY <1>5 DEF GatherOffers
  <2>2. CASE lsps = {}
    <3>1. PICK r : r = Failed
      OBVIOUS
    <3>2. r \in Request /\ r.pc = "failed"
      BY <3>1 DEF Failed, NoRequest, Request
    <3> QED
      BY <1>2, <1>5, <2>1, <2>2, <3>1, <3>2 DEF GatherOffers
  <2>3. CASE lsps # {}
    <3>1. lsps \subseteq Nat
      BY ReceivingConstants
    <3>2. Min(lsps) \in DOMAIN PeerOrder
      BY <2>3, <3>1, LeastIsIn
    <3>3. PICK p \in Peers : p = PeerOrder[Min(lsps)]
      BY <3>2 DEF Peers, ToSet
    <3>4. PICK r : r = [request[l] EXCEPT !.pc = "negotiate", !.lsp = p]
      OBVIOUS
    <3>5. r \in Request /\ r.pc = "negotiate" /\ r.lsp = p
      BY <1>1, <3>4 DEF Request
    <3>6. request' = [request EXCEPT ![l] = r]
      BY <2>1, <2>3, <3>3, <3>4
    <3> QED
      BY <1>2, <1>5, <3>5, <3>6 DEF GatherOffers
  <2> QED
    BY <2>2, <2>3
<1>6. CASE Fails(l)
  <2>1. PICK r : r = Failed
    OBVIOUS
  <2>2. r \in Request /\ r.pc = "failed"
    BY <2>1 DEF Failed, NoRequest, Request
  <2> QED
    BY <1>2, <1>6, <2>1, <2>2 DEF Fails
<1> QED
  BY <1>3, <1>4, <1>5, <1>6

LEMMA InvoicesKeep ==
    ASSUME PaymentsInv, NEW CONSTANT l \in Labels,
           (\E a \in Amounts : Invoice(l, a)) \/ RegularInvoice(l) \/ Negotiate(l)
    PROVE  PaymentsInv'
<1>1. request[l] \in Request /\ \A a \in Amounts : a \in Nat
  BY ReceivingConstants DEF PaymentsInv
<1>2. \A hints \in Hints, made \in {"regular", "jit"}, a \in Nat :
        [NoInvoice EXCEPT !.made = made, !.amount = a, !.hints = hints] \in InvoiceRecord
  BY DEF NoInvoice, InvoiceRecord
<1>3. {} \in Hints
  BY DEF Hints
<1>4. ASSUME NEW a \in Amounts, Invoice(l, a)
      PROVE  PaymentsInv'
  <2>1. \A listing \in Listings : RouteHints(listing) \in Hints
    BY DEF RouteHints, Usable, Hints
  <2>2. PICK hints \in Hints :
          invoice' = [invoice EXCEPT ![l] = [NoInvoice EXCEPT !.made = "regular",
                                                 !.amount = a, !.hints = hints]]
    BY <1>3, <1>4, <2>1 DEF Invoice
  <2>3. PICK v : v = [NoInvoice EXCEPT !.made = "regular", !.amount = a, !.hints = hints]
    OBVIOUS
  <2>4. v \in InvoiceRecord /\ v.made = "regular" /\ v.amount = a /\ ~v.called
    BY <1>1, <1>2, <2>3 DEF NoInvoice
  <2>5. PICK r : r = [pc |-> "made", amount |-> a, lsp |-> None]
    OBVIOUS
  <2>6. r \in Request /\ r.pc = "made" /\ r.amount = a
    BY <1>1, <2>5 DEF Request
  <2>7. v.made # "none" /\ v.amount <= r.amount
    BY <1>1, <2>4, <2>6
  <2>8. /\ UNCHANGED <<part, eventVars>> /\ request[l].pc # "made"
        /\ request' = [request EXCEPT ![l] = r]
    BY <1>4, <2>5 DEF Invoice
  <2>9. invoice' = [invoice EXCEPT ![l] = v]
    BY <2>2, <2>3
  <2> QED
    BY <2>4, <2>6, <2>7, <2>8, <2>9, InvoiceKeeps
<1>5. CASE RegularInvoice(l)
  <2>1. PICK v : v = [NoInvoice EXCEPT !.made = "regular", !.amount = request[l].amount]
    OBVIOUS
  <2>2. v \in InvoiceRecord /\ v.made = "regular" /\ v.amount = request[l].amount /\ ~v.called
    BY <1>1, <1>3, <2>1 DEF NoInvoice, InvoiceRecord, Request
  <2>3. PICK r : r = [request[l] EXCEPT !.pc = "made"]
    OBVIOUS
  <2>4. r \in Request /\ r.pc = "made" /\ r.amount = request[l].amount /\ r.amount <= r.amount
    BY <1>1, <2>3 DEF Request
  <2>5. request' = [request EXCEPT ![l] = r] /\ invoice' = [invoice EXCEPT ![l] = v]
    BY <1>5, <2>1, <2>3 DEF RegularInvoice
  <2> QED
    BY <1>5, <2>2, <2>4, <2>5, InvoiceKeeps DEF RegularInvoice
<1>6. CASE Negotiate(l)
  <2>1. PICK fee \in Fees : \E parts \in 1..Cardinality(Parts) :
          /\ request[l].amount > 0 => fee * parts < request[l].amount
          /\ invoice' = [invoice EXCEPT ![l] = [NoInvoice EXCEPT !.made = "jit",
                             !.amount = IF request[l].amount = 0 THEN 0
                                        ELSE request[l].amount - fee * parts]]
    BY <1>6 DEF Negotiate
  <2>2. PICK parts \in 1..Cardinality(Parts) :
          /\ request[l].amount > 0 => fee * parts < request[l].amount
          /\ invoice' = [invoice EXCEPT ![l] = [NoInvoice EXCEPT !.made = "jit",
                             !.amount = IF request[l].amount = 0 THEN 0
                                        ELSE request[l].amount - fee * parts]]
    BY <2>1
  <2>3. PICK a : a = IF request[l].amount = 0 THEN 0 ELSE request[l].amount - fee * parts
    OBVIOUS
  <2>4. a \in Nat /\ a <= request[l].amount /\ request[l].amount \in Nat
    <3>1. request[l].amount \in Nat /\ fee \in Nat /\ parts \in Nat
      BY <1>1, ReceivingConstants DEF Request
    <3>2. fee * parts \in Nat
      BY <3>1
    <3> QED
      BY <2>2, <2>3, <3>1, <3>2
  <2>5. PICK v : v = [NoInvoice EXCEPT !.made = "jit", !.amount = a]
    OBVIOUS
  <2>6. v \in InvoiceRecord /\ v.made = "jit" /\ v.amount = a /\ ~v.called
    BY <1>3, <2>4, <2>5 DEF NoInvoice, InvoiceRecord
  <2>7. PICK r : r = [request[l] EXCEPT !.pc = "made", !.lsp = None]
    OBVIOUS
  <2>8. r \in Request /\ r.pc = "made" /\ r.amount = request[l].amount
    BY <1>1, <2>7 DEF Request
  <2>9. request' = [request EXCEPT ![l] = r] /\ invoice' = [invoice EXCEPT ![l] = v]
    BY <1>6, <2>2, <2>3, <2>5, <2>7 DEF Negotiate
  <2> QED
    BY <1>6, <2>4, <2>6, <2>8, <2>9, InvoiceKeeps DEF Negotiate
<1> QED
  BY <1>4, <1>5, <1>6

\* Parts that change, and are for invoices that are there.
LEMMA SomePartsKeep ==
    ASSUME PaymentsInv, UNCHANGED <<request, invoice, eventVars>>, NEW CONSTANT B,
           part' = [i \in Parts |-> part'[i]],
           \A i \in Parts :
              \/ part'[i] = part[i]
              \/ /\ part'[i] \in Htlc(B)
                 /\ part'[i].label \in Labels => invoice[part'[i].label].made # "none"
    PROVE  PaymentsInv'
<1>1. PICK C : part \in [Parts -> Htlc(C)]
  BY DEF PaymentsInv
<1>2. part' \in [Parts -> Htlc(B \cup C)]
  <2>1. \A i \in Parts : part'[i] \in Htlc(B \cup C)
    BY <1>1 DEF Htlc
  <2> QED
    BY <2>1
<1>3. PartHasInvoice'
  BY DEF PaymentsInv, PartHasInvoice
<1>4. PublishedIsCalled' /\ PublishedOnce'
  BY DEF PaymentsInv, PublishedIsCalled, PublishedOnce, eventVars
<1> QED
  BY <1>2, <1>3, <1>4 DEF PaymentsInv, Agree

\* One that changes alone.
LEMMA PartKeeps ==
    ASSUME PaymentsInv, UNCHANGED <<request, invoice, eventVars>>, NEW CONSTANT i \in Parts,
           NEW CONSTANT B, NEW CONSTANT h \in Htlc(B), part' = [part EXCEPT ![i] = h],
           h.label \in Labels => invoice[h.label].made # "none"
    PROVE  PaymentsInv'
<1>1. PICK C : part \in [Parts -> Htlc(C)]
  BY DEF PaymentsInv
<1>2. /\ part' = [j \in Parts |-> part'[j]]
      /\ \A j \in Parts : (j # i => part'[j] = part[j]) /\ (j = i => part'[j] = h)
  BY <1>1
<1> QED
  BY <1>2, SomePartsKeep

LEMMA ArrivesKeeps ==
    ASSUME PaymentsInv, NEW CONSTANT i \in Parts, NEW CONSTANT l \in Labels \cup {None},
           NEW onion, NEW CONSTANT fwd \in Int, NEW CONSTANT htlc \in Int,
           Arrives(i, l, onion, fwd, htlc)
    PROVE  PaymentsInv'
<1>1. CASE HtlcAccepted(i, l, onion, fwd, htlc)
  <2>1. PICK payload : part' = [part EXCEPT ![i] =
            [pc |-> "decide", label |-> l, htlc |-> htlc, fwd |-> fwd,
             sent |-> ToBytes(onion), payload |-> payload]]
    BY <1>1 DEF HtlcAccepted
  <2>2. PICK h : h = [pc |-> "decide", label |-> l, htlc |-> htlc, fwd |-> fwd,
                      sent |-> ToBytes(onion), payload |-> payload]
    OBVIOUS
  <2>3. PICK B : B = {h.sent, h.payload}
    OBVIOUS
  <2>4. h \in Htlc(B) /\ h.label = l
    BY <2>2, <2>3 DEF Htlc
  <2>5. h.label \in Labels => invoice[h.label].made # "none"
    BY <1>1, <2>4, ReceivingConstants DEF HtlcAccepted
  <2> QED
    BY <1>1, <2>1, <2>2, <2>4, <2>5, PartKeeps DEF HtlcAccepted
<1>2. CASE HookFails(i, onion, fwd, htlc)
  <2>1. PICK h : h = [NoPart EXCEPT !.pc = "unanswered"]
    OBVIOUS
  <2>2. h \in Htlc({<<>>}) /\ h.label = None
    BY <2>1 DEF NoPart, Htlc
  <2> QED
    BY <1>2, <2>1, <2>2, PartKeeps, ReceivingConstants DEF HookFails
<1> QED
  BY <1>1, <1>2 DEF Arrives

LEMMA NoPartIs == NoPart \in Htlc({<<>>}) /\ NoPart.label = None
  BY DEF NoPart, Htlc

\* lightningd moves parts on, or forgets them.
OnlyMoves ==
    /\ part' = [i \in Parts |-> part'[i]]
    /\ \A i \in Parts :
          \/ part'[i] \in {part[i], NoPart}
          \/ \E to \in {"kept", "overpaid", "failed"} : part'[i] = [part[i] EXCEPT !.pc = to]

\* Its decisions leave the parts for whom they are for.
LEMMA PartsKeep ==
    ASSUME PaymentsInv,
           (\E i \in Parts : Decide(i) \/ Abandon(i)) \/ \E l \in Labels : Expire(l)
    PROVE  PaymentsInv'
<1>1. PICK B : part \in [Parts -> Htlc(B)]
  BY DEF PaymentsInv
<1>2. ASSUME NEW i \in Parts, NEW h \in {NoPart} \cup {[part[i] EXCEPT !.pc = to] :
                                                  to \in {"kept", "overpaid", "failed"}},
             part' = [part EXCEPT ![i] = h]
      PROVE  OnlyMoves
  <2>1. \A j \in Parts : (j # i => part'[j] = part[j]) /\ (j = i => part'[j] = h)
    BY <1>1, <1>2
  <2>2. part' = [j \in Parts |-> part'[j]]
    BY <1>1, <1>2
  <2> QED
    BY <2>1, <2>2 DEF OnlyMoves
<1>3. OnlyMoves
  <2>1. ASSUME NEW i \in Parts, Keep(i)
        PROVE  OnlyMoves
    BY <1>2, <2>1 DEF Keep
  <2>2. ASSUME NEW i \in Parts, Refuse(i)
        PROVE  OnlyMoves
    BY <1>2, <2>2 DEF Refuse
  <2>3. ASSUME NEW i \in Parts, Reject(i)
        PROVE  OnlyMoves
    BY <1>1, <2>3 DEF Reject, OnlyMoves
  <2>4. ASSUME NEW i \in Parts, Abandon(i)
        PROVE  OnlyMoves
    BY <1>2, <2>4 DEF Abandon
  <2>5. ASSUME NEW l \in Labels, Expire(l)
        PROVE  OnlyMoves
    BY <1>1, <2>5 DEF Expire, OnlyMoves
  <2> QED
    BY <2>1, <2>2, <2>3, <2>4, <2>5 DEF Decide
<1>4. UNCHANGED <<request, invoice, eventVars>>
  BY DEF Decide, Keep, Refuse, Reject, Abandon, Expire
<1>5. ASSUME NEW i \in Parts
      PROVE  \/ part'[i] = part[i]
             \/ /\ part'[i] \in Htlc(B \cup {<<>>})
                /\ part'[i].label \in Labels => invoice[part'[i].label].made # "none"
  <2>1. part[i] \in Htlc(B) /\ (part[i].label \in Labels => invoice[part[i].label].made # "none")
    BY <1>1 DEF PaymentsInv, PartHasInvoice
  <2>2. CASE part'[i] \in {part[i], NoPart}
    BY <2>2, NoPartIs, ReceivingConstants DEF Htlc
  <2>3. ASSUME NEW to \in {"kept", "overpaid", "failed"}, part'[i] = [part[i] EXCEPT !.pc = to]
        PROVE  /\ part'[i] \in Htlc(B \cup {<<>>})
               /\ part'[i].label \in Labels => invoice[part'[i].label].made # "none"
    BY <2>1, <2>3 DEF Htlc
  <2> QED
    BY <1>3, <2>2, <2>3 DEF OnlyMoves
<1>6. PICK C : C = B \cup {<<>>}
  OBVIOUS
<1> QED
  BY <1>3, <1>4, <1>5, <1>6, SomePartsKeep DEF OnlyMoves

\* What a published event adds.
LEMMA PublishAdds ==
    ASSUME events \in Seq(Event), NEW e \in Event, Publish(e)
    PROVE  /\ ToSet(events)' = ToSet(events) \cup {e}
           /\ PublishedOnce /\ (e.kind = "payment" => e \notin ToSet(events)) => PublishedOnce'
<1>1. PICK s \in Seq(Event) : s = events
  OBVIOUS
<1>2. events' = Append(s, e)
  BY <1>1 DEF Publish
<1>3. /\ Len(Append(s, e)) = Len(s) + 1 /\ Len(s) \in Nat
      /\ \A n \in 1..Len(s) : Append(s, e)[n] = s[n]
      /\ Append(s, e)[Len(s) + 1] = e
      /\ DOMAIN Append(s, e) = 1..Len(s) + 1 /\ DOMAIN s = 1..Len(s)
  OBVIOUS
<1>4. 1..Len(s) + 1 = (1..Len(s)) \cup {Len(s) + 1}
  BY <1>3
<1>5. {Append(s, e)[n] : n \in 1..Len(s) + 1} = {s[n] : n \in 1..Len(s)} \cup {e}
  BY <1>3, <1>4
<1>6. ASSUME PublishedOnce, e.kind = "payment" => e \notin ToSet(events),
             NEW m \in DOMAIN events', NEW n \in DOMAIN events', m # n,
             events'[m].kind = "payment"
      PROVE  events'[m] # events'[n]
  <2>1. m \in (1..Len(s)) \cup {Len(s) + 1} /\ n \in (1..Len(s)) \cup {Len(s) + 1}
    BY <1>2, <1>3, <1>4
  <2>2. CASE m \in 1..Len(s) /\ n \in 1..Len(s)
    BY <1>1, <1>2, <1>3, <1>6, <2>2 DEF PublishedOnce
  <2>3. CASE n = Len(s) + 1
    <3>1. m \in 1..Len(s)
      BY <1>6, <2>1, <2>3
    <3>2. events'[m] \in ToSet(events) /\ events'[n] = e
      BY <1>1, <1>2, <1>3, <2>3, <3>1 DEF ToSet
    <3> QED
      BY <1>6, <3>2
  <2>4. CASE m = Len(s) + 1
    <3>1. n \in 1..Len(s)
      BY <1>6, <2>1, <2>4
    <3>2. events'[n] \in ToSet(events) /\ events'[m] = e
      BY <1>1, <1>2, <1>3, <2>4, <3>1 DEF ToSet
    <3> QED
      BY <1>6, <3>2
  <2> QED
    BY <2>1, <2>2, <2>3, <2>4
<1>7. ToSet(events)' = ToSet(events) \cup {e}
  BY <1>1, <1>2, <1>3, <1>5 DEF ToSet
<1> QED
  BY <1>6, <1>7 DEF PublishedOnce

LEMMA InvoicePaymentKeeps ==
    ASSUME PaymentsInv, events \in Seq(Event), NEW l \in Labels, InvoicePayment(l)
    PROVE  PaymentsInv'
<1>1. Payment(l) \in Event /\ \A k \in Labels : Payment(k) = Payment(l) => k = l
  BY DEF Payment, Event
<1>2. ~invoice[l].called
  BY DEF InvoicePayment
<1>3. Payment(l) \notin ToSet(events)
  BY <1>2 DEF PaymentsInv, PublishedIsCalled
<1>4. PublishedOnce' /\ ToSet(events)' \subseteq ToSet(events) \cup {Payment(l)}
  <2>1. CASE UNCHANGED events
    <3>1. PublishedOnce' /\ ToSet(events)' = ToSet(events)
      BY <2>1 DEF PaymentsInv, PublishedOnce, ToSet
    <3> QED
      BY <3>1
  <2>2. CASE Publish(Payment(l))
    BY <1>1, <1>3, <2>2, PublishAdds DEF PaymentsInv
  <2> QED
    BY <2>1, <2>2 DEF InvoicePayment
<1>5. invoice[l].made # "none"
  <2>1. PICK i \in Parts : part[i].label = l /\ part[i].pc = "kept"
    BY DEF InvoicePayment, Kept
  <2> QED
    BY <2>1 DEF PaymentsInv, PartHasInvoice
<1>6. PICK v : v = [invoice[l] EXCEPT !.called = TRUE]
  OBVIOUS
<1>7. /\ v \in InvoiceRecord /\ v.called = TRUE /\ v.made = invoice[l].made
      /\ v.amount = invoice[l].amount
  BY <1>6 DEF PaymentsInv, InvoiceRecord
<1>8. invoice' = [invoice EXCEPT ![l] = v] /\ UNCHANGED <<request, part>>
  BY <1>6 DEF InvoicePayment
<1>9. \A k \in Labels : (k # l => invoice'[k] = invoice[k]) /\ (k = l => invoice'[k] = v)
  BY <1>8 DEF PaymentsInv
<1>10. invoice' \in [Labels -> InvoiceRecord]
  BY <1>7, <1>8 DEF PaymentsInv
<1>11. \A k \in Labels : Agree(request[k], invoice'[k])
  BY <1>5, <1>7, <1>9 DEF PaymentsInv, Agree
<1>12. PartHasInvoice'
  BY <1>7, <1>8, <1>9 DEF PaymentsInv, PartHasInvoice
<1>13. PublishedIsCalled'
  BY <1>1, <1>4, <1>7, <1>9 DEF PaymentsInv, PublishedIsCalled
<1> QED
  BY <1>4, <1>8, <1>10, <1>11, <1>12, <1>13 DEF PaymentsInv, Agree

\* The streams leave payments alone, and nothing they publish is one.
LEMMA EventsPublishNoPayment ==
    ASSUME PaymentsInv, events \in Seq(Event), EventStep, UNCHANGED receivingVars
    PROVE  PaymentsInv'
<1>1. /\ \A l \in Labels : Payment(l) \in ToSet(events)' <=> Payment(l) \in ToSet(events)
      /\ PublishedOnce'
  <2>1. ASSUME NEW e \in {RpcCall, CustomMsg}, Publish(e)
        PROVE  /\ \A l \in Labels : Payment(l) \in ToSet(events)' <=> Payment(l) \in ToSet(events)
               /\ PublishedOnce'
    <3>1. e \in Event /\ e.kind # "payment" /\ \A l \in Labels : Payment(l) # e
      BY <2>1 DEF RpcCall, CustomMsg, Payment, Event
    <3> QED
      BY <2>1, <3>1, PublishAdds DEF PaymentsInv
  <2>2. events' = events \/ Publish(RpcCall) \/ Publish(CustomMsg)
    BY DEF EventStep, Called, Bridge, CustomMsgHook, Subscribe, Receive, Send, SendFails,
           Read, Close
  <2>3. CASE events' = events
    BY <2>3 DEF PaymentsInv, PublishedOnce, ToSet
  <2> QED
    BY <2>1, <2>2, <2>3
<1>2. PublishedIsCalled'
  BY <1>1 DEF PaymentsInv, PublishedIsCalled, receivingVars
<1> QED
  BY <1>1, <1>2 DEF PaymentsInv, Agree, PartHasInvoice, receivingVars

LEMMA PaymentsInvHolds == Spec => [](EventsInv /\ PaymentsInv)
<1>1. Init => PaymentsInv
  <2> SUFFICES ASSUME Init PROVE PaymentsInv
    OBVIOUS
  <2>1. /\ NoRequest \in Request /\ NoInvoice \in InvoiceRecord
        /\ Agree(NoRequest, NoInvoice) /\ ~NoInvoice.called
    BY DEF NoRequest, Request, NoInvoice, InvoiceRecord, Hints, Agree
  <2>2. ToSet(events) = {} /\ PublishedOnce
    BY DEF Init, EventsInit, ToSet, PublishedOnce
  <2>3. \A l \in Labels : request[l] = NoRequest /\ invoice[l] = NoInvoice
    BY DEF Init
  <2>4. \A i \in Parts : part[i] = NoPart
    BY DEF Init
  <2>5. PartHasInvoice /\ PublishedIsCalled
    BY <2>2, <2>4, NoPartIs, ReceivingConstants DEF PartHasInvoice, PublishedIsCalled
  <2>6. /\ request \in [Labels -> Request] /\ invoice \in [Labels -> InvoiceRecord]
        /\ part \in [Parts -> Htlc({<<>>})]
    BY <2>1, NoPartIs DEF Init
  <2> QED
    BY <2>1, <2>2, <2>3, <2>5, <2>6 DEF PaymentsInv
<1>2. ASSUME EventsInv, PaymentsInv, [Next]_vars
      PROVE  PaymentsInv'
  <2>1. events \in Seq(Event)
    BY <1>2 DEF EventsInv
  <2>2. CASE \E l \in Labels, a \in Amounts : LspInvoice(l, a)
    BY <1>2, <2>2, CallsKeep
  <2>3. CASE \E l \in Labels : CheckCapacity(l) \/ GatherOffers(l) \/ Fails(l)
    BY <1>2, <2>3, CallsKeep
  <2>4. CASE \E l \in Labels : (\E a \in Amounts : Invoice(l, a))
                               \/ RegularInvoice(l) \/ Negotiate(l)
    BY <1>2, <2>4, InvoicesKeep
  <2>5. CASE \E i \in Parts, fwd \in Forwards, fee \in Fees :
               \/ \E l \in Labels \cup {None} :
                     Arrives(i, l, Onion(l, fwd, Total(l, fwd)), fwd, fwd - fee)
               \/ Arrives(i, None, Spontaneous(fwd), fwd, fwd - fee)
    <3>1. \A fwd \in Forwards, fee \in Fees : fwd \in Int /\ fwd - fee \in Int
      BY ReceivingConstants
    <3>2. PICK i \in Parts, fwd \in Forwards, fee \in Fees :
            \E l \in Labels \cup {None} : \E onion : Arrives(i, l, onion, fwd, fwd - fee)
      BY <2>5
    <3>3. PICK l \in Labels \cup {None} : \E onion : Arrives(i, l, onion, fwd, fwd - fee)
      BY <3>2
    <3>4. PICK onion : Arrives(i, l, onion, fwd, fwd - fee)
      BY <3>3
    <3>5. fwd \in Int /\ fwd - fee \in Int
      BY <3>1
    <3> QED
      BY <1>2, <3>4, <3>5, ArrivesKeeps
  <2>6. CASE (\E i \in Parts : Decide(i) \/ Abandon(i)) \/ \E l \in Labels : Expire(l)
    BY <1>2, <2>6, PartsKeep
  <2>7. CASE \E l \in Labels : InvoicePayment(l)
    BY <1>2, <2>1, <2>7, InvoicePaymentKeeps
  <2>8. CASE EventStep /\ UNCHANGED receivingVars
    BY <1>2, <2>1, <2>8, EventsPublishNoPayment
  <2>9. CASE UNCHANGED vars
    BY <1>2, <2>9 DEF PaymentsInv, Agree, PartHasInvoice, PublishedIsCalled, PublishedOnce,
                      ToSet, vars, receivingVars, eventVars
  <2> QED
    BY <1>2, <2>2, <2>3, <2>4, <2>5, <2>6, <2>7, <2>8, <2>9 DEF Next
<1> QED
  BY <1>1, <1>2, EventsInvInductive, PTL DEF Spec

(***************************************************************************)
(* The types hold, and with them that an invoice is there exactly when its *)
(* request has come to an end, for no more than was asked for, that parts  *)
(* are for invoices that are there, and that the payment of an invoice is  *)
(* published once at most, and not before its parts came to the hook, for  *)
(* any requests, LSPs, fees and parts.                                     *)
(***************************************************************************)
THEOREM ReceivingTypeCorrect == Spec => []ReceivingTypeOK
<1>1. EventsInv /\ PaymentsInv => ReceivingTypeOK
  <2> SUFFICES ASSUME EventsInv, PaymentsInv
               PROVE  ReceivingTypeOK
    OBVIOUS
  <2>1. EventsTypeOK
    BY EventsInvMeans
  <2>2. ASSUME NEW l \in Labels
        PROVE  /\ request[l].pc \in {"none", "capacity", "regular", "offers", "negotiate",
                                     "made", "failed"}
               /\ request[l].lsp \in Peers \cup {None}
               /\ invoice[l].made \in {"none", "regular", "jit"}
               /\ (request[l].pc = "made") = (invoice[l].made # "none")
               /\ invoice[l].amount \in 0..request[l].amount
               /\ request[l].pc = "negotiate" => request[l].lsp \in Peers
               /\ Payment(l) \in ToSet(events) => invoice[l].called
    BY DEF PaymentsInv, Agree, Request, InvoiceRecord, PublishedIsCalled
  <2>3. \A m, n \in DOMAIN events : m # n /\ events[m].kind = "payment" => events[m] # events[n]
    BY DEF PaymentsInv, PublishedOnce
  <2>4. \A i \in Parts :
          /\ part[i].pc \in {"none", "unanswered", "decide", "kept", "overpaid", "failed"}
          /\ part[i].label \in Labels \cup {None}
          /\ part[i].label # None => invoice[part[i].label].made # "none"
    BY DEF PaymentsInv, Htlc, PartHasInvoice
  <2> QED
    BY <2>1, <2>2, <2>3, <2>4 DEF ReceivingTypeOK
<1> QED
  BY <1>1, PaymentsInvHolds, PTL

-----------------------------------------------------------------------------
(* Recursion on numbers                                                    *)

\* f starts at b and goes on with g, up to n.
Recursion(f, n, b, g) ==
    /\ f = [k \in 0..n |-> f[k]]
    /\ f[0] = b
    /\ \A k \in 1..n : f[k] = g[k][f[k - 1]]

LEMMA RecursionExists ==
    ASSUME NEW V, NEW b \in V, NEW N \in Nat, NEW g \in [1..N -> [V -> V]]
    PROVE  \E f : Recursion(f, N, b, g) /\ \A k \in 0..N : f[k] \in V
<1> DEFINE S == {n \in Nat : n <= N => \E f : Recursion(f, n, b, g)
                                              /\ \A k \in 0..n : f[k] \in V}
<1>1. 0 \in S
  <2> DEFINE f == [k \in 0..0 |-> b]
  <2>1. Recursion(f, 0, b, g) /\ \A k \in 0..0 : f[k] \in V
    BY DEF Recursion
  <2> HIDE DEF f
  <2> QED
    BY <2>1
<1>2. ASSUME NEW n \in S
      PROVE  n + 1 \in S
  <2> SUFFICES ASSUME n + 1 <= N
               PROVE  \E h : Recursion(h, n + 1, b, g) /\ \A k \in 0..n + 1 : h[k] \in V
    OBVIOUS
  <2>1. PICK f : Recursion(f, n, b, g) /\ \A k \in 0..n : f[k] \in V
    OBVIOUS
  <2> DEFINE h == [k \in 0..n + 1 |-> IF k = n + 1 THEN g[n + 1][f[n]] ELSE f[k]]
  <2>2. \A k \in 0..n : h[k] = f[k]
    OBVIOUS
  <2>3. h[n + 1] = g[n + 1][f[n]]
    OBVIOUS
  <2>4. h = [k \in 0..n + 1 |-> h[k]]
    OBVIOUS
  <2> HIDE DEF h
  <2>5. ASSUME NEW k \in 1..n + 1
        PROVE  h[k] = g[k][h[k - 1]]
    <3>1. CASE k = n + 1
      <4>1. n \in 0..n /\ k - 1 = n
        BY <3>1
      <4>2. h[k - 1] = f[n]
        BY <2>2, <4>1
      <4> QED
        BY <2>3, <3>1, <4>2
    <3>2. CASE k \in 1..n
      <4>1. k \in 0..n /\ k - 1 \in 0..n
        BY <3>2
      <4>2. f[k] = g[k][f[k - 1]]
        BY <2>1, <3>2 DEF Recursion
      <4>3. h[k] = f[k] /\ h[k - 1] = f[k - 1]
        BY <2>2, <4>1
      <4> QED
        BY <4>2, <4>3
    <3> QED
      BY <3>1, <3>2
  <2>6. h[n + 1] \in V
    <3>1. n + 1 \in 1..N /\ f[n] \in V
      BY <2>1
    <3> QED
      BY <2>3, <3>1
  <2>7. \A k \in 0..n + 1 : h[k] \in V
    BY <2>1, <2>2, <2>6
  <2>8. h[0] = b
    BY <2>1, <2>2 DEF Recursion
  <2> QED
    BY <2>4, <2>5, <2>7, <2>8 DEF Recursion
<1>3. S = Nat
  <2> HIDE DEF S
  <2>1. S \in SUBSET Nat
    BY DEF S
  <2> QED
    BY <1>1, <1>2, <2>1, NatSetInduction
<1>4. N \in S
  <2> HIDE DEF S
  <2> QED
    BY <1>3
<1> QED
  BY <1>4

-----------------------------------------------------------------------------
(* Numbers and their bytes                                                 *)

Byte == 0..255

LEMMA ShiftedIs ==
    ASSUME NEW v \in Nat
    PROVE  /\ Shifted(v)[0] = v
           /\ \A i \in 0..8 : Shifted(v)[i] \in Nat
           /\ \A i \in 0..7 : Shifted(v)[i + 1] = Shifted(v)[i] \div 256
<1> DEFINE g == [i \in 1..8 |-> [w \in Nat |-> w \div 256]]
           F(s) == s = [i \in 0..8 |-> IF i = 0 THEN v ELSE s[i - 1] \div 256]
<1>1. PICK f : Recursion(f, 8, v, g) /\ \A i \in 0..8 : f[i] \in Nat
  <2>1. \A w \in Nat : w \div 256 \in Nat
    OBVIOUS
  <2>2. g \in [1..8 -> [Nat -> Nat]]
    BY <2>1
  <2> QED
    BY <2>2, RecursionExists
<1>2. \A i \in 1..8 : f[i] = f[i - 1] \div 256
  <2> TAKE i \in 1..8
  <2>1. f[i] = g[i][f[i - 1]] /\ f[i - 1] \in Nat
    BY <1>1 DEF Recursion
  <2> QED
    BY <2>1
<1>3. F(f)
  <2>1. f = [i \in 0..8 |-> f[i]] /\ f[0] = v
    BY <1>1 DEF Recursion
  <2> QED
    BY <1>2, <2>1
<1>4. Shifted(v) = CHOOSE s : F(s)
  BY DEF Shifted
<1>5. F(Shifted(v))
  <2> HIDE DEF F
  <2> QED
    BY <1>3, <1>4
<1>6. \A i \in 0..8 : Shifted(v)[i] = IF i = 0 THEN v ELSE Shifted(v)[i - 1] \div 256
  <2> PICK s : s = Shifted(v)
    OBVIOUS
  <2>1. s = [i \in 0..8 |-> IF i = 0 THEN v ELSE s[i - 1] \div 256]
    BY <1>5
  <2> QED
    BY <2>1
<1>7. \A i \in 0..8 : Shifted(v)[i] \in Nat
  <2> DEFINE S == {i \in Nat : i <= 8 => Shifted(v)[i] \in Nat}
  <2>1. 0 \in S
    BY <1>6
  <2>2. ASSUME NEW i \in S
        PROVE  i + 1 \in S
    <3> SUFFICES ASSUME i + 1 <= 8
                 PROVE  Shifted(v)[i + 1] \in Nat
      OBVIOUS
    <3>1. i + 1 \in 0..8 /\ i + 1 # 0 /\ (i + 1) - 1 = i /\ Shifted(v)[i] \in Nat
      OBVIOUS
    <3>2. Shifted(v)[i + 1] = Shifted(v)[i] \div 256
      BY <1>6, <3>1
    <3> QED
      BY <3>1, <3>2
  <2>3. S = Nat
    <3> HIDE DEF S
    <3>1. S \in SUBSET Nat
      BY DEF S
    <3> QED
      BY <2>1, <2>2, <3>1, NatSetInduction
  <2> QED
    BY <2>3
<1>8. \A i \in 0..7 : Shifted(v)[i + 1] = Shifted(v)[i] \div 256
  <2> TAKE i \in 0..7
  <2>1. i + 1 \in 0..8 /\ i + 1 # 0 /\ (i + 1) - 1 = i
    OBVIOUS
  <2> QED
    BY <1>6, <2>1
<1> QED
  BY <1>6, <1>7, <1>8

\* Smaller numbers do not take more bytes.
LEMMA SmallerFits ==
    ASSUME NEW v \in U64, NEW w \in 0..v
    PROVE  w \in U64
<1>1. v \in Nat /\ w \in Nat /\ w <= v /\ Shifted(v)[8] = 0
  BY DEF U64, Fits
<1> DEFINE S == {i \in Nat : i <= 8 => Shifted(w)[i] <= Shifted(v)[i]}
<1>2. 0 \in S
  BY <1>1, ShiftedIs
<1>3. ASSUME NEW i \in S
      PROVE  i + 1 \in S
  <2> SUFFICES ASSUME i + 1 <= 8
               PROVE  Shifted(w)[i + 1] <= Shifted(v)[i + 1]
    OBVIOUS
  <2>1. i \in 0..7 /\ i \in 0..8 /\ Shifted(w)[i] <= Shifted(v)[i]
    OBVIOUS
  <2>2. Shifted(w)[i] \in Nat /\ Shifted(v)[i] \in Nat
    BY <1>1, <2>1, ShiftedIs
  <2>3. \A x, y \in Nat : x <= y => x \div 256 <= y \div 256
    OBVIOUS
  <2>4. /\ Shifted(w)[i + 1] = Shifted(w)[i] \div 256
        /\ Shifted(v)[i + 1] = Shifted(v)[i] \div 256
    BY <1>1, <2>1, ShiftedIs
  <2> QED
    BY <2>1, <2>2, <2>3, <2>4
<1>4. S = Nat
  <2> HIDE DEF S
  <2>1. S \in SUBSET Nat
    BY DEF S
  <2> QED
    BY <1>2, <1>3, <2>1, NatSetInduction
<1>5. Shifted(w)[8] <= 0 /\ Shifted(w)[8] \in Nat
  BY <1>1, <1>4, ShiftedIs
<1> QED
  BY <1>1, <1>5 DEF U64, Fits

LEMMA ByteIsNat == \A x \in Byte : x \in Nat
BY DEF Byte

LEMMA FromBigEndianIs ==
    ASSUME NEW b \in Seq(Byte)
    PROVE  \E f : /\ FromBigEndian(b) = f[Len(b)]
                  /\ f[0] = 0
                  /\ \A i \in 0..Len(b) - 1 : f[i + 1] = 256 * f[i] + b[i + 1]
<1> DEFINE F(s) == s = [i \in 0..Len(b) |-> IF i = 0 THEN 0 ELSE 256 * s[i - 1] + b[i]]
<1>1. PICK n \in Nat : n = Len(b) /\ b \in [1..n -> Byte]
  BY LenProperties
<1>2. PICK g : g = [i \in 1..n |-> [w \in Nat |-> 256 * w + b[i]]]
  OBVIOUS
<1>3. \A i \in 1..n : b[i] \in Nat
  <2>1. \A i \in 1..n : b[i] \in Byte
    BY <1>1
  <2> QED
    BY <2>1, ByteIsNat
<1>4. g \in [1..n -> [Nat -> Nat]]
  <2>1. \A i \in 1..n, w \in Nat : 256 * w + b[i] \in Nat
    BY <1>3
  <2> QED
    BY <1>2, <2>1
<1>5. PICK f : Recursion(f, n, 0, g) /\ \A i \in 0..n : f[i] \in Nat
  BY <1>4, RecursionExists
<1>6. \A i \in 1..n : f[i] = 256 * f[i - 1] + b[i]
  <2> TAKE i \in 1..n
  <2>1. i - 1 \in 0..n
    OBVIOUS
  <2>2. f[i - 1] \in Nat
    BY <1>5, <2>1
  <2>3. f[i] = g[i][f[i - 1]]
    BY <1>5 DEF Recursion
  <2> QED
    BY <1>2, <2>2, <2>3
<1>7. F(f)
  <2>1. f = [i \in 0..n |-> f[i]] /\ f[0] = 0
    BY <1>5 DEF Recursion
  <2>2. \A i \in 0..n : f[i] = IF i = 0 THEN 0 ELSE 256 * f[i - 1] + b[i]
    <3>1. \A i \in 0..n : i = 0 \/ (i # 0 /\ i \in 1..n)
      OBVIOUS
    <3> QED
      BY <1>6, <2>1, <3>1
  <2> QED
    BY <1>1, <2>1, <2>2
<1>8. PICK r : r = CHOOSE s : F(s)
  OBVIOUS
<1>9. F(r)
  <2> HIDE DEF F
  <2> QED
    BY <1>7, <1>8
<1>10. FromBigEndian(b) = r[Len(b)]
  BY <1>8 DEF FromBigEndian
<1>11. \A i \in 0..n : r[i] = IF i = 0 THEN 0 ELSE 256 * r[i - 1] + b[i]
  BY <1>1, <1>9
<1>12. \A i \in 0..n - 1 : r[i + 1] = 256 * r[i] + b[i + 1]
  <2> HIDE DEF F
  <2> TAKE i \in 0..n - 1
  <2>1. PICK j \in 0..n : j = i + 1 /\ j # 0 /\ j - 1 = i
    OBVIOUS
  <2>2. r[j] = 256 * r[j - 1] + b[j]
    BY <1>11, <2>1
  <2> QED
    BY <2>1, <2>2
<1> QED
  BY <1>1, <1>10, <1>11, <1>12

LEMMA ShiftedStep ==
    ASSUME NEW v \in Nat, NEW j \in 0..7
    PROVE  Shifted(v)[j] \in Nat /\ Shifted(v)[j + 1] = Shifted(v)[j] \div 256
<1>1. j \in 0..8
  OBVIOUS
<1> QED
  BY <1>1, ShiftedIs

\* The last n bytes of v.
EndsIn(v, b, n) == Len(b) = n /\ \A i \in 1..n : b[i] = Shifted(v)[n - i] % 256

LEMMA ReadsShifted ==
    ASSUME NEW v \in Nat, NEW n \in 0..8, Fits(v, n), NEW b \in Seq(Byte), EndsIn(v, b, n)
    PROVE  FromBigEndian(b) = v
<1>1. PICK f : /\ FromBigEndian(b) = f[n]
               /\ f[0] = 0
               /\ \A i \in 0..n - 1 : f[i + 1] = 256 * f[i] + b[i + 1]
  BY FromBigEndianIs DEF EndsIn
<1> DEFINE S == {i \in Nat : i <= n => f[i] = Shifted(v)[n - i]}
<1>2. 0 \in S
  BY <1>1 DEF Fits
<1>3. ASSUME NEW i \in S
      PROVE  i + 1 \in S
  <2> SUFFICES ASSUME i + 1 <= n
               PROVE  f[i + 1] = Shifted(v)[n - (i + 1)]
    OBVIOUS
  <2>1. PICK j \in 0..7 : j = n - (i + 1) /\ j + 1 = n - i /\ j \in 0..8
    OBVIOUS
  <2>2. f[i] = Shifted(v)[j + 1]
    BY <2>1
  <2>3. Shifted(v)[j] \in Nat /\ Shifted(v)[j + 1] = Shifted(v)[j] \div 256
    <3> HIDE DEF S
    <3> QED
      BY ShiftedStep
  <2>4. i + 1 \in 1..n /\ i \in 0..n - 1
    OBVIOUS
  <2>5. f[i + 1] = 256 * f[i] + b[i + 1] /\ b[i + 1] = Shifted(v)[j] % 256
    BY <1>1, <2>1, <2>4 DEF EndsIn
  <2>6. PICK x \in Nat : x = Shifted(v)[j]
    BY <2>3
  <2>7. 256 * (x \div 256) + (x % 256) = x
    OBVIOUS
  <2> HIDE DEF S
  <2>8. f[i + 1] = 256 * (x \div 256) + (x % 256)
    BY <2>2, <2>3, <2>5, <2>6
  <2> QED
    BY <2>1, <2>6, <2>7, <2>8
<1>4. S = Nat
  <2> HIDE DEF S
  <2>1. S \in SUBSET Nat
    BY DEF S
  <2> QED
    BY <1>2, <1>3, <2>1, NatSetInduction
<1>5. n \in S
  <2> HIDE DEF S
  <2> QED
    BY <1>4
<1>6. f[n] = Shifted(v)[0]
  BY <1>5
<1> QED
  BY <1>1, <1>6, ShiftedIs

LEMMA GreatestIsIn ==
    ASSUME NEW S \in SUBSET (0..8), S # {}
    PROVE  Max(S) \in S
<1>1. \E m \in S : \A k \in S : k <= m
  <2> DEFINE T == {n \in Nat : \A m \in S : n <= 8 => ~(m >= 8 - n)}
  <2> SUFFICES ASSUME \A m \in S : \E k \in S : ~(k <= m)
               PROVE  FALSE
    OBVIOUS
  <2>0. \A m \in S : m \in 0..8
    OBVIOUS
  <2>1. 0 \in T
    BY <2>0
  <2>2. ASSUME NEW n \in T
        PROVE  n + 1 \in T
    BY <2>0
  <2>3. T = Nat
    <3> HIDE DEF T
    <3>1. T \in SUBSET Nat
      BY DEF T
    <3> QED
      BY <2>1, <2>2, <3>1, NatSetInduction
  <2>4. 8 \in T
    BY <2>3
  <2>5. \A m \in S : ~(m >= 8 - 8)
    BY <2>4
  <2>6. \A m \in S : m >= 8 - 8
    BY <2>0
  <2> QED
    BY <2>5, <2>6
<1> QED
  BY <1>1 DEF Max

LEMMA BigEndianIs ==
    ASSUME NEW v \in Nat, NEW n \in 0..8
    PROVE  /\ BigEndian(v, n) \in Seq(Byte) /\ Len(BigEndian(v, n)) = n
           /\ EndsIn(v, BigEndian(v, n), n)
<1>1. \A i \in 1..n : Shifted(v)[n - i] \in Nat
  <2>1. \A i \in 1..n : n - i \in 0..8
    OBVIOUS
  <2> QED
    BY <2>1, ShiftedIs
<1>2. \A x \in Nat : x % 256 \in Byte
  BY DEF Byte
<1>3. BigEndian(v, n) \in [1..n -> Byte]
  BY <1>1, <1>2 DEF BigEndian
<1>4. BigEndian(v, n) \in Seq(Byte) /\ Len(BigEndian(v, n)) = n
  BY <1>3, SeqDef, LenProperties
<1> QED
  BY <1>4 DEF BigEndian, EndsIn

LEMMA BigEndianReads ==
    ASSUME NEW v \in Nat, NEW n \in 0..8, Fits(v, n)
    PROVE  FromBigEndian(BigEndian(v, n)) = v
<1>1. PICK b \in Seq(Byte) : b = BigEndian(v, n) /\ EndsIn(v, b, n)
  BY BigEndianIs
<1> QED
  BY <1>1, ReadsShifted

\* Leading zeros may be left out.
LEMMA PutTu64Reads ==
    ASSUME NEW v \in U64
    PROVE  /\ PutTu64(v) \in Seq(Byte)
           /\ Len(PutTu64(v)) \in 0..8
           /\ FromBigEndian(PutTu64(v)) = v
<1>1. v \in Nat /\ Shifted(v)[8] = 0
  BY DEF U64, Fits
<1> DEFINE bytes == BigEndian(v, 8)
           zeros == {k \in 0..8 : \A i \in 1..k : bytes[i] = 0}
<1>2. /\ bytes \in Seq(Byte) /\ Len(bytes) = 8
      /\ \A i \in 1..8 : bytes[i] = Shifted(v)[8 - i] % 256
  BY <1>1, BigEndianIs DEF EndsIn
<1>3. PICK k \in zeros : k = Max(zeros)
  <2>1. 0 \in zeros
    OBVIOUS
  <2>2. zeros \in SUBSET (0..8)
    OBVIOUS
  <2> HIDE DEF zeros
  <2> QED
    BY <2>1, <2>2, GreatestIsIn
<1>4. PICK b : b = SubSeq(bytes, k + 1, 8)
  OBVIOUS
<1>5. b = PutTu64(v)
  BY <1>3, <1>4 DEF PutTu64
<1>6. k \in 0..8 /\ \A i \in 1..k : bytes[i] = 0
  BY <1>3
<1>7. /\ b \in Seq(Byte) /\ Len(b) = 8 - k
      /\ \A i \in 1..8 - k : b[i] = bytes[k + i]
  <2> HIDE DEF bytes
  <2>1. \A i \in k + 1..8 : i \in 1..Len(bytes)
    BY <1>2, <1>6
  <2>2. \A i \in k + 1..8 : bytes[i] \in Byte
    BY <1>2, <2>1, ElementOfSeq
  <2>3. PICK m \in Int : m = k + 1
    BY <1>6
  <2>4. /\ SubSeq(bytes, m, 8) \in Seq(Byte)
        /\ Len(SubSeq(bytes, m, 8)) = IF m <= 8 THEN 8 - m + 1 ELSE 0
        /\ \A i \in 1..8 - m + 1 : SubSeq(bytes, m, 8)[i] = bytes[m + i - 1]
    BY <2>2, <2>3, SubSeqProperties
  <2>5. 8 - m + 1 = 8 - k /\ (IF m <= 8 THEN 8 - m + 1 ELSE 0) = 8 - k
    BY <1>6, <2>3
  <2>6. \A i \in 1..8 - k : m + i - 1 = k + i
    BY <1>6, <2>3
  <2>7. b = SubSeq(bytes, m, 8)
    BY <1>4, <2>3
  <2> QED
    BY <2>4, <2>5, <2>6, <2>7
<1>8. \A i \in 1..8 - k : b[i] = Shifted(v)[(8 - k) - i] % 256
  <2> HIDE DEF bytes
  <2> TAKE i \in 1..8 - k
  <2>1. PICK m \in 1..8 : m = k + i /\ 8 - m = (8 - k) - i
    BY <1>6
  <2>2. b[i] = bytes[m]
    BY <1>7, <2>1
  <2> QED
    BY <1>2, <2>1, <2>2
<1>9. Shifted(v)[8 - k] = 0
  <2> HIDE DEF bytes
  <2> DEFINE S == {i \in Nat : i <= k => Shifted(v)[8 - i] = 0}
  <2>1. 0 \in S
    BY <1>1
  <2>2. ASSUME NEW i \in S
        PROVE  i + 1 \in S
    <3> SUFFICES ASSUME i + 1 <= k
                 PROVE  Shifted(v)[8 - (i + 1)] = 0
      OBVIOUS
    <3>1. PICK j \in 0..7 : j = 8 - (i + 1) /\ j + 1 = 8 - i /\ j \in 0..8
      BY <1>6
    <3>2. Shifted(v)[j + 1] = 0
      BY <3>1
    <3>3. Shifted(v)[j] % 256 = 0
      <4>1. i + 1 \in 1..k /\ i + 1 \in 1..8
        BY <1>6
      <4> QED
        BY <1>2, <1>6, <3>1, <4>1
    <3>4. Shifted(v)[j] \in Nat /\ Shifted(v)[j + 1] = Shifted(v)[j] \div 256
      BY <1>1, ShiftedStep
    <3>5. \A x \in Nat : x \div 256 = 0 /\ x % 256 = 0 => x = 0
      OBVIOUS
    <3> HIDE DEF S
    <3> QED
      BY <3>1, <3>2, <3>3, <3>4, <3>5
  <2>3. S = Nat
    <3> HIDE DEF S
    <3>1. S \in SUBSET Nat
      BY DEF S
    <3> QED
      BY <2>1, <2>2, <3>1, NatSetInduction
  <2>4. k \in S
    <3> HIDE DEF S
    <3> QED
      BY <1>6, <2>3
  <2> QED
    BY <2>4
<1>10. FromBigEndian(b) = v
  <2> HIDE DEF bytes, zeros
  <2>1. PICK m \in 0..8 : m = 8 - k
    BY <1>6
  <2>2. EndsIn(v, b, m)
    BY <1>7, <1>8, <2>1 DEF EndsIn
  <2>3. Fits(v, m)
    BY <1>9, <2>1 DEF Fits
  <2> QED
    BY <1>1, <1>7, <2>2, <2>3, ReadsShifted
<1> QED
  BY <1>5, <1>6, <1>7, <1>10

-----------------------------------------------------------------------------
(* Pieces of byte sequences                                                *)

\* s is what b has from position p on.
Holds(b, p, s) == \A i \in 1..Len(s) : p - 1 + i \in 1..Len(b) /\ b[p - 1 + i] = s[i]

LEMMA Further ==
    ASSUME NEW m \in Nat, NEW n \in Nat, NEW i \in 1..n
    PROVE  m + i \in 1..m + n /\ ~(m + i <= m) /\ (m + i) - m = i
OBVIOUS

LEMMA HoldsParts ==
    ASSUME NEW b \in Seq(Byte), NEW p \in Nat, NEW s \in Seq(Byte), NEW t \in Seq(Byte),
           Holds(b, p, s \o t)
    PROVE  Holds(b, p, s) /\ Holds(b, p + Len(s), t)
<1>1. /\ Len(s \o t) = Len(s) + Len(t) /\ Len(s) \in Nat /\ Len(t) \in Nat
      /\ \A i \in 1..Len(s) + Len(t) :
            (s \o t)[i] = IF i <= Len(s) THEN s[i] ELSE t[i - Len(s)]
  BY ConcatProperties, LenProperties
<1>2. ASSUME NEW i \in 1..Len(s)
      PROVE  p - 1 + i \in 1..Len(b) /\ b[p - 1 + i] = s[i]
  <2>1. i \in 1..Len(s) + Len(t) /\ i <= Len(s)
    BY <1>1
  <2> QED
    BY <1>1, <2>1 DEF Holds
<1>3. ASSUME NEW i \in 1..Len(t)
      PROVE  p + Len(s) - 1 + i \in 1..Len(b) /\ b[p + Len(s) - 1 + i] = t[i]
  <2>0. Len(s) + i \in 1..Len(s) + Len(t) /\ ~(Len(s) + i <= Len(s)) /\ (Len(s) + i) - Len(s) = i
    BY <1>1, Further
  <2>1. PICK j \in 1..Len(s) + Len(t) : j = Len(s) + i /\ ~(j <= Len(s)) /\ j - Len(s) = i
    BY <2>0
  <2>4. p - 1 + j = p + Len(s) - 1 + i
    BY <1>1, <2>1
  <2>2. (s \o t)[j] = t[i]
    BY <1>1, <2>1
  <2>3. p - 1 + j \in 1..Len(b) /\ b[p - 1 + j] = (s \o t)[j]
    BY <1>1 DEF Holds
  <2> QED
    BY <2>2, <2>3, <2>4
<1> QED
  BY <1>2, <1>3 DEF Holds

LEMMA HoldsMore ==
    ASSUME NEW b \in Seq(Byte), NEW c \in Seq(Byte), NEW p \in Nat, NEW s \in Seq(Byte),
           Holds(b, p, s)
    PROVE  Holds(b \o c, p, s)
<1>1. /\ Len(b \o c) = Len(b) + Len(c) /\ Len(b) \in Nat /\ Len(c) \in Nat
      /\ \A i \in 1..Len(b) + Len(c) :
            (b \o c)[i] = IF i <= Len(b) THEN b[i] ELSE c[i - Len(b)]
  BY ConcatProperties, LenProperties
<1>2. ASSUME NEW i \in 1..Len(s)
      PROVE  p - 1 + i \in 1..Len(b \o c) /\ (b \o c)[p - 1 + i] = s[i]
  <2>1. PICK j : j = p - 1 + i
    OBVIOUS
  <2>2. j \in 1..Len(b) /\ b[j] = s[i]
    BY <2>1 DEF Holds
  <2>3. j \in 1..Len(b) + Len(c) /\ j <= Len(b)
    BY <1>1, <2>2
  <2>4. (b \o c)[j] = s[i]
    BY <1>1, <2>2, <2>3
  <2> QED
    BY <1>1, <2>1, <2>3, <2>4
<1> QED
  BY <1>2 DEF Holds

\* A piece of c is one of b \o c.
LEMMA HoldsBehind ==
    ASSUME NEW b \in Seq(Byte), NEW c \in Seq(Byte), NEW p \in Nat, NEW s \in Seq(Byte),
           Holds(c, p, s)
    PROVE  Holds(b \o c, Len(b) + p, s)
<1>1. /\ Len(b \o c) = Len(b) + Len(c) /\ Len(b) \in Nat /\ Len(c) \in Nat
      /\ \A i \in 1..Len(b) + Len(c) :
            (b \o c)[i] = IF i <= Len(b) THEN b[i] ELSE c[i - Len(b)]
  BY ConcatProperties, LenProperties
<1>2. ASSUME NEW i \in 1..Len(s)
      PROVE  Len(b) + p - 1 + i \in 1..Len(b \o c) /\ (b \o c)[Len(b) + p - 1 + i] = s[i]
  <2>1. PICK k \in 1..Len(c) : k = p - 1 + i /\ c[k] = s[i]
    BY DEF Holds
  <2>5. Len(b) + k \in 1..Len(b) + Len(c) /\ ~(Len(b) + k <= Len(b)) /\ (Len(b) + k) - Len(b) = k
    BY <1>1, Further
  <2>2. PICK j \in 1..Len(b) + Len(c) : j = Len(b) + k /\ ~(j <= Len(b)) /\ j - Len(b) = k
    BY <2>5
  <2>3. (b \o c)[j] = s[i]
    BY <1>1, <2>1, <2>2
  <2>4. Len(b) + p - 1 + i = j
    BY <1>1, <2>1, <2>2
  <2> QED
    BY <1>1, <2>3, <2>4
<1> QED
  BY <1>2 DEF Holds

LEMMA HoldsItself ==
    ASSUME NEW s \in Seq(Byte)
    PROVE  Holds(s, 1, s)
<1>1. \A i \in 1..Len(s) : 1 - 1 + i = i
  BY LenProperties
<1> QED
  BY <1>1 DEF Holds

LEMMA HeldIsSubSeq ==
    ASSUME NEW b \in Seq(Byte), NEW p \in Nat, NEW s \in Seq(Byte), Holds(b, p, s)
    PROVE  SubSeq(b, p, p + Len(s) - 1) = s
<1>1. Len(s) \in Nat
  BY LenProperties
<1>2. PICK n \in Int : n = p + Len(s) - 1
  <2>1. p + Len(s) - 1 \in Int
    BY <1>1
  <2> QED
    BY <2>1
<1>3. \A i \in p..n : b[i] \in Byte
  <2> TAKE i \in p..n
  <2>1. PICK j \in 1..Len(s) : p - 1 + j = i
    <3>1. i - p + 1 \in 1..Len(s) /\ p - 1 + (i - p + 1) = i
      BY <1>1, <1>2
    <3> QED
      BY <3>1
  <2>2. i \in 1..Len(b)
    BY <2>1 DEF Holds
  <2> QED
    BY <2>2, ElementOfSeq
<1>4. PICK t : t = SubSeq(b, p, n)
  OBVIOUS
<1>5. /\ t \in Seq(Byte)
      /\ Len(t) = IF p <= n THEN n - p + 1 ELSE 0
      /\ \A i \in 1..n - p + 1 : t[i] = b[p + i - 1]
  BY <1>3, <1>4, SubSeqProperties
<1>6. Len(t) = Len(s) /\ n - p + 1 = Len(s)
  BY <1>1, <1>2, <1>5
<1>7. \A i \in 1..Len(s) : t[i] = s[i]
  <2> TAKE i \in 1..Len(s)
  <2>1. p - 1 + i = p + i - 1
    BY <1>1
  <2>2. t[i] = b[p + i - 1] /\ b[p - 1 + i] = s[i]
    BY <1>5, <1>6 DEF Holds
  <2> QED
    BY <2>1, <2>2
<1>8. t = s
  BY <1>5, <1>6, <1>7, SeqEqual
<1> QED
  BY <1>2, <1>4, <1>8

-----------------------------------------------------------------------------
(* Compact sizes                                                           *)

Tag(n) == IF n = 2 THEN 253 ELSE IF n = 4 THEN 254 ELSE 255

\* v in n bytes behind a tag that says so.
Tagged(v, s, n) ==
    /\ Fits(v, n)
    /\ s = <<Tag(n)>> \o BigEndian(v, n)

LEMMA CompactSizeForms ==
    ASSUME NEW v \in U64
    PROVE  (v <= 252 /\ PutCompactSize(v) = <<v>>) \/ \E n \in {2, 4, 8} : Tagged(v, PutCompactSize(v), n)
<1>1. v \in Nat /\ Fits(v, 8)
  BY DEF U64
<1>2. CASE v <= 252
  <2>1. PutCompactSize(v) = <<v>>
    BY <1>1, <1>2 DEF PutCompactSize
  <2> QED
    BY <1>2, <2>1
<1>3. CASE v > 252 /\ v <= 65535
  <2>1. Fits(v, 2)
    <3>1. /\ Shifted(v)[0] = v
          /\ Shifted(v)[0 + 1] = Shifted(v)[0] \div 256
          /\ Shifted(v)[1 + 1] = Shifted(v)[1] \div 256
      BY <1>1, ShiftedIs
    <3>2. (v \div 256) \div 256 = 0
      BY <1>1, <1>3
    <3> QED
      BY <3>1, <3>2 DEF Fits
  <2>2. PutCompactSize(v) = <<253>> \o BigEndian(v, 2)
    BY <1>1, <1>3 DEF PutCompactSize
  <2> QED
    BY <2>1, <2>2 DEF Tagged, Tag
<1>4. CASE v > 65535 /\ Fits(v, 4)
  <2>1. PutCompactSize(v) = <<254>> \o BigEndian(v, 4)
    BY <1>1, <1>4 DEF PutCompactSize
  <2> QED
    BY <1>4, <2>1 DEF Tagged, Tag
<1>5. CASE v > 65535 /\ ~Fits(v, 4)
  <2>1. PutCompactSize(v) = <<255>> \o BigEndian(v, 8)
    BY <1>1, <1>5 DEF PutCompactSize
  <2> QED
    BY <1>1, <2>1 DEF Tagged, Tag
<1> QED
  BY <1>1, <1>2, <1>3, <1>4, <1>5

LEMMA TaggedIs ==
    ASSUME NEW v \in U64, NEW n \in {2, 4, 8}, NEW s, Tagged(v, s, n)
    PROVE  /\ s \in Seq(Byte) /\ Len(s) = n + 1
           /\ s[1] = Tag(n)
           /\ \A b \in Seq(Byte), p \in Nat :
                 Holds(b, p, s) => Holds(b, p + 1, BigEndian(v, n))
<1>1. PICK tag \in Byte : tag = Tag(n)
  BY DEF Byte, Tag
<1>2. s = <<tag>> \o BigEndian(v, n)
  BY <1>1 DEF Tagged, Tag
<1>3. v \in Nat /\ n \in 0..8
  BY DEF U64
<1>4. BigEndian(v, n) \in Seq(Byte) /\ Len(BigEndian(v, n)) = n
  BY <1>3, BigEndianIs
<1>5. <<tag>> \in Seq(Byte) /\ Len(<<tag>>) = 1 /\ <<tag>>[1] = tag
  OBVIOUS
<1>6. s \in Seq(Byte) /\ Len(s) = n + 1 /\ s[1] = tag
  <2>1. /\ <<tag>> \o BigEndian(v, n) \in Seq(Byte)
        /\ Len(<<tag>> \o BigEndian(v, n)) = 1 + n
        /\ \A i \in 1..1 + n : (<<tag>> \o BigEndian(v, n))[i] =
              IF i <= 1 THEN <<tag>>[i] ELSE BigEndian(v, n)[i - 1]
    BY <1>4, <1>5, ConcatProperties
  <2>2. 1 \in 1..1 + n /\ 1 + n = n + 1
    BY <1>3
  <2> QED
    BY <1>2, <1>5, <2>1, <2>2
<1>7. ASSUME NEW b \in Seq(Byte), NEW p \in Nat, Holds(b, p, s)
      PROVE  Holds(b, p + 1, BigEndian(v, n))
  BY <1>2, <1>4, <1>5, <1>7, HoldsParts
<1> QED
  BY <1>1, <1>6, <1>7

LEMMA CompactSizeIs ==
    ASSUME NEW v \in U64
    PROVE  /\ PutCompactSize(v) \in Seq(Byte)
           /\ Len(PutCompactSize(v)) >= 1 /\ Len(PutCompactSize(v)) <= 9
<1>1. CASE v <= 252 /\ PutCompactSize(v) = <<v>>
  <2>1. v \in Byte
    BY <1>1 DEF U64, Byte
  <2> QED
    BY <1>1, <2>1
<1>2. CASE \E n \in {2, 4, 8} : Tagged(v, PutCompactSize(v), n)
  <2>1. PICK n \in {2, 4, 8} : Tagged(v, PutCompactSize(v), n)
    BY <1>2
  <2>2. PutCompactSize(v) \in Seq(Byte) /\ Len(PutCompactSize(v)) = n + 1
    BY <2>1, TaggedIs
  <2>3. n + 1 >= 1 /\ n + 1 <= 9
    OBVIOUS
  <2> QED
    BY <2>2, <2>3
<1> QED
  BY <1>1, <1>2, CompactSizeForms

\* A compact size is read as it was put.
LEMMA CompactSizeReads ==
    ASSUME NEW b \in Seq(Byte), NEW p \in Nat, NEW v \in U64, Holds(b, p, PutCompactSize(v))
    PROVE  Width(b, p) = Len(PutCompactSize(v)) /\ CompactSize(b, p) = v
<1>1. PICK s : s = PutCompactSize(v)
  OBVIOUS
<1>2. s \in Seq(Byte) /\ Len(s) >= 1
  BY <1>1, CompactSizeIs
<1>3. b[p] = s[1]
  <2>1. 1 \in 1..Len(s) /\ p - 1 + 1 = p
    BY <1>2, LenProperties
  <2> QED
    BY <1>1, <2>1 DEF Holds
<1>4. CASE v <= 252 /\ s = <<v>>
  <2>1. b[p] = v /\ Len(s) = 1 /\ v \in Nat
    BY <1>3, <1>4 DEF U64
  <2>2. Width(b, p) = 1
    BY <1>4, <2>1 DEF Width
  <2> QED
    BY <1>1, <2>1, <2>2 DEF CompactSize
<1>5. CASE \E n \in {2, 4, 8} : Tagged(v, s, n)
  <2>1. PICK n \in {2, 4, 8} : Tagged(v, s, n)
    BY <1>5
  <2>2. /\ Len(s) = n + 1
        /\ s[1] = Tag(n)
        /\ \A c \in Seq(Byte), q \in Nat :
              Holds(c, q, s) => Holds(c, q + 1, BigEndian(v, n))
    BY <2>1, TaggedIs
  <2>9. Holds(b, p + 1, BigEndian(v, n))
    BY <1>1, <2>2
  <2>3. Width(b, p) = n + 1
    BY <1>3, <2>2 DEF Width, Tag
  <2>4. v \in Nat /\ n \in 0..8 /\ Fits(v, n)
    BY <2>1 DEF U64, Tagged
  <2>5. BigEndian(v, n) \in Seq(Byte) /\ Len(BigEndian(v, n)) = n
    BY <2>4, BigEndianIs
  <2>6. SubSeq(b, p + 1, p + 1 + n - 1) = BigEndian(v, n)
    <3>1. p + 1 \in Nat
      OBVIOUS
    <3> QED
      BY <2>5, <2>9, <3>1, HeldIsSubSeq
  <2>7. p + 1 + n - 1 = p + (n + 1) - 1 /\ n + 1 # 1
    BY <2>4
  <2>8. CompactSize(b, p) = FromBigEndian(BigEndian(v, n))
    BY <2>3, <2>6, <2>7 DEF CompactSize
  <2> QED
    BY <1>1, <2>2, <2>3, <2>4, <2>8, BigEndianReads
<1> QED
  BY <1>1, <1>4, <1>5, CompactSizeForms

-----------------------------------------------------------------------------
(* Streams                                                                 *)

Value == {s \in Seq(Byte) : Len(s) \in U64}
TlvEntry == [typ : U64, value : Value]

Encoded(e) == PutCompactSize(e.typ) \o PutCompactSize(Len(e.value)) \o e.value

LEMMA EncodedIs ==
    ASSUME NEW e \in TlvEntry
    PROVE  /\ Encoded(e) \in Seq(Byte)
           /\ Len(Encoded(e)) = (Len(PutCompactSize(e.typ)) + Len(PutCompactSize(Len(e.value))))
                                    + Len(e.value)
           /\ Len(Encoded(e)) >= 2
<1>1. e.typ \in U64 /\ e.value \in Seq(Byte) /\ Len(e.value) \in U64
  BY DEF TlvEntry, Value
<1>2. PICK t \in Seq(Byte) : t = PutCompactSize(e.typ) /\ Len(t) >= 1 /\ Len(t) \in Nat
  BY <1>1, CompactSizeIs, LenProperties
<1>3. PICK s \in Seq(Byte) : s = PutCompactSize(Len(e.value)) /\ Len(s) >= 1 /\ Len(s) \in Nat
  BY <1>1, CompactSizeIs, LenProperties
<1>4. t \o s \in Seq(Byte) /\ Len(t \o s) = Len(t) + Len(s)
  BY ConcatProperties
<1>5. t \o s \o e.value \in Seq(Byte) /\ Len(t \o s \o e.value) = Len(t \o s) + Len(e.value)
  BY <1>1, <1>4, ConcatProperties
<1>6. PICK lt, ls, lv \in Nat : lt = Len(t) /\ ls = Len(s) /\ lv = Len(e.value)
  BY <1>1, <1>2, <1>3, LenProperties
<1>7. lt >= 1 /\ ls >= 1 /\ Len(t \o s \o e.value) = (lt + ls) + lv
  BY <1>2, <1>3, <1>4, <1>5, <1>6
<1>8. Len(t \o s \o e.value) >= 2
  <2>1. (lt + ls) + lv >= 2
    BY <1>7
  <2> QED
    BY <1>7, <2>1
<1>9. Encoded(e) = t \o s \o e.value
  BY <1>2, <1>3 DEF Encoded
<1>10. Len(Encoded(e)) = (Len(t) + Len(s)) + Len(e.value)
  BY <1>6, <1>7, <1>9
<1> QED
  BY <1>2, <1>3, <1>5, <1>8, <1>9, <1>10

\* Where the loop is.
Got(p, es) == [at |-> p, entries |-> es]

\* An entry is read as it was written.
LEMMA EntryReads ==
    ASSUME NEW b \in Seq(Byte), NEW p \in Nat, p >= 1, NEW e \in TlvEntry,
           Holds(b, p, Encoded(e)), NEW es
    PROVE  ReadEntry(b, Got(p, es)) = Got(p + Len(Encoded(e)), Append(es, e))
<1>1. e.typ \in U64 /\ e.value \in Seq(Byte) /\ Len(e.value) \in U64
  BY DEF TlvEntry, Value
<1>2. PICK t \in Seq(Byte) : t = PutCompactSize(e.typ)
  BY <1>1, CompactSizeIs
<1>3. PICK s \in Seq(Byte) : s = PutCompactSize(Len(e.value))
  BY <1>1, CompactSizeIs
<1>4. PICK lt, ls, lv, lb \in Nat : lt = Len(t) /\ ls = Len(s) /\ lv = Len(e.value) /\ lb = Len(b)
  BY <1>1, LenProperties
<1>5. PICK n \in Nat : n = Len(Encoded(e)) /\ n = (lt + ls) + lv /\ n >= 2
  <2>1. (lt + ls) + lv \in Nat
    OBVIOUS
  <2>2. Len(Encoded(e)) = (lt + ls) + lv /\ Len(Encoded(e)) >= 2
    BY <1>2, <1>3, <1>4, EncodedIs
  <2> QED
    BY <2>1, <2>2
<1>6. t \o s \in Seq(Byte) /\ Len(t \o s) = lt + ls
  BY <1>4, ConcatProperties
<1>7. Holds(b, p, t \o s) /\ Holds(b, p + (lt + ls), e.value)
  BY <1>1, <1>2, <1>3, <1>6, HoldsParts DEF Encoded
<1>8. Holds(b, p, t) /\ Holds(b, p + lt, s)
  BY <1>4, <1>7, HoldsParts
<1>9. Width(b, p) = lt /\ CompactSize(b, p) = e.typ
  BY <1>1, <1>2, <1>4, <1>8, CompactSizeReads
<1>10. PICK size \in Nat : size = p + lt
  <2>1. p + lt \in Nat
    OBVIOUS
  <2> QED
    BY <2>1
<1>11. Width(b, size) = ls /\ CompactSize(b, size) = lv
  BY <1>1, <1>3, <1>4, <1>8, <1>10, CompactSizeReads
<1>12. PICK value \in Nat : value = size + ls
  <2>1. size + ls \in Nat
    OBVIOUS
  <2> QED
    BY <2>1
<1>13. p + (lt + ls) = value /\ value + lv = p + n
  BY <1>5, <1>10, <1>12
<1>14. SubSeq(b, value, value + lv - 1) = e.value
  BY <1>1, <1>4, <1>7, <1>13, HeldIsSubSeq
<1>15. ~(lb - p < 1)
  <2>1. p - 1 + n \in 1..lb
    <3>1. n \in 1..n
      BY <1>5
    <3> QED
      BY <1>4, <1>5, <3>1 DEF Holds
  <2> QED
    BY <1>5, <2>1
<1>16. Entry(e.typ, e.value) = e
  BY DEF Entry, TlvEntry
<1>17. PICK r : r = Got(p, es)
  OBVIOUS
<1>18. r.at = p /\ r.entries = es
  BY <1>17 DEF Got
<1>19. ReadEntry(b, r) = [at |-> value + lv, entries |-> Append(es, Entry(e.typ, e.value))]
  <2> DEFINE sz == r.at + Width(b, r.at)
             vl == sz + Width(b, sz)
             nx == vl + CompactSize(b, sz)
             en == Entry(CompactSize(b, r.at), SubSeq(b, vl, nx - 1))
  <2>1. ReadEntry(b, r) = IF Len(b) - r.at < 1 THEN r
                          ELSE [at |-> nx, entries |-> Append(r.entries, en)]
    BY DEF ReadEntry
  <2>2. sz = size
    BY <1>9, <1>10, <1>18
  <2>3. vl = value
    <3> HIDE DEF sz
    <3> QED
      BY <1>11, <1>12, <2>2
  <2>4. nx = value + lv
    <3> HIDE DEF sz, vl
    <3> QED
      BY <1>11, <2>2, <2>3
  <2>5. en = Entry(e.typ, e.value)
    <3> HIDE DEF sz, vl, nx
    <3>1. SubSeq(b, vl, nx - 1) = e.value
      BY <1>14, <2>3, <2>4
    <3> QED
      BY <1>9, <1>18, <3>1
  <2>6. ~(Len(b) - r.at < 1)
    BY <1>4, <1>15, <1>18
  <2> HIDE DEF nx, en
  <2> QED
    BY <1>18, <2>1, <2>4, <2>5, <2>6
<1> QED
  BY <1>5, <1>13, <1>16, <1>17, <1>19 DEF Got

\* What FlattenSeq has put together after each of the sequences.
Joins(s, f) ==
    /\ f[0] = <<>>
    /\ \A i \in 0..Len(s) - 1 : f[i + 1] = f[i] \o s[i + 1]
    /\ \A i \in 0..Len(s) : f[i] \in Seq(Byte)

LEMMA FlattenIs ==
    ASSUME NEW s \in Seq(Seq(Byte))
    PROVE  \E f : Joins(s, f) /\ FlattenSeq(s) = f[Len(s)]
<1>1. PICK n \in Nat : n = Len(s) /\ \A i \in 1..n : s[i] \in Seq(Byte)
  BY LenProperties, ElementOfSeq
<1>2. PICK g : g = [i \in 1..n |-> [w \in Seq(Byte) |-> w \o s[i]]]
  OBVIOUS
<1>3. g \in [1..n -> [Seq(Byte) -> Seq(Byte)]]
  <2>1. \A i \in 1..n, w \in Seq(Byte) : w \o s[i] \in Seq(Byte)
    BY <1>1, ConcatProperties
  <2> QED
    BY <1>2, <2>1
<1>4. <<>> \in Seq(Byte)
  BY EmptySeq
<1>5. PICK f : Recursion(f, n, <<>>, g) /\ \A i \in 0..n : f[i] \in Seq(Byte)
  BY <1>3, <1>4, RecursionExists
<1>6. \A i \in 1..n : f[i] = f[i - 1] \o s[i]
  <2> TAKE i \in 1..n
  <2>1. i - 1 \in 0..n
    OBVIOUS
  <2>2. f[i - 1] \in Seq(Byte)
    BY <1>5, <2>1
  <2>3. f[i] = g[i][f[i - 1]]
    BY <1>5 DEF Recursion
  <2> QED
    BY <1>2, <2>2, <2>3
<1>7. \A i \in 0..n - 1 : f[i + 1] = f[i] \o s[i + 1]
  <2> TAKE i \in 0..n - 1
  <2>1. i + 1 \in 1..n /\ (i + 1) - 1 = i
    OBVIOUS
  <2> QED
    BY <1>6, <2>1
<1>8. Joins(s, f)
  BY <1>1, <1>5, <1>7 DEF Joins, Recursion
<1>9. CASE n = 0
  <2>1. s = <<>>
    BY <1>1, <1>9, EmptySeq
  <2>2. FlattenSeq(s) = f[Len(s)]
    BY <1>1, <1>5, <1>9, <2>1 DEF FlattenSeq, Recursion
  <2> QED
    BY <1>8, <2>2
<1>10. CASE n # 0
  <2> DEFINE F(h) == h = [i \in 1..Len(s) |-> IF i = 1 THEN s[i] ELSE h[i - 1] \o s[i]]
             h0 == [i \in 1..n |-> f[i]]
  <2>1. F(h0)
    <3>1. ASSUME NEW i \in 1..n
          PROVE  f[i] = IF i = 1 THEN s[i] ELSE h0[i - 1] \o s[i]
      <4>1. CASE i = 1
        <5>1. f[1 - 1] = <<>>
          BY <1>5 DEF Recursion
        <5>2. f[1] = <<>> \o s[1] /\ s[1] \in Seq(Byte)
          BY <1>1, <1>6, <4>1, <5>1
        <5> QED
          BY <4>1, <5>2, ConcatEmptySeq
      <4>2. CASE i # 1
        <5>1. i - 1 \in 1..n
          BY <4>2
        <5>2. h0[i - 1] = f[i - 1]
          BY <5>1
        <5> QED
          BY <1>6, <4>2, <5>2
      <4> QED
        BY <4>1, <4>2
    <3> QED
      BY <1>1, <3>1
  <2>2. PICK h : h = CHOOSE k : F(k)
    OBVIOUS
  <2>3. F(h)
    <3> HIDE DEF F
    <3> QED
      BY <2>1, <2>2
  <2>4. \A i \in 1..n : h[i] = IF i = 1 THEN s[i] ELSE h[i - 1] \o s[i]
    BY <1>1, <2>3
  <2>5. FlattenSeq(s) = h[n]
    BY <1>1, <1>10, <2>2 DEF FlattenSeq
  <2> DEFINE S == {i \in Nat : i + 1 <= n => h[i + 1] = f[i + 1]}
  <2>6. 0 \in S
    <3>1. 1 \in 1..n
      BY <1>10
    <3>2. h[1] = s[1]
      BY <2>4, <3>1
    <3>5. f[0] = <<>> /\ 1 - 1 = 0
      BY <1>5 DEF Recursion
    <3>3. f[1] = <<>> \o s[1] /\ s[1] \in Seq(Byte)
      BY <1>1, <1>6, <3>1, <3>5
    <3>4. f[1] = s[1]
      BY <3>3, ConcatEmptySeq
    <3> QED
      BY <3>2, <3>4
  <2>7. ASSUME NEW i \in S
        PROVE  i + 1 \in S
    <3> SUFFICES ASSUME (i + 1) + 1 <= n
                 PROVE  h[(i + 1) + 1] = f[(i + 1) + 1]
      OBVIOUS
    <3>1. PICK j \in 1..n : j = (i + 1) + 1 /\ j # 1 /\ j - 1 = i + 1
      <4>1. (i + 1) + 1 \in 1..n /\ (i + 1) + 1 # 1 /\ ((i + 1) + 1) - 1 = i + 1
        OBVIOUS
      <4> QED
        BY <4>1
    <3>2. h[j - 1] = f[j - 1]
      BY <3>1
    <3>3. h[j] = h[j - 1] \o s[j]
      BY <2>4, <3>1
    <3> QED
      BY <1>6, <3>1, <3>2, <3>3
  <2>8. S = Nat
    <3> HIDE DEF S
    <3>1. S \in SUBSET Nat
      BY DEF S
    <3> QED
      BY <2>6, <2>7, <3>1, NatSetInduction
  <2>9. n - 1 \in S /\ n - 1 + 1 = n
    <3> HIDE DEF S
    <3> QED
      BY <1>10, <2>8
  <2>10. h[n] = f[n]
    BY <2>9
  <2> QED
    BY <1>1, <1>8, <2>5, <2>10
<1> QED
  BY <1>9, <1>10

\* Each of the sequences is where it was joined.
LEMMA PiecesHold ==
    ASSUME NEW s \in Seq(Seq(Byte)), NEW f, Joins(s, f)
    PROVE  \A i \in 0..Len(s) - 1 : Holds(f[Len(s)], Len(f[i]) + 1, s[i + 1])
<1>1. PICK n \in Nat : n = Len(s) /\ \A i \in 1..n : s[i] \in Seq(Byte)
  BY LenProperties, ElementOfSeq
<1>2. \A i \in 0..n : f[i] \in Seq(Byte) /\ Len(f[i]) \in Nat
  BY <1>1, LenProperties DEF Joins
<1> DEFINE S == {k \in Nat : k <= n => \A i \in 0..k - 1 : Holds(f[k], Len(f[i]) + 1, s[i + 1])}
<1>3. 0 \in S
  OBVIOUS
<1>4. ASSUME NEW k \in S
      PROVE  k + 1 \in S
  <2> SUFFICES ASSUME k + 1 <= n, NEW i \in 0..k
               PROVE  Holds(f[k + 1], Len(f[i]) + 1, s[i + 1])
    <3>1. (k + 1) - 1 = k
      OBVIOUS
    <3> QED
      BY <3>1
  <2>1. f[k + 1] = f[k] \o s[k + 1]
    <3>1. k \in 0..n - 1
      OBVIOUS
    <3> QED
      BY <1>1, <3>1 DEF Joins
  <2>2. k + 1 \in 1..n /\ i + 1 \in 1..n /\ k \in 0..n /\ i \in 0..n
    OBVIOUS
  <2>3. /\ f[k] \in Seq(Byte) /\ s[k + 1] \in Seq(Byte) /\ s[i + 1] \in Seq(Byte)
        /\ Len(f[i]) + 1 \in Nat
    BY <1>1, <1>2, <2>2
  <2>4. CASE i = k
    <3>1. Holds(s[k + 1], 1, s[k + 1])
      BY <2>3, HoldsItself
    <3>2. Holds(f[k] \o s[k + 1], Len(f[k]) + 1, s[k + 1])
      BY <2>3, <3>1, HoldsBehind
    <3> QED
      BY <2>1, <2>4, <3>2
  <2>5. CASE i # k
    <3>1. i \in 0..k - 1 /\ k <= n
      BY <2>5
    <3>2. Holds(f[k], Len(f[i]) + 1, s[i + 1])
      BY <3>1
    <3>3. Holds(f[k] \o s[k + 1], Len(f[i]) + 1, s[i + 1])
      BY <2>3, <3>2, HoldsMore
    <3> QED
      BY <2>1, <3>3
  <2> QED
    BY <2>4, <2>5
<1>5. S = Nat
  <2> HIDE DEF S
  <2>1. S \in SUBSET Nat
    BY DEF S
  <2> QED
    BY <1>3, <1>4, <2>1, NatSetInduction
<1>6. n \in S
  <2> HIDE DEF S
  <2> QED
    BY <1>5
<1> QED
  BY <1>1, <1>6

\* The bytes of a stream.
Bytes(t) == [i \in DOMAIN t |-> Encoded(t[i])]

LEMMA ToBytesIs ==
    ASSUME NEW t \in Seq(TlvEntry)
    PROVE  /\ ToBytes(t) = FlattenSeq(Bytes(t))
           /\ Bytes(t) \in Seq(Seq(Byte))
           /\ Len(Bytes(t)) = Len(t)
           /\ \A i \in 1..Len(t) : t[i] \in TlvEntry /\ Bytes(t)[i] = Encoded(t[i])
<1>1. PICK n \in Nat : n = Len(t) /\ DOMAIN t = 1..n /\ \A i \in 1..n : t[i] \in TlvEntry
  BY LenProperties, ElementOfSeq
<1>2. Bytes(t) = [i \in 1..n |-> Encoded(t[i])]
  BY <1>1 DEF Bytes
<1>3. Bytes(t) \in [1..n -> Seq(Byte)]
  BY <1>1, <1>2, EncodedIs
<1>4. Bytes(t) \in Seq(Seq(Byte)) /\ Len(Bytes(t)) = n
  BY <1>3, SeqDef, LenProperties
<1>5. ToBytes(t) = FlattenSeq(Bytes(t))
  BY DEF ToBytes, Bytes, Encoded
<1> QED
  BY <1>1, <1>2, <1>4, <1>5

Joined(b, x, c) == b = x \o c

\* One round further, from where n entries have been read.
LEMMA RoundReads ==
    ASSUME NEW t \in Seq(TlvEntry), NEW x \in Seq(Byte), NEW f, Joins(Bytes(t), f),
           NEW b \in Seq(Byte), Joined(b, x, f[Len(t)]), NEW n \in 0..Len(t) - 1
    PROVE  ReadEntry(b, Got(Len(x) + Len(f[n]) + 1, SubSeq(t, 1, n)))
               = Got(Len(x) + Len(f[n + 1]) + 1, SubSeq(t, 1, n + 1))
<1>1. PICK k \in Nat : k = Len(t)
  BY LenProperties
<1>2. /\ Bytes(t) \in Seq(Seq(Byte)) /\ Len(Bytes(t)) = k
      /\ \A i \in 1..k : t[i] \in TlvEntry /\ Bytes(t)[i] = Encoded(t[i])
  BY <1>1, ToBytesIs
<1>3. n \in 0..k - 1 /\ n \in Nat /\ n + 1 \in 1..k /\ n \in 0..k /\ k \in 0..k
  BY <1>1
<1>4. PICK e \in TlvEntry : e = t[n + 1] /\ Bytes(t)[n + 1] = Encoded(e)
  BY <1>2, <1>3
<1>5. f[n] \in Seq(Byte) /\ f[k] \in Seq(Byte) /\ f[n + 1] = f[n] \o Encoded(e)
  BY <1>2, <1>3, <1>4 DEF Joins
<1>6. Encoded(e) \in Seq(Byte)
  BY EncodedIs
<1>7. PICK lx, lf, le \in Nat : lx = Len(x) /\ lf = Len(f[n]) /\ le = Len(Encoded(e))
  BY <1>5, <1>6, LenProperties
<1>8. Len(f[n + 1]) = lf + le
  BY <1>5, <1>6, <1>7, ConcatProperties
<1>9. Holds(f[k], lf + 1, Encoded(e))
  BY <1>2, <1>3, <1>4, <1>7, PiecesHold
<1>10. Holds(b, lx + (lf + 1), Encoded(e))
  <2>1. lf + 1 \in Nat
    OBVIOUS
  <2> QED
    BY <1>1, <1>5, <1>6, <1>7, <1>9, <2>1, HoldsBehind DEF Joined
<1>11. PICK p \in Nat : p = lx + lf + 1 /\ p >= 1 /\ lx + (lf + 1) = p /\ p + le = lx + (lf + le) + 1
  <2>1. /\ lx + lf + 1 \in Nat /\ lx + lf + 1 >= 1 /\ lx + (lf + 1) = lx + lf + 1
        /\ lx + lf + 1 + le = lx + (lf + le) + 1
    OBVIOUS
  <2> QED
    BY <2>1
<1>13. PICK es : es = SubSeq(t, 1, n)
  OBVIOUS
<1>14. ReadEntry(b, Got(p, es)) = Got(p + le, Append(es, e))
  <2>1. Holds(b, p, Encoded(e)) /\ p >= 1
    BY <1>10, <1>11
  <2>2. ReadEntry(b, Got(p, es)) = Got(p + Len(Encoded(e)), Append(es, e))
    BY <2>1, EntryReads
  <2> QED
    BY <1>7, <2>2
<1>15. Append(es, e) = SubSeq(t, 1, n + 1)
  <2>1. \A i \in 1..n + 1 : t[i] \in TlvEntry
    BY <1>2, <1>3
  <2>2. SubSeq(t, 1, n + 1) = Append(SubSeq(t, 1, n + 1 - 1), t[n + 1])
    BY <1>3, <2>1, SubSeqRecursiveSecond
  <2>3. n + 1 - 1 = n
    BY <1>3
  <2> QED
    BY <1>4, <1>13, <2>2, <2>3
<1> QED
  BY <1>7, <1>8, <1>11, <1>13, <1>14, <1>15

\* Entries take two bytes at least.
LEMMA EntriesTakeBytes ==
    ASSUME NEW t \in Seq(TlvEntry), NEW f, Joins(Bytes(t), f), NEW n \in 0..Len(t)
    PROVE  Len(f[n]) >= 2 * n
<1>1. PICK k \in Nat : k = Len(t)
  BY LenProperties
<1>2. /\ Len(Bytes(t)) = k
      /\ \A i \in 1..k : t[i] \in TlvEntry /\ Bytes(t)[i] = Encoded(t[i])
  BY <1>1, ToBytesIs
<1>3. \A i \in 0..k : f[i] \in Seq(Byte) /\ Len(f[i]) \in Nat
  BY <1>2, LenProperties DEF Joins
<1> DEFINE S == {i \in Nat : i <= k => Len(f[i]) >= 2 * i}
<1>4. 0 \in S
  BY <1>3
<1>5. ASSUME NEW i \in S
      PROVE  i + 1 \in S
  <2> SUFFICES ASSUME i + 1 <= k
               PROVE  Len(f[i + 1]) >= 2 * (i + 1)
    OBVIOUS
  <2>1. i \in 0..k - 1 /\ i + 1 \in 1..k /\ i \in 0..k
    OBVIOUS
  <2>2. f[i + 1] = f[i] \o Encoded(t[i + 1]) /\ t[i + 1] \in TlvEntry
    BY <1>2, <2>1 DEF Joins
  <2>3. PICK li, le \in Nat : li = Len(f[i]) /\ le = Len(Encoded(t[i + 1])) /\ le >= 2
    BY <1>3, <2>1, <2>2, EncodedIs, LenProperties
  <2>4. Len(f[i + 1]) = li + le
    BY <1>3, <2>1, <2>2, <2>3, EncodedIs, ConcatProperties
  <2>6. PICK j \in Nat : j = i
    OBVIOUS
  <2>5. li >= 2 * j
    BY <2>1, <2>3, <2>6
  <2> HIDE DEF S
  <2>7. \A u, v, w \in Nat : u >= 2 * w /\ v >= 2 => u + v >= 2 * (w + 1)
    OBVIOUS
  <2>8. li + le >= 2 * (j + 1)
    BY <2>3, <2>5, <2>7
  <2> QED
    BY <2>4, <2>6, <2>8
<1>6. S = Nat
  <2> HIDE DEF S
  <2>1. S \in SUBSET Nat
    BY DEF S
  <2> QED
    BY <1>4, <1>5, <2>1, NatSetInduction
<1>7. n \in S
  <2> HIDE DEF S
  <2> QED
    BY <1>1, <1>6
<1> QED
  BY <1>1, <1>7

(***************************************************************************)
(* from_bytes reads back what to_bytes wrote, from behind any prefix, as   *)
(* deserialize does from behind the length: every entry, of any type and   *)
(* length that 64 bits hold, and however many there are.                   *)
(***************************************************************************)
THEOREM ReadsWhatWasWritten ==
    ASSUME NEW t \in Seq(TlvEntry), NEW x \in Seq(Byte)
    PROVE  FromBytes(x \o ToBytes(t), Len(x) + 1) = t
<1>1. PICK k, lx \in Nat : k = Len(t) /\ lx = Len(x)
  BY LenProperties
<1>2. PICK f : Joins(Bytes(t), f) /\ FlattenSeq(Bytes(t)) = f[k]
  BY <1>1, ToBytesIs, FlattenIs
<1>3. ToBytes(t) = f[k] /\ Len(Bytes(t)) = k
  BY <1>1, <1>2, ToBytesIs
<1>4. f[k] \in Seq(Byte)
  <2>1. k \in 0..k
    OBVIOUS
  <2> QED
    BY <1>2, <1>3, <2>1 DEF Joins
<1>5. PICK b \in Seq(Byte) : b = x \o f[k]
  BY <1>4, ConcatProperties
<1>6. PICK lf \in Nat : lf = Len(f[k]) /\ lf >= 2 * k
  <2>1. k \in 0..k
    OBVIOUS
  <2> QED
    BY <1>1, <1>2, <1>4, <2>1, LenProperties, EntriesTakeBytes
<1>7. PICK m \in Nat : m = Len(b) \div 2 /\ Len(b) = lx + lf /\ m >= k
  <2>1. Len(b) = lx + lf
    BY <1>1, <1>4, <1>5, <1>6, ConcatProperties
  <2>2. PICK n \in Nat : n = lx + lf /\ n >= 2 * k
    <3>1. lx + lf \in Nat /\ lx + lf >= 2 * k
      BY <1>6
    <3> QED
      BY <3>1
  <2>3. n \div 2 \in Nat /\ n \div 2 >= k
    BY <2>2
  <2> QED
    BY <2>1, <2>2, <2>3
\* Where the loop is after n rounds.
<1> DEFINE At(n) == Got(lx + Len(f[n]) + 1, SubSeq(t, 1, n))
           a == [n \in 0..m |-> IF n <= k THEN At(n) ELSE At(k)]
           F(h) == h = [n \in 0..Len(b) \div 2 |->
                           IF n = 0 THEN [at |-> lx + 1, entries |-> <<>>]
                           ELSE ReadEntry(b, h[n - 1])]
<1>8. At(0) = [at |-> lx + 1, entries |-> <<>>]
  <2>1. f[0] = <<>>
    BY <1>2 DEF Joins
  <2>2. Len(f[0]) = 0 /\ lx + 0 + 1 = lx + 1
    BY <2>1
  <2>3. SubSeq(t, 1, 0) = <<>>
    BY SubSeqEmpty
  <2> QED
    BY <2>2, <2>3 DEF Got
<1>9. \A n \in 0..k - 1 : ReadEntry(b, At(n)) = At(n + 1)
  <2> TAKE n \in 0..k - 1
  <2>1. n \in 0..Len(t) - 1 /\ Joined(b, x, f[Len(t)])
    BY <1>1, <1>5 DEF Joined
  <2>2. ReadEntry(b, Got(Len(x) + Len(f[n]) + 1, SubSeq(t, 1, n)))
            = Got(Len(x) + Len(f[n + 1]) + 1, SubSeq(t, 1, n + 1))
    BY <1>2, <2>1, RoundReads
  <2> QED
    BY <1>1, <2>2
<1>10. ReadEntry(b, At(k)) = At(k)
  <2>1. PICK r : r = At(k)
    OBVIOUS
  <2>2. r.at = lx + lf + 1
    BY <1>6, <2>1 DEF Got
  <2>3. Len(b) - r.at < 1
    BY <1>7, <2>2
  <2> HIDE DEF At
  <2> QED
    BY <2>1, <2>3 DEF ReadEntry
<1>11. \A n \in 1..m : a[n] = ReadEntry(b, a[n - 1])
  <2> HIDE DEF At
  <2> TAKE n \in 1..m
  <2>1. n - 1 \in 0..m /\ n \in 0..m
    OBVIOUS
  <2>2. CASE n <= k
    <3>1. n - 1 \in 0..k - 1 /\ n - 1 <= k /\ n - 1 + 1 = n
      BY <2>2
    <3>2. a[n] = At(n) /\ a[n - 1] = At(n - 1)
      BY <2>1, <2>2, <3>1
    <3>3. ReadEntry(b, At(n - 1)) = At(n)
      BY <1>9, <3>1
    <3> QED
      BY <3>2, <3>3
  <2>3. CASE ~(n <= k)
    <3>1. a[n] = At(k)
      BY <2>1, <2>3
    <3>2. a[n - 1] = At(k)
      <4>1. CASE n - 1 <= k
        <5>1. n - 1 = k
          BY <2>3, <4>1
        <5> QED
          BY <2>1, <4>1, <5>1
      <4>2. CASE ~(n - 1 <= k)
        BY <2>1, <4>2
      <4> QED
        BY <4>1, <4>2
    <3> QED
      BY <1>10, <3>1, <3>2
  <2> QED
    BY <2>2, <2>3
<1>12. a[0] = At(0) /\ a[m] = At(k)
  <2> HIDE DEF At
  <2>1. 0 \in 0..m /\ m \in 0..m /\ 0 <= k
    OBVIOUS
  <2>2. CASE m <= k
    <3>1. m = k
      BY <1>7, <2>2
    <3> QED
      BY <2>1, <3>1
  <2>3. CASE ~(m <= k)
    BY <2>1, <2>3
  <2> QED
    BY <2>2, <2>3
<1>13. F(a)
  <2>1. a = [n \in 0..m |-> a[n]]
    OBVIOUS
  <2> HIDE DEF a, At
  <2>2. \A n \in 0..m : a[n] = IF n = 0 THEN [at |-> lx + 1, entries |-> <<>>]
                               ELSE ReadEntry(b, a[n - 1])
    BY <1>8, <1>11, <1>12
  <2> QED
    BY <1>7, <2>1, <2>2
<1>14. PICK h : h = CHOOSE g : F(g)
  OBVIOUS
<1>15. F(h)
  <2> HIDE DEF F
  <2> QED
    BY <1>13, <1>14
<1>16. FromBytes(b, lx + 1) = h[m].entries
  BY <1>7, <1>14 DEF FromBytes
<1>17. h[m] = a[m]
  <2> HIDE DEF a, At
  <2> DEFINE S == {n \in Nat : n <= m => h[n] = a[n]}
  <2>0. \A n \in 0..m : h[n] = IF n = 0 THEN [at |-> lx + 1, entries |-> <<>>]
                               ELSE ReadEntry(b, h[n - 1])
    BY <1>7, <1>15
  <2>1. 0 \in S
    BY <1>8, <1>12, <2>0
  <2>2. ASSUME NEW n \in S
        PROVE  n + 1 \in S
    <3> SUFFICES ASSUME n + 1 <= m
                 PROVE  h[n + 1] = a[n + 1]
      OBVIOUS
    <3>1. PICK i \in 1..m : i = n + 1 /\ i - 1 = n /\ i \in 0..m /\ i # 0
      <4>1. n + 1 \in 1..m /\ (n + 1) - 1 = n /\ n + 1 \in 0..m /\ n + 1 # 0
        OBVIOUS
      <4> QED
        BY <4>1
    <3>2. h[n] = a[n]
      BY <3>1
    <3>3. h[i] = ReadEntry(b, h[i - 1]) /\ a[i] = ReadEntry(b, a[i - 1])
      BY <1>11, <2>0, <3>1
    <3> QED
      BY <3>1, <3>2, <3>3
  <2>3. S = Nat
    <3> HIDE DEF S
    <3>1. S \in SUBSET Nat
      BY DEF S
    <3> QED
      BY <2>1, <2>2, <3>1, NatSetInduction
  <2>4. m \in S
    <3> HIDE DEF S
    <3> QED
      BY <2>3
  <2> QED
    BY <2>4
<1>18. h[m].entries = SubSeq(t, 1, k)
  BY <1>12, <1>17 DEF Got
<1> QED
  BY <1>1, <1>3, <1>5, <1>16, <1>18, SubSeqFull

-----------------------------------------------------------------------------
(* Onions                                                                  *)

LEMMA SmallIsU64 ==
    ASSUME NEW v \in Nat, v < 65536
    PROVE  v \in U64
<1>1. /\ Shifted(v)[0] = v
      /\ \A i \in 0..8 : Shifted(v)[i] \in Nat
      /\ \A i \in 0..7 : Shifted(v)[i + 1] = Shifted(v)[i] \div 256
  BY ShiftedIs
<1>2. Shifted(v)[0 + 1] = v \div 256 /\ Shifted(v)[1 + 1] = Shifted(v)[1] \div 256
  BY <1>1
<1>3. (v \div 256) \div 256 = 0 /\ 0 \div 256 = 0
  <2>1. PICK q \in 0..255 : q = v \div 256
    <3>1. v \div 256 \in Int /\ 0 <= v \div 256 /\ v \div 256 < 256
      OBVIOUS
    <3> QED
      BY <3>1
  <2>2. q \div 256 = 0 /\ 0 \div 256 = 0
    OBVIOUS
  <2> QED
    BY <2>1, <2>2
<1>4. Shifted(v)[2] = 0
  BY <1>2, <1>3
<1> DEFINE S == {i \in Nat : i <= 6 => Shifted(v)[i + 2] = 0}
<1>5. 0 \in S
  BY <1>4
<1>6. ASSUME NEW i \in S
      PROVE  i + 1 \in S
  <2> SUFFICES ASSUME i + 1 <= 6
               PROVE  Shifted(v)[(i + 1) + 2] = 0
    OBVIOUS
  <2>1. PICK j \in 0..7 : j = i + 2
    <3>1. i + 2 \in 0..7
      OBVIOUS
    <3> QED
      BY <3>1
  <2>2. j + 1 = (i + 1) + 2 /\ Shifted(v)[j] = 0
    BY <2>1
  <2>3. Shifted(v)[j + 1] = 0
    BY <1>1, <1>3, <2>2
  <2> QED
    BY <2>2, <2>3
<1>7. S = Nat
  <2> HIDE DEF S
  <2>1. S \in SUBSET Nat
    BY DEF S
  <2> QED
    BY <1>5, <1>6, <2>1, NatSetInduction
<1>8. 6 \in S
  <2> HIDE DEF S
  <2> QED
    BY <1>7
<1>9. Shifted(v)[8] = 0
  BY <1>8
<1> QED
  BY <1>9 DEF U64, Fits

Msat == 0..MaxMsat

LEMMA MsatFits ==
    ASSUME NEW v \in Msat
    PROVE  /\ v \in U64
           /\ PutTu64(v) \in Seq(Byte) /\ Len(PutTu64(v)) \in 0..8
           /\ FromBigEndian(PutTu64(v)) = v
<1>1. v \in U64
  BY ReceivingConstants, SmallerFits DEF Msat
<1> QED
  BY <1>1, PutTu64Reads

LEMMA SecretIs ==
    ASSUME NEW l \in Labels \cup {None}
    PROVE  /\ Secret[l] \in Seq(Byte)
           /\ Len(Secret[l]) = Len(Secret[None])
           /\ Len(Secret[None]) \in 1..32
<1>1. Secret \in [Labels \cup {None} -> Seq(Byte)]
  BY ReceivingConstants DEF Byte
<1> QED
  BY <1>1, ReceivingConstants

\* What the onion of a part says behind the secret.
LEMMA SecretAndTotal ==
    ASSUME NEW l \in Labels \cup {None}, NEW v \in Msat,
           NEW s, s = Secret[l] \o PutTu64(v)
    PROVE  /\ s \in Seq(Byte) /\ Len(s) \in 0..40
           /\ SecretIn(s) = Secret[l]
           /\ FromBigEndian(SubSeq(s, Len(Secret[None]) + 1, Len(s))) = v
<1>1. PICK a \in Seq(Byte) : a = Secret[l]
  BY SecretIs
<1>2. PICK c \in Seq(Byte) : c = PutTu64(v) /\ FromBigEndian(c) = v
  BY MsatFits
<1>3. PICK n \in 1..32 : n = Len(Secret[None]) /\ n = Len(a)
  BY <1>1, SecretIs
<1>4. PICK m \in 0..8 : m = Len(c)
  BY <1>2, MsatFits
<1>5. s \in Seq(Byte) /\ Len(s) = n + m
  BY <1>1, <1>2, <1>3, <1>4, ConcatProperties
<1>6. Holds(s, 1, a)
  BY <1>1, <1>2, HoldsItself, HoldsMore
<1>7. Holds(s, n + 1, c)
  <2>1. Holds(c, 1, c)
    BY HoldsItself
  <2> QED
    BY <1>1, <1>2, <1>3, <2>1, HoldsBehind
<1>8. SubSeq(s, 1, n) = a
  <2>1. SubSeq(s, 1, 1 + Len(a) - 1) = a
    BY <1>5, <1>6, HeldIsSubSeq
  <2>2. 1 + n - 1 = n
    OBVIOUS
  <2> QED
    BY <1>3, <2>1, <2>2
<1>9. SubSeq(s, n + 1, n + m) = c
  <2>1. PICK k \in Nat : k = n + 1
    <3>1. n + 1 \in Nat
      OBVIOUS
    <3> QED
      BY <3>1
  <2>2. SubSeq(s, k, k + Len(c) - 1) = c
    BY <1>5, <1>7, <2>1, HeldIsSubSeq
  <2>3. k + m - 1 = n + m
    BY <2>1
  <2> QED
    BY <1>4, <2>1, <2>2, <2>3
<1>10. n + m \in 0..40
  OBVIOUS
<1> QED
  BY <1>1, <1>2, <1>3, <1>5, <1>8, <1>9, <1>10 DEF SecretIn

\* Entries with short values.
Short == {s \in Seq(Byte) : Len(s) \in 0..40}
Small == {n \in Nat : n < 65536}
ShortEntry == {e \in TlvEntry : e.value \in Short}

LEMMA ShortEntryIs ==
    ASSUME NEW typ \in Small, NEW s \in Short
    PROVE  Entry(typ, s) \in ShortEntry
<1>1. typ \in U64 /\ Len(s) \in U64
  <2>1. PICK n \in 0..40 : n = Len(s)
    BY DEF Short
  <2>2. PICK m \in Nat : m = typ /\ m < 65536
    BY DEF Small
  <2>3. n \in Nat /\ n < 65536
    OBVIOUS
  <2>4. n \in U64
    BY <2>3, SmallIsU64
  <2>5. m \in U64
    BY <2>2, SmallIsU64
  <2> QED
    BY <2>1, <2>2, <2>4, <2>5
<1>2. Entry(typ, s) \in TlvEntry
  BY <1>1 DEF Entry, TlvEntry, Value, Short
<1>3. Entry(typ, s).value = s
  BY DEF Entry
<1> QED
  BY <1>2, <1>3 DEF ShortEntry

LEMMA OnionEntries ==
    ASSUME NEW l \in Labels \cup {None}, NEW fwd \in Msat, NEW total \in Msat
    PROVE  /\ Entry(ForwardAmt, PutTu64(fwd)) \in ShortEntry
           /\ Entry(4, <<40>>) \in ShortEntry
           /\ Entry(PaymentSecret, Secret[l] \o PutTu64(total)) \in ShortEntry
           /\ Entry(33001, <<1, 2>>) \in ShortEntry
<1>1. PutTu64(fwd) \in Short
  BY MsatFits DEF Short
<1>2. <<40>> \in Short /\ <<1, 2>> \in Short
  BY DEF Byte, Short
<1>3. Secret[l] \o PutTu64(total) \in Short
  BY SecretAndTotal DEF Short
<1>4. ForwardAmt \in Small /\ PaymentSecret \in Small /\ 4 \in Small /\ 33001 \in Small
  BY DEF ForwardAmt, PaymentSecret, Small
<1>5. Entry(ForwardAmt, PutTu64(fwd)) \in ShortEntry
  BY <1>1, <1>4, ShortEntryIs
<1>6. Entry(4, <<40>>) \in ShortEntry
  <2>1. PICK n \in Small : n = 4
    BY <1>4
  <2> QED
    BY <1>2, <2>1, ShortEntryIs
<1>7. Entry(PaymentSecret, Secret[l] \o PutTu64(total)) \in ShortEntry
  BY <1>3, <1>4, ShortEntryIs
<1>8. Entry(33001, <<1, 2>>) \in ShortEntry
  <2>1. PICK n \in Small : n = 33001
    BY <1>4
  <2> QED
    BY <1>2, <2>1, ShortEntryIs
<1> QED
  BY <1>5, <1>6, <1>7, <1>8

\* What payers put into an onion.
Onions(l, fwd) ==
    {t \in {Spontaneous(fwd)} : l = None} \cup {Onion(l, fwd, total) : total \in Msat}

LEMMA OnionIs ==
    ASSUME NEW l \in Labels \cup {None}, NEW fwd \in Msat, NEW t \in Onions(l, fwd)
    PROVE  t \in Seq(ShortEntry) /\ Len(t) \in 0..4
<1>1. CASE t = Spontaneous(fwd)
  <2>1. PICK e1, e2 \in ShortEntry : e1 = Entry(ForwardAmt, PutTu64(fwd)) /\ e2 = Entry(4, <<40>>)
    <3>1. 0 \in Msat
      BY ReceivingConstants DEF Msat, U64
    <3> QED
      BY <3>1, OnionEntries
  <2>2. t = <<e1, e2>>
    BY <1>1, <2>1 DEF Spontaneous
  <2> QED
    BY <2>2
<1>2. ASSUME NEW total \in Msat, t = Onion(l, fwd, total)
      PROVE  t \in Seq(ShortEntry) /\ Len(t) \in 0..4
  <2>1. PICK e1, e2, e3, e4 \in ShortEntry :
           /\ e1 = Entry(ForwardAmt, PutTu64(fwd)) /\ e2 = Entry(4, <<40>>)
           /\ e3 = Entry(PaymentSecret, Secret[l] \o PutTu64(total))
           /\ e4 = Entry(33001, <<1, 2>>)
    BY OnionEntries
  <2>2. t = <<e1, e2, e3, e4>>
    BY <1>2, <2>1 DEF Onion
  <2> QED
    BY <2>2
<1> QED
  BY <1>1, <1>2 DEF Onions

-----------------------------------------------------------------------------
(* Payloads                                                                *)

LEMMA ShortEntryFits ==
    ASSUME NEW e \in ShortEntry
    PROVE  e \in TlvEntry /\ Len(Encoded(e)) <= 58
<1>1. e \in TlvEntry /\ e.typ \in U64 /\ e.value \in Seq(Byte) /\ Len(e.value) \in U64
      /\ Len(e.value) \in 0..40
  BY DEF ShortEntry, Short, TlvEntry, Value
<1>2. PICK a \in Nat : a = Len(PutCompactSize(e.typ)) /\ a <= 9
  BY <1>1, CompactSizeIs, LenProperties
<1>3. PICK c \in Nat : c = Len(PutCompactSize(Len(e.value))) /\ c <= 9
  BY <1>1, CompactSizeIs, LenProperties
<1>4. PICK d \in 0..40 : d = Len(e.value)
  BY <1>1
<1>5. Len(Encoded(e)) = (a + c) + d
  BY <1>1, <1>2, <1>3, <1>4, EncodedIs
<1>6. (a + c) + d <= 58
  <2>1. \A x, y \in Nat, z \in 0..40 : x <= 9 /\ y <= 9 => (x + y) + z <= 58
    OBVIOUS
  <2> QED
    BY <1>2, <1>3, <2>1
<1> QED
  BY <1>1, <1>5, <1>6

\* A few short entries take few bytes.
LEMMA EntriesTakeNoMore ==
    ASSUME NEW t \in Seq(ShortEntry), NEW f, Joins(Bytes(t), f), NEW n \in 0..Len(t)
    PROVE  Len(f[n]) <= 58 * n
<1>1. PICK k \in Nat : k = Len(t)
  BY LenProperties
<1>2. t \in Seq(TlvEntry) /\ \A i \in 1..k : t[i] \in ShortEntry
  <2>1. ShortEntry \subseteq TlvEntry
    BY DEF ShortEntry
  <2> QED
    BY <1>1, <2>1, ElementOfSeq
<1>3. /\ Len(Bytes(t)) = k
      /\ \A i \in 1..k : Bytes(t)[i] = Encoded(t[i])
  BY <1>1, <1>2, ToBytesIs
<1>4. \A i \in 0..k : f[i] \in Seq(Byte) /\ Len(f[i]) \in Nat
  BY <1>3, LenProperties DEF Joins
<1> DEFINE S == {i \in Nat : i <= k => Len(f[i]) <= 58 * i}
<1>5. 0 \in S
  <2>1. f[0] = <<>> /\ Len(f[0]) = 0 /\ 58 * 0 = 0
    BY DEF Joins
  <2> QED
    BY <2>1
<1>6. ASSUME NEW i \in S
      PROVE  i + 1 \in S
  <2> SUFFICES ASSUME i + 1 <= k
               PROVE  Len(f[i + 1]) <= 58 * (i + 1)
    OBVIOUS
  <2>1. i \in 0..k - 1 /\ i + 1 \in 1..k /\ i \in 0..k
    OBVIOUS
  <2>2. f[i + 1] = f[i] \o Encoded(t[i + 1]) /\ t[i + 1] \in ShortEntry
    BY <1>2, <1>3, <2>1 DEF Joins
  <2>3. Encoded(t[i + 1]) \in Seq(Byte) /\ Len(Encoded(t[i + 1])) <= 58
    BY <2>2, ShortEntryFits, EncodedIs
  <2>4. PICK li, le \in Nat : li = Len(f[i]) /\ le = Len(Encoded(t[i + 1])) /\ le <= 58
    BY <1>4, <2>1, <2>3, LenProperties
  <2>5. Len(f[i + 1]) = li + le
    BY <1>4, <2>1, <2>2, <2>3, <2>4, ConcatProperties
  <2>6. PICK j \in Nat : j = i /\ li <= 58 * j
    BY <2>1, <2>4
  <2> HIDE DEF S
  <2>7. li + le <= 58 * (j + 1)
    <3>1. \A u, v, w \in Nat : u <= 58 * w /\ v <= 58 => u + v <= 58 * (w + 1)
      OBVIOUS
    <3> QED
      BY <2>4, <2>6, <3>1
  <2> QED
    BY <2>5, <2>6, <2>7
<1>7. S = Nat
  <2> HIDE DEF S
  <2>1. S \in SUBSET Nat
    BY DEF S
  <2> QED
    BY <1>5, <1>6, <2>1, NatSetInduction
<1>8. n \in S
  <2> HIDE DEF S
  <2> QED
    BY <1>1, <1>7
<1> QED
  BY <1>1, <1>8

Payloads == {t \in Seq(ShortEntry) : Len(t) \in 0..4}

LEMMA PayloadFits ==
    ASSUME NEW t \in Payloads
    PROVE  t \in Seq(TlvEntry) /\ ToBytes(t) \in Seq(Byte) /\ Len(ToBytes(t)) \in U64
<1>1. PICK k \in 0..4 : k = Len(t) /\ t \in Seq(ShortEntry)
  BY DEF Payloads
<1>2. t \in Seq(TlvEntry)
  <2>1. ShortEntry \subseteq TlvEntry
    BY DEF ShortEntry
  <2> QED
    BY <1>1, <2>1
<1>3. PICK f : Joins(Bytes(t), f) /\ FlattenSeq(Bytes(t)) = f[k]
  BY <1>1, <1>2, ToBytesIs, FlattenIs
<1>4. ToBytes(t) = f[k] /\ Len(Bytes(t)) = k
  BY <1>1, <1>2, <1>3, ToBytesIs
<1>5. k \in 0..k /\ k \in Nat
  OBVIOUS
<1>6. f[k] \in Seq(Byte)
  BY <1>3, <1>4, <1>5 DEF Joins
<1>7. PICK n \in Nat : n = Len(f[k]) /\ n <= 58 * k
  <2>1. Len(f[k]) <= 58 * k
    BY <1>1, <1>3, <1>5, EntriesTakeNoMore
  <2> QED
    BY <1>6, <2>1, LenProperties
<1>8. n < 65536
  BY <1>7
<1>9. n \in U64
  BY <1>8, SmallIsU64
<1> QED
  BY <1>2, <1>4, <1>6, <1>7, <1>9

\* lightningd reads what the hook wrote.
LEMMA ReadsEntries ==
    ASSUME NEW t \in Seq(TlvEntry)
    PROVE  FromBytes(ToBytes(t), 1) = t /\ \A typ : Reads(ToBytes(t), typ) = Get(t, typ)
<1>1. PICK x : x = <<>>
  OBVIOUS
<1>2. x \in Seq(Byte) /\ Len(x) = 0
  BY <1>1
<1>3. ToBytes(t) \in Seq(Byte)
  <2>1. PICK f : Joins(Bytes(t), f) /\ FlattenSeq(Bytes(t)) = f[Len(Bytes(t))]
    BY ToBytesIs, FlattenIs
  <2>2. PICK k \in Nat : k = Len(Bytes(t))
    BY ToBytesIs, LenProperties
  <2>3. k \in 0..k
    OBVIOUS
  <2> QED
    BY <2>1, <2>2, <2>3, ToBytesIs DEF Joins
<1>4. x \o ToBytes(t) = ToBytes(t)
  BY <1>1, <1>3, ConcatEmptySeq
<1>5. Len(x) + 1 = 1
  BY <1>2
<1>6. FromBytes(ToBytes(t), 1) = t
  BY <1>2, <1>4, <1>5, ReadsWhatWasWritten
<1> QED
  BY <1>6 DEF Reads

\* The hook reads what the payer wrote.
LEMMA DeserializeReads ==
    ASSUME NEW t \in Payloads
    PROVE  Deserialize(Prefixed(ToBytes(t))) = t
<1>1. PICK c \in Seq(Byte) : c = ToBytes(t) /\ Len(c) \in U64 /\ t \in Seq(TlvEntry)
  BY PayloadFits
<1>2. PICK x \in Seq(Byte) : x = PutCompactSize(Len(c))
  BY <1>1, CompactSizeIs
<1>3. PICK b \in Seq(Byte) : b = x \o c
  BY ConcatProperties
<1>4. Holds(b, 1, x)
  BY <1>3, HoldsItself, HoldsMore
<1>5. Width(b, 1) = Len(x)
  BY <1>1, <1>2, <1>4, CompactSizeReads
<1>6. 1 + Len(x) = Len(x) + 1
  BY LenProperties
<1>7. FromBytes(b, Len(x) + 1) = t
  BY <1>1, <1>3, ReadsWhatWasWritten
<1>8. Prefixed(ToBytes(t)) = b
  BY <1>1, <1>2, <1>3 DEF Prefixed
<1> QED
  BY <1>5, <1>6, <1>7, <1>8 DEF Deserialize

-----------------------------------------------------------------------------
(* What the hook makes of an onion                                         *)

\* The entry i is the only one of its type.
OnlyOne(t, i, typ) == i \in DOMAIN t /\ \A j \in DOMAIN t : t[j].typ = typ <=> j = i

LEMMA OnlyOneIs ==
    ASSUME NEW t, NEW i \in Nat, NEW typ, OnlyOne(t, i, typ)
    PROVE  /\ Get(t, typ) = {t[i].value}
           /\ \A value : SetBytes(t, typ, value) = [t EXCEPT ![i].value = value]
<1>1. Found(t, typ) = {i}
  BY DEF Found, OnlyOne
<1>2. First({i}) = i
  BY DEF First
<1> QED
  BY <1>1, <1>2 DEF Get, SetBytes

LEMMA NoneIs ==
    ASSUME NEW t, NEW typ, \A j \in DOMAIN t : t[j].typ # typ
    PROVE  Get(t, typ) = {}
BY DEF Get, Found

LEMMA OnionHas ==
    ASSUME NEW l, NEW fwd, NEW total, NEW t, t = Onion(l, fwd, total)
    PROVE  /\ DOMAIN t = 1..4 /\ Len(t) = 4
           /\ t[1] = Entry(ForwardAmt, PutTu64(fwd)) /\ t[2] = Entry(4, <<40>>)
           /\ t[3] = Entry(PaymentSecret, Secret[l] \o PutTu64(total))
           /\ t[4] = Entry(33001, <<1, 2>>)
           /\ OnlyOne(t, 1, ForwardAmt) /\ OnlyOne(t, 3, PaymentSecret)
<1>1. PICK e1, e2, e3, e4 :
         /\ e1 = Entry(ForwardAmt, PutTu64(fwd)) /\ e2 = Entry(4, <<40>>)
         /\ e3 = Entry(PaymentSecret, Secret[l] \o PutTu64(total))
         /\ e4 = Entry(33001, <<1, 2>>)
  OBVIOUS
<1>2. t = <<e1, e2, e3, e4>>
  BY <1>1 DEF Onion
<1>3. e1.typ = 2 /\ e2.typ = 4 /\ e3.typ = 8 /\ e4.typ = 33001
  BY <1>1 DEF Entry, ForwardAmt, PaymentSecret
<1>4. /\ DOMAIN t = 1..4 /\ Len(t) = 4
      /\ t[1] = e1 /\ t[2] = e2 /\ t[3] = e3 /\ t[4] = e4
  BY <1>2
<1>5. \A j \in 1..4 : j = 1 \/ j = 2 \/ j = 3 \/ j = 4
  OBVIOUS
<1>6. OnlyOne(t, 1, ForwardAmt) /\ OnlyOne(t, 3, PaymentSecret)
  BY <1>3, <1>4, <1>5 DEF OnlyOne, ForwardAmt, PaymentSecret
<1> QED
  BY <1>1, <1>4, <1>6

LEMMA SpontaneousHas ==
    ASSUME NEW fwd
    PROVE  Get(Spontaneous(fwd), PaymentSecret) = {}
<1>1. PICK e1, e2 : e1 = Entry(ForwardAmt, PutTu64(fwd)) /\ e2 = Entry(4, <<40>>)
  OBVIOUS
<1>2. Spontaneous(fwd) = <<e1, e2>>
  BY <1>1 DEF Spontaneous
<1>3. e1.typ = 2 /\ e2.typ = 4
  BY <1>1 DEF Entry, ForwardAmt
<1>4. \A j \in DOMAIN Spontaneous(fwd) : Spontaneous(fwd)[j].typ # PaymentSecret
  BY <1>2, <1>3 DEF PaymentSecret
<1> QED
  BY <1>4, NoneIs

\* Only the two amounts are set, and the onion is as if they had been in it.
LEMMA AmendedIs ==
    ASSUME NEW l, NEW fwd, NEW total, NEW htlc, NEW amount
    PROVE  Amended(Onion(l, fwd, total), Secret[l], htlc, amount) = Onion(l, htlc, amount)
<1>1. PICK t, u : t = Onion(l, fwd, total) /\ u = Onion(l, htlc, amount)
  OBVIOUS
<1>2. PICK v, w : v = PutTu64(htlc) /\ w = Secret[l] \o PutTu64(amount)
  OBVIOUS
<1>3. t = [j \in 1..4 |-> t[j]] /\ u = [j \in 1..4 |-> u[j]]
  BY <1>1 DEF Onion
<1>4. PICK k \in Nat : k = 1
  OBVIOUS
<1>5. PICK s : s = [t EXCEPT ![k].value = v] /\ SetTu64(t, ForwardAmt, htlc) = s
  <2>1. OnlyOne(t, k, ForwardAmt)
    BY <1>1, <1>4, OnionHas
  <2>2. SetBytes(t, ForwardAmt, v) = [t EXCEPT ![k].value = v]
    BY <2>1, OnlyOneIs
  <2> QED
    BY <1>2, <2>2 DEF SetTu64
<1>6. /\ DOMAIN t = 1..4
      /\ t[1] = Entry(ForwardAmt, PutTu64(fwd)) /\ t[2] = Entry(4, <<40>>)
      /\ t[3] = Entry(PaymentSecret, Secret[l] \o PutTu64(total))
      /\ t[4] = Entry(33001, <<1, 2>>)
      /\ OnlyOne(t, 3, PaymentSecret)
  BY <1>1, OnionHas
<1>7. /\ DOMAIN u = 1..4
      /\ u[1] = Entry(ForwardAmt, v) /\ u[2] = Entry(4, <<40>>)
      /\ u[3] = Entry(PaymentSecret, w) /\ u[4] = Entry(33001, <<1, 2>>)
  BY <1>1, <1>2, OnionHas
<1>8. DOMAIN s = 1..4 /\ s[1] = u[1] /\ s[2] = t[2] /\ s[3] = t[3] /\ s[4] = t[4]
  BY <1>3, <1>4, <1>5, <1>6, <1>7 DEF Entry
<1>9. OnlyOne(s, 3, PaymentSecret)
  <2>1. s[1].typ = t[1].typ
    BY <1>6, <1>7, <1>8 DEF Entry
  <2>2. \A j \in 1..4 : s[j].typ = t[j].typ
    <3>1. \A j \in 1..4 : j = 1 \/ j = 2 \/ j = 3 \/ j = 4
      OBVIOUS
    <3> QED
      BY <1>8, <2>1, <3>1
  <2> QED
    BY <1>6, <1>8, <2>2 DEF OnlyOne
<1>10. PICK i \in Nat : i = 3
  OBVIOUS
<1>11. PICK r : r = [s EXCEPT ![i].value = w] /\ SetBytes(s, PaymentSecret, w) = r
  <2>1. OnlyOne(s, i, PaymentSecret)
    BY <1>9, <1>10
  <2>2. SetBytes(s, PaymentSecret, w) = [s EXCEPT ![i].value = w]
    BY <2>1, OnlyOneIs
  <2> QED
    BY <2>2
<1>12. s = [j \in 1..4 |-> s[j]]
  BY <1>3, <1>5
<1>13. r[1] = u[1] /\ r[2] = u[2] /\ r[3] = u[3] /\ r[4] = u[4] /\ r = [j \in 1..4 |-> r[j]]
  <2>1. PICK e : e = [s[3] EXCEPT !.value = w]
    OBVIOUS
  <2>2. e = u[3]
    BY <1>6, <1>7, <1>8, <2>1 DEF Entry
  <2>3. r = [j \in 1..4 |-> IF j = 3 THEN e ELSE s[j]]
    BY <1>10, <1>11, <1>12, <2>1
  <2> QED
    BY <1>6, <1>7, <1>8, <2>2, <2>3
<1>14. r = u
  <2>1. \A j \in 1..4 : j = 1 \/ j = 2 \/ j = 3 \/ j = 4
    OBVIOUS
  <2>2. \A j \in 1..4 : r[j] = u[j]
    BY <1>13, <2>1
  <2> QED
    BY <1>3, <1>13, <2>2
<1> QED
  BY <1>1, <1>2, <1>5, <1>11, <1>14 DEF Amended

\* What lightningd makes of the amounts in a payload.
LEMMA AmountsRead ==
    ASSUME NEW l \in Labels \cup {None}, NEW fwd \in Msat, NEW total \in Msat,
           NEW h, h.payload = ToBytes(Onion(l, fwd, total))
    PROVE  ForwardOf(h) = fwd /\ TotalOf(h) = total /\ Reads(h.payload, PaymentSecret) # {}
<1>1. PICK t : t = Onion(l, fwd, total)
  OBVIOUS
<1>2. t \in Payloads
  BY <1>1, OnionIs DEF Onions, Payloads
<1>3. \A typ : Reads(h.payload, typ) = Get(t, typ)
  BY <1>1, <1>2, PayloadFits, ReadsEntries
<1>4. /\ Get(t, ForwardAmt) = {PutTu64(fwd)}
      /\ Get(t, PaymentSecret) = {Secret[l] \o PutTu64(total)}
  <2>1. /\ t[1] = Entry(ForwardAmt, PutTu64(fwd))
        /\ t[3] = Entry(PaymentSecret, Secret[l] \o PutTu64(total))
        /\ OnlyOne(t, 1, ForwardAmt) /\ OnlyOne(t, 3, PaymentSecret)
    BY <1>1, OnionHas
  <2>2. PICK i, j \in Nat : i = 1 /\ j = 3
    OBVIOUS
  <2>3. Get(t, ForwardAmt) = {t[i].value} /\ Get(t, PaymentSecret) = {t[j].value}
    BY <2>1, <2>2, OnlyOneIs
  <2> QED
    BY <2>1, <2>2, <2>3 DEF Entry
<1>5. ForwardOf(h) = FromBigEndian(PutTu64(fwd))
  BY <1>3, <1>4 DEF ForwardOf
<1>6. PICK s : s = Secret[l] \o PutTu64(total)
  OBVIOUS
<1>7. TotalOf(h) = FromBigEndian(SubSeq(s, Len(Secret[None]) + 1, Len(s)))
  BY <1>3, <1>4, <1>6 DEF TotalOf
<1>8. FromBigEndian(PutTu64(fwd)) = fwd
  BY MsatFits
<1>9. TotalOf(h) = total
  BY <1>6, <1>7, SecretAndTotal
<1> QED
  BY <1>3, <1>4, <1>5, <1>8, <1>9

LEMMA OnlyAmountsDiffer ==
    ASSUME NEW l \in Labels \cup {None}, NEW fwd, NEW total \in Msat,
           NEW htlc, NEW amount \in Msat
    PROVE  SameButAmounts(Onion(l, fwd, total), Onion(l, htlc, amount))
<1>1. PICK t, u : t = Onion(l, fwd, total) /\ u = Onion(l, htlc, amount)
  OBVIOUS
<1>2. /\ DOMAIN t = 1..4 /\ Len(t) = 4
      /\ t[1] = Entry(ForwardAmt, PutTu64(fwd)) /\ t[2] = Entry(4, <<40>>)
      /\ t[3] = Entry(PaymentSecret, Secret[l] \o PutTu64(total))
      /\ t[4] = Entry(33001, <<1, 2>>)
  BY <1>1, OnionHas
<1>3. /\ DOMAIN u = 1..4 /\ Len(u) = 4
      /\ u[1] = Entry(ForwardAmt, PutTu64(htlc)) /\ u[2] = Entry(4, <<40>>)
      /\ u[3] = Entry(PaymentSecret, Secret[l] \o PutTu64(amount))
      /\ u[4] = Entry(33001, <<1, 2>>)
  BY <1>1, OnionHas
<1>4. SecretIn(u[3].value) = Secret[l] /\ SecretIn(t[3].value) = Secret[l]
  <2>1. PICK v, w : v = Secret[l] \o PutTu64(amount) /\ w = Secret[l] \o PutTu64(total)
    OBVIOUS
  <2>2. SecretIn(v) = Secret[l] /\ SecretIn(w) = Secret[l]
    BY <2>1, SecretAndTotal
  <2> QED
    BY <1>2, <1>3, <2>1, <2>2 DEF Entry
<1>5. ForwardAmt # PaymentSecret
  BY DEF ForwardAmt, PaymentSecret
<1>6. /\ t[1].typ = ForwardAmt /\ u[1].typ = ForwardAmt
      /\ t[3].typ = PaymentSecret /\ u[3].typ = PaymentSecret
  BY <1>2, <1>3 DEF Entry
<1>7. t[2] = u[2] /\ t[2].typ # PaymentSecret /\ t[4] = u[4] /\ t[4].typ # PaymentSecret
  BY <1>2, <1>3 DEF Entry, PaymentSecret
<1>8. \A n \in 1..4 :
          /\ u[n].typ = t[n].typ
          /\ t[n].typ \notin {ForwardAmt, PaymentSecret} => u[n] = t[n]
          /\ t[n].typ = PaymentSecret => SecretIn(u[n].value) = SecretIn(t[n].value)
  <2>1. \A n \in 1..4 : n = 1 \/ n = 2 \/ n = 3 \/ n = 4
    OBVIOUS
  <2> QED
    BY <1>4, <1>5, <1>6, <1>7, <2>1
<1> QED
  BY <1>1, <1>2, <1>3, <1>8 DEF SameButAmounts

-----------------------------------------------------------------------------
(* Reduced parts                                                           *)

\* The hook has something to amend in an onion t.
Amends(t, h, inv) ==
    IsReduced(h) /\ Get(t, PaymentSecret) # {} /\ inv.made # "none" /\ inv.amount > 0

\* A part was sent with t, and lightningd has it as the hook returned it.
SentAs(h, inv, t) ==
    /\ h.sent = ToBytes(t)
    /\ Amends(t, h, inv) => h.payload = ToBytes(Onion(h.label, h.htlc, inv.amount))
    /\ ~Amends(t, h, inv) => h.payload = ToBytes(t)

\* It may be failed for other reasons than what the LSP deducted.
Refusable(h, inv) ==
    IsReduced(h) /\ Reads(h.sent, PaymentSecret) # {}
        => inv.made = "none" \/ inv.amount = 0 \/ inv.called

FailedRightly(h, inv) == h.pc = "failed" => Refusable(h, inv)

\* It counts towards the invoice, with its HTLC if the LSP deducted something.
Counts(h, inv) ==
    /\ inv.amount > 0 => TotalOf(h) = inv.amount
    /\ IsReduced(h) => ForwardOf(h) = h.htlc /\ TotalOf(h) = inv.amount

TakenRightly(h, inv) == h.pc \in {"kept", "overpaid"} => Counts(h, inv)

PartIs(h, inv) ==
    /\ h.label \in Labels \cup {None} /\ h.htlc \in Msat /\ h.fwd \in Msat
    /\ h.label # None => inv.made # "none"
    /\ \E t \in Onions(h.label, h.fwd) : SentAs(h, inv, t)
    /\ TakenRightly(h, inv) /\ FailedRightly(h, inv)

\* It is there, with what the hook made of it.
Answered(h) == h.pc \notin {"none", "unanswered"}

ReducedInv ==
    /\ \A l \in Labels : request[l].amount \in Msat
    /\ \A i \in Parts : Answered(part[i]) => PartIs(part[i], InvoiceFor(part[i].label))

\* An invoice that is there stays what it is, and its parts may come to the hook.
Stays(inv, new) ==
    inv.made # "none" => /\ new.made = inv.made /\ new.amount = inv.amount
                         /\ inv.called => new.called

LEMMA AmountIsMsat ==
    ASSUME PaymentsInv, ReducedInv, NEW l \in Labels \cup {None}
    PROVE  InvoiceFor(l).amount \in Msat
<1>1. CASE l = None
  <2>1. 0 \in Msat
    BY ReceivingConstants DEF Msat, U64
  <2> QED
    BY <1>1, <2>1 DEF InvoiceFor, NoInvoice
<1>2. CASE l # None
  <2>1. l \in Labels /\ InvoiceFor(l) = invoice[l]
    BY <1>2 DEF InvoiceFor
  <2>2. invoice[l].amount \in 0..request[l].amount /\ request[l].amount \in Msat
    BY <2>1 DEF PaymentsInv, ReducedInv, Agree
  <2>3. MaxMsat \in Nat
    BY ReceivingConstants DEF U64
  <2> QED
    BY <2>1, <2>2, <2>3 DEF Msat
<1> QED
  BY <1>1, <1>2

LEMMA PartStays ==
    ASSUME NEW h, NEW inv, NEW new, PartIs(h, inv), Stays(inv, new), h.label = None => new = inv
    PROVE  PartIs(h, new)
<1>1. new.made = inv.made /\ new.amount = inv.amount /\ (inv.called => new.called)
  BY DEF PartIs, Stays
<1>2. \A t : SentAs(h, inv, t) => SentAs(h, new, t)
  BY <1>1 DEF SentAs, Amends
<1> QED
  BY <1>1, <1>2 DEF PartIs, TakenRightly, Counts, FailedRightly, Refusable

\* The parts are untouched, and the invoices stay.
LEMMA InvoicesStay ==
    ASSUME ReducedInv, UNCHANGED part, \A l \in Labels : Stays(invoice[l], invoice'[l]),
           \A l \in Labels : request'[l].amount \in Msat
    PROVE  ReducedInv'
<1>1. ASSUME NEW CONSTANT i \in Parts, Answered(part'[i])
      PROVE  PartIs(part[i], InvoiceFor(part[i].label))'
  <2>1. PICK h, inv : h = part[i] /\ inv = InvoiceFor(h.label) /\ part'[i] = h
    OBVIOUS
  <2>2. PartIs(h, inv)
    BY <1>1, <2>1 DEF ReducedInv
  <2>3. h.label \in Labels \cup {None}
    BY <2>2 DEF PartIs
  <2>4. PICK new : new = IF h.label = None THEN NoInvoice ELSE invoice'[h.label]
    OBVIOUS
  <2>5. Stays(inv, new) /\ (h.label = None => new = inv)
    <3>1. CASE h.label = None
      BY <2>1, <2>4, <3>1 DEF InvoiceFor, Stays
    <3>2. CASE h.label # None
      BY <2>1, <2>3, <2>4, <3>2 DEF InvoiceFor
    <3> QED
      BY <3>1, <3>2
  <2>6. PartIs(h, new)
    BY <2>2, <2>5, PartStays
  <2>7. InvoiceFor(part[i].label)' = new
    BY <2>1, <2>4 DEF InvoiceFor
  <2>8. PartIs(h, new) <=> PartIs(part[i], InvoiceFor(part[i].label))'
    BY <2>1, <2>7 DEF PartIs, SentAs, Amends, TakenRightly, Counts, FailedRightly, Refusable,
                      TotalOf, ForwardOf, IsReduced
  <2> QED
    BY <2>6, <2>8
<1> QED
  BY <1>1 DEF ReducedInv, Answered

\* A request changes, and its invoice only if it had none.
LEMMA RequestStays ==
    ASSUME PaymentsInv, ReducedInv, UNCHANGED part, NEW CONSTANT l \in Labels,
           NEW CONSTANT r, request' = [request EXCEPT ![l] = r], r.amount \in Msat,
           \/ UNCHANGED invoice
           \/ request[l].pc # "made" /\ \E v : invoice' = [invoice EXCEPT ![l] = v]
    PROVE  ReducedInv'
<1>1. \A k \in Labels : request'[k].amount \in Msat
  BY DEF ReducedInv, PaymentsInv
<1>2. \A k \in Labels : Stays(invoice[k], invoice'[k])
  <2>1. CASE UNCHANGED invoice
    BY <2>1 DEF Stays
  <2>2. CASE request[l].pc # "made" /\ \E v : invoice' = [invoice EXCEPT ![l] = v]
    <3>1. invoice[l].made = "none"
      BY <2>2 DEF PaymentsInv, Agree
    <3>2. \A k \in Labels : k # l => invoice'[k] = invoice[k]
      BY <2>2 DEF PaymentsInv
    <3> QED
      BY <3>1, <3>2 DEF Stays
  <2> QED
    BY <2>1, <2>2
<1> QED
  BY <1>1, <1>2, InvoicesStay

\* The steps of a call of invoice or lsp_invoice.
CallStep(l) ==
    \/ \E a \in Amounts : LspInvoice(l, a) \/ Invoice(l, a)
    \/ CheckCapacity(l) \/ GatherOffers(l) \/ Fails(l) \/ RegularInvoice(l) \/ Negotiate(l)

LEMMA CallsStay ==
    ASSUME PaymentsInv, ReducedInv, NEW CONSTANT l \in Labels, CallStep(l)
    PROVE  ReducedInv'
<1>1. request[l] \in Request /\ request[l].amount \in Msat
  BY DEF PaymentsInv, ReducedInv
<1>2. \A a \in Amounts : a \in Msat
  BY ReceivingConstants DEF Msat
<1>3. Failed.amount \in Msat
  <2>1. Failed.amount = 0
    BY DEF Failed, NoRequest
  <2> QED
    BY <2>1, ReceivingConstants DEF Msat, U64
<1>4. ASSUME NEW a \in Amounts, LspInvoice(l, a)
      PROVE  ReducedInv'
  <2>1. PICK r : r = [NoRequest EXCEPT !.pc = "capacity", !.amount = a]
    OBVIOUS
  <2>2. r.amount \in Msat
    BY <1>2, <2>1 DEF NoRequest
  <2>3. request' = [request EXCEPT ![l] = r] /\ UNCHANGED <<part, invoice>>
    BY <1>4, <2>1 DEF LspInvoice
  <2> QED
    BY <2>2, <2>3, RequestStays
<1>5. ASSUME NEW a \in Amounts, Invoice(l, a)
      PROVE  ReducedInv'
  <2>1. PICK r : r = [pc |-> "made", amount |-> a, lsp |-> None]
    OBVIOUS
  <2>2. r.amount \in Msat
    BY <1>2, <2>1
  <2>3. request' = [request EXCEPT ![l] = r] /\ UNCHANGED part /\ request[l].pc = "none"
    BY <1>5, <2>1 DEF Invoice
  <2>4. \E v : invoice' = [invoice EXCEPT ![l] = v]
    BY <1>5 DEF Invoice
  <2> QED
    BY <2>2, <2>3, <2>4, RequestStays
<1>6. CASE CheckCapacity(l)
  <2>1. PICK to : request' = [request EXCEPT ![l].pc = to]
    BY <1>6 DEF CheckCapacity
  <2>2. PICK r : r = [request[l] EXCEPT !.pc = to]
    OBVIOUS
  <2>3. r.amount \in Msat
    BY <1>1, <2>2 DEF Request
  <2>4. request' = [request EXCEPT ![l] = r] /\ UNCHANGED <<part, invoice>>
    BY <1>6, <2>1, <2>2 DEF CheckCapacity
  <2> QED
    BY <2>3, <2>4, RequestStays
<1>7. CASE GatherOffers(l)
  <2>1. PICK lsps :
           request' = IF lsps = {}
                      THEN [request EXCEPT ![l] = Failed]
                      ELSE [request EXCEPT ![l].pc = "negotiate", ![l].lsp = PeerOrder[Min(lsps)]]
    BY <1>7 DEF GatherOffers
  <2>2. PICK p : p = PeerOrder[Min(lsps)]
    OBVIOUS
  <2>3. PICK r : r = IF lsps = {} THEN Failed
                     ELSE [request[l] EXCEPT !.pc = "negotiate", !.lsp = p]
    OBVIOUS
  <2>4. r.amount \in Msat
    BY <1>1, <1>3, <2>3 DEF Request
  <2>5. request' = [request EXCEPT ![l] = r]
    <3>1. CASE lsps = {}
      BY <2>1, <2>3, <3>1
    <3>2. CASE lsps # {}
      <4>1. request' = [request EXCEPT ![l].pc = "negotiate", ![l].lsp = p]
        BY <2>1, <2>2, <3>2
      <4>2. request \in [Labels -> Request]
        BY DEF PaymentsInv
      <4> QED
        BY <2>3, <3>2, <4>1, <4>2
    <3> QED
      BY <3>1, <3>2
  <2>6. UNCHANGED <<part, invoice>>
    BY <1>7 DEF GatherOffers
  <2> QED
    BY <2>4, <2>5, <2>6, RequestStays
<1>8. CASE Fails(l)
  <2>1. PICK r : r = Failed
    OBVIOUS
  <2>2. request' = [request EXCEPT ![l] = r] /\ UNCHANGED <<part, invoice>>
    BY <1>8, <2>1 DEF Fails
  <2> QED
    BY <1>3, <2>1, <2>2, RequestStays
<1>9. CASE RegularInvoice(l)
  <2>1. PICK r : r = [request[l] EXCEPT !.pc = "made"]
    OBVIOUS
  <2>2. r.amount \in Msat
    BY <1>1, <2>1 DEF Request
  <2>3. request' = [request EXCEPT ![l] = r] /\ UNCHANGED part /\ request[l].pc # "made"
    BY <1>9, <2>1 DEF RegularInvoice
  <2>4. \E v : invoice' = [invoice EXCEPT ![l] = v]
    BY <1>9 DEF RegularInvoice
  <2> QED
    BY <2>2, <2>3, <2>4, RequestStays
<1>10. CASE Negotiate(l)
  <2>1. PICK r : r = [request[l] EXCEPT !.pc = "made", !.lsp = None]
    OBVIOUS
  <2>2. r.amount \in Msat
    BY <1>1, <2>1 DEF Request
  <2>3. request' = [request EXCEPT ![l] = r] /\ UNCHANGED part /\ request[l].pc = "negotiate"
    BY <1>10, <2>1 DEF Negotiate
  <2>4. \E v : invoice' = [invoice EXCEPT ![l] = v]
    BY <1>10 DEF Negotiate
  <2> QED
    BY <2>2, <2>3, <2>4, RequestStays
<1> QED
  BY <1>4, <1>5, <1>6, <1>7, <1>8, <1>9, <1>10 DEF CallStep

LEMMA InvoicePaymentStays ==
    ASSUME PaymentsInv, ReducedInv, NEW CONSTANT l \in Labels, InvoicePayment(l)
    PROVE  ReducedInv'
<1>1. UNCHANGED <<request, part>> /\ invoice' = [invoice EXCEPT ![l].called = TRUE]
  BY DEF InvoicePayment
<1>2. \A k \in Labels : Stays(invoice[k], invoice'[k])
  <2>1. invoice \in [Labels -> InvoiceRecord]
    BY DEF PaymentsInv
  <2>2. \A k \in Labels : k # l => invoice'[k] = invoice[k]
    BY <1>1, <2>1
  <2>3. invoice'[l] = [invoice[l] EXCEPT !.called = TRUE] /\ invoice[l] \in InvoiceRecord
    BY <1>1, <2>1
  <2>4. Stays(invoice[l], invoice'[l])
    BY <2>3 DEF Stays, InvoiceRecord
  <2>5. \A k \in Labels : k # l => Stays(invoice[k], invoice'[k])
    BY <2>2 DEF Stays
  <2> QED
    BY <2>4, <2>5
<1>3. \A k \in Labels : request'[k].amount \in Msat
  BY <1>1 DEF ReducedInv
<1> QED
  BY <1>1, <1>2, <1>3, InvoicesStay

\* Parts change, to such as should be.
LEMMA PartsStay ==
    ASSUME ReducedInv, UNCHANGED <<request, invoice>>,
           \A j \in Parts : \/ part'[j] = part[j]
                           \/ ~Answered(part'[j])
                           \/ PartIs(part'[j], InvoiceFor(part'[j].label))
    PROVE  ReducedInv'
<1>1. \A k \in Labels : request'[k].amount \in Msat
  BY DEF ReducedInv
<1>2. ASSUME NEW CONSTANT j \in Parts, Answered(part'[j])
      PROVE  PartIs(part[j], InvoiceFor(part[j].label))'
  <2>1. PICK g : g = part'[j]
    OBVIOUS
  <2>2. PartIs(g, InvoiceFor(g.label))
    BY <1>2, <2>1 DEF ReducedInv
  <2>3. PICK inv : inv = InvoiceFor(g.label)
    OBVIOUS
  <2>4. InvoiceFor(part[j].label)' = inv
    BY <2>1, <2>3 DEF InvoiceFor
  <2>5. PartIs(g, inv) <=> PartIs(part[j], InvoiceFor(part[j].label))'
    BY <2>1, <2>4 DEF PartIs, SentAs, Amends, TakenRightly, Counts, FailedRightly, Refusable,
                      TotalOf, ForwardOf, IsReduced
  <2> QED
    BY <2>2, <2>3, <2>5
<1> QED
  BY <1>1, <1>2 DEF ReducedInv, Answered

\* One part that changes alone.
LEMMA OnePartStays ==
    ASSUME PaymentsInv, ReducedInv, UNCHANGED <<request, invoice>>, NEW CONSTANT i \in Parts,
           NEW CONSTANT h, part' = [part EXCEPT ![i] = h],
           Answered(h) => PartIs(h, InvoiceFor(h.label))
    PROVE  ReducedInv'
<1>1. \A j \in Parts : (j # i => part'[j] = part[j]) /\ (j = i => part'[j] = h)
  BY DEF PaymentsInv
<1>2. \A j \in Parts : \/ part'[j] = part[j]
                      \/ ~Answered(part'[j])
                      \/ PartIs(part'[j], InvoiceFor(part'[j].label))
  BY <1>1
<1> QED
  BY <1>2, PartsStay

\* A part reaches the hook, which answers,
LEMMA HtlcStays ==
    ASSUME PaymentsInv, ReducedInv, NEW CONSTANT i \in Parts,
           NEW CONSTANT l \in Labels \cup {None},
           NEW CONSTANT fwd \in Msat, NEW CONSTANT htlc \in Msat,
           NEW t, t \in Onions(l, fwd), HtlcAccepted(i, l, t, fwd, htlc)
    PROVE  ReducedInv'
<1>1. PICK inv : inv = InvoiceFor(l)
  OBVIOUS
<1>2. Deserialize(Prefixed(ToBytes(t))) = t
  <2>1. t \in Payloads
    BY OnionIs DEF Payloads
  <2> QED
    BY <2>1, DeserializeReads
<1> DEFINE Reduced == /\ htlc < fwd /\ Get(t, PaymentSecret) # {}
                      /\ inv.made # "none" /\ inv.amount > 0
           Payload == IF Reduced
                      THEN {ToBytes(Amended(t, SecretIn(value), htlc, inv.amount)) :
                               value \in Get(t, PaymentSecret)}
                      ELSE {ToBytes(t)}
<1>3. PICK payload \in Payload :
          part' = [part EXCEPT ![i] = [pc |-> "decide", label |-> l, htlc |-> htlc,
                       fwd |-> fwd, sent |-> ToBytes(t), payload |-> payload]]
  BY <1>1, <1>2 DEF HtlcAccepted, LooksUp
<1>4. PICK h : h = [pc |-> "decide", label |-> l, htlc |-> htlc,
                    fwd |-> fwd, sent |-> ToBytes(t), payload |-> payload]
  OBVIOUS
<1>5. /\ h.pc = "decide" /\ h.label = l /\ h.htlc = htlc /\ h.fwd = fwd
      /\ h.sent = ToBytes(t) /\ h.payload = payload
  BY <1>4
<1>6. Reduced <=> Amends(t, h, inv)
  BY <1>5 DEF Amends, IsReduced
<1>7. SentAs(h, inv, t)
  <2>1. CASE ~Reduced
    BY <1>3, <1>5, <1>6, <2>1 DEF SentAs
  <2>2. CASE Reduced
    <3>1. PICK total \in Msat : t = Onion(l, fwd, total)
      BY <2>2, SpontaneousHas DEF Onions
    <3>2. PICK value : value \in Get(t, PaymentSecret)
                       /\ payload = ToBytes(Amended(t, SecretIn(value), htlc, inv.amount))
      BY <1>3, <2>2
    <3>3. Get(t, PaymentSecret) = {Secret[l] \o PutTu64(total)}
      <4>1. PICK n \in Nat : n = 3
        OBVIOUS
      <4>2. /\ OnlyOne(t, 3, PaymentSecret)
            /\ t[3] = Entry(PaymentSecret, Secret[l] \o PutTu64(total))
        BY <3>1, OnionHas
      <4>3. Get(t, PaymentSecret) = {t[n].value}
        BY <4>1, <4>2, OnlyOneIs
      <4>4. PICK s : s = Secret[l] \o PutTu64(total)
        OBVIOUS
      <4>5. t[n].value = s
        BY <4>1, <4>2, <4>4 DEF Entry
      <4> QED
        BY <4>3, <4>4, <4>5
    <3>4. SecretIn(value) = Secret[l]
      BY <3>2, <3>3, SecretAndTotal
    <3>5. payload = ToBytes(Onion(l, htlc, inv.amount))
      BY <3>1, <3>2, <3>4, AmendedIs
    <3> QED
      BY <1>5, <1>6, <2>2, <3>5 DEF SentAs
  <2> QED
    BY <2>1, <2>2
<1>8. PartIs(h, inv)
  <2>1. l # None => inv.made # "none"
    BY <1>1 DEF HtlcAccepted, InvoiceFor
  <2> QED
    BY <1>5, <1>7, <2>1 DEF PartIs, TakenRightly, FailedRightly
<1>9. part' = [part EXCEPT ![i] = h] /\ UNCHANGED <<request, invoice>>
  BY <1>3, <1>4 DEF HtlcAccepted
<1> QED
  BY <1>1, <1>5, <1>8, <1>9, OnePartStays

\* or not.
LEMMA ArrivesStays ==
    ASSUME PaymentsInv, ReducedInv, NEW CONSTANT i \in Parts,
           NEW CONSTANT l \in Labels \cup {None},
           NEW CONSTANT fwd \in Msat, NEW CONSTANT htlc \in Msat,
           NEW t, t \in Onions(l, fwd), Arrives(i, l, t, fwd, htlc)
    PROVE  ReducedInv'
<1>1. CASE HtlcAccepted(i, l, t, fwd, htlc)
  BY <1>1, HtlcStays
<1>2. CASE HookFails(i, t, fwd, htlc)
  <2>1. PICK h : h = [NoPart EXCEPT !.pc = "unanswered"]
    OBVIOUS
  <2>2. ~Answered(h)
    BY <2>1 DEF NoPart, Answered
  <2>3. part' = [part EXCEPT ![i] = h] /\ UNCHANGED <<request, invoice>>
    BY <1>2, <2>1 DEF HookFails
  <2> QED
    BY <2>2, <2>3, OnePartStays
<1> QED
  BY <1>1, <1>2 DEF Arrives

\* What lightningd reads in a part: what the hook made of it, or the sender did.
LEMMA PartReads ==
    ASSUME PaymentsInv, ReducedInv, NEW h, h.label \in Labels \cup {None},
           PartIs(h, InvoiceFor(h.label)), IsReduced(h)
    PROVE  LET inv == InvoiceFor(h.label) IN
           \/ /\ Reads(h.sent, PaymentSecret) # {} /\ inv.made # "none" /\ inv.amount > 0
              /\ ForwardOf(h) = h.htlc /\ TotalOf(h) = inv.amount
              /\ Reads(h.payload, PaymentSecret) # {}
           \/ /\ Reads(h.sent, PaymentSecret) = {} \/ inv.made = "none" \/ ~(inv.amount > 0)
              /\ Reads(h.payload, PaymentSecret) = {} \/ ForwardOf(h) = h.fwd
<1>1. PICK inv : inv = InvoiceFor(h.label)
  OBVIOUS
<1>2. PICK t \in Onions(h.label, h.fwd) : SentAs(h, inv, t)
  BY <1>1 DEF PartIs
<1>3. h.fwd \in Msat /\ h.htlc \in Msat /\ inv.amount \in Msat
  BY <1>1, AmountIsMsat DEF PartIs
<1>4. t \in Payloads
  BY <1>2, <1>3, OnionIs DEF Payloads
<1>5. Reads(h.sent, PaymentSecret) = Get(t, PaymentSecret)
  BY <1>2, <1>4, PayloadFits, ReadsEntries DEF SentAs
<1>6. CASE Amends(t, h, inv)
  <2>1. h.payload = ToBytes(Onion(h.label, h.htlc, inv.amount))
    BY <1>2, <1>6 DEF SentAs
  <2>2. PICK l \in Labels \cup {None}, fwd \in Msat, total \in Msat :
           l = h.label /\ fwd = h.htlc /\ total = inv.amount
    BY <1>3
  <2>3. h.payload = ToBytes(Onion(l, fwd, total))
    BY <2>1, <2>2
  <2>4. ForwardOf(h) = fwd /\ TotalOf(h) = total /\ Reads(h.payload, PaymentSecret) # {}
    BY <2>3, AmountsRead
  <2> QED
    BY <1>1, <1>5, <1>6, <2>2, <2>4 DEF Amends
<1>7. CASE ~Amends(t, h, inv)
  <2>1. h.payload = ToBytes(t)
    BY <1>2, <1>7 DEF SentAs
  <2>2. Reads(h.payload, PaymentSecret) = Get(t, PaymentSecret)
    BY <1>4, <2>1, PayloadFits, ReadsEntries
  <2>3. Get(t, PaymentSecret) = {} \/ ForwardOf(h) = h.fwd
    <3> SUFFICES ASSUME Get(t, PaymentSecret) # {}
                 PROVE  ForwardOf(h) = h.fwd
      OBVIOUS
    <3>1. PICK total \in Msat : t = Onion(h.label, h.fwd, total)
      BY <1>2, SpontaneousHas DEF Onions
    <3>2. PICK l \in Labels \cup {None}, fwd \in Msat : l = h.label /\ fwd = h.fwd
      BY <1>3
    <3>3. h.payload = ToBytes(Onion(l, fwd, total))
      BY <2>1, <3>1, <3>2
    <3> QED
      BY <3>2, <3>3, AmountsRead
  <2> QED
    BY <1>1, <1>5, <1>7, <2>2, <2>3 DEF Amends
<1> QED
  BY <1>6, <1>7

\* One that lightningd takes counts for its HTLC.
LEMMA TakenCounts ==
    ASSUME PaymentsInv, ReducedInv, NEW CONSTANT i \in Parts,
           part[i].pc = "decide", Takes(part[i])
    PROVE  Counts(part[i], InvoiceFor(part[i].label))
<1>1. PICK h, inv : h = part[i] /\ inv = InvoiceFor(h.label)
  OBVIOUS
<1>2. PartIs(h, inv) /\ h.label \in Labels \cup {None} /\ h.htlc \in Msat /\ h.fwd \in Msat
  BY <1>1 DEF ReducedInv, Answered, PartIs
<1>3. /\ inv.amount > 0 => TotalOf(h) = inv.amount
      /\ h.htlc >= ForwardOf(h) /\ Reads(h.payload, PaymentSecret) # {}
  BY <1>1 DEF Takes
<1>4. ASSUME IsReduced(h)
      PROVE  ForwardOf(h) = h.htlc /\ TotalOf(h) = inv.amount
  <2>1. ~(h.htlc >= h.fwd)
    BY <1>2, <1>4, ReceivingConstants DEF IsReduced, Msat, U64
  <2> QED
    BY <1>1, <1>2, <1>3, <1>4, <2>1, PartReads
<1> QED
  BY <1>1, <1>3, <1>4 DEF Counts

\* One that it refuses, it may.
LEMMA RefusedRightly ==
    ASSUME PaymentsInv, ReducedInv, NEW CONSTANT i \in Parts,
           part[i].pc = "decide", ~Takes(part[i])
    PROVE  Refusable(part[i], InvoiceFor(part[i].label))
<1>1. PICK g, inv : g = part[i] /\ inv = InvoiceFor(g.label)
  OBVIOUS
<1>2. PartIs(g, inv) /\ g.label \in Labels \cup {None} /\ g.htlc \in Msat
  BY <1>1 DEF ReducedInv, Answered, PartIs
<1> SUFFICES ASSUME IsReduced(g), Reads(g.sent, PaymentSecret) # {},
                    inv.made # "none", inv.amount # 0, ~inv.called
             PROVE  FALSE
  BY <1>1 DEF Refusable
<1>3. inv.amount \in Msat
  BY <1>1, <1>2, AmountIsMsat
<1>4. inv.amount > 0 /\ g.htlc >= g.htlc
  BY <1>2, <1>3, ReceivingConstants DEF Msat, U64
<1>5. ForwardOf(g) = g.htlc /\ TotalOf(g) = inv.amount /\ Reads(g.payload, PaymentSecret) # {}
  BY <1>1, <1>2, <1>4, PartReads
<1>6. \A j \in Kept(g.label) : TotalOf(part[j]) = TotalOf(g)
  <2> SUFFICES ASSUME NEW j \in Parts, part[j].label = g.label, part[j].pc = "kept"
               PROVE  TotalOf(part[j]) = inv.amount
    BY <1>5 DEF Kept
  <2>1. TakenRightly(part[j], inv)
    BY <1>1 DEF ReducedInv, Answered, PartIs
  <2> QED
    BY <1>4, <2>1 DEF TakenRightly, Counts
<1>7. Takes(g)
  BY <1>1, <1>4, <1>5, <1>6 DEF Takes
<1> QED
  BY <1>1, <1>7

\* Where a part goes does not change what it is.
LEMMA MovedIs ==
    ASSUME NEW B, NEW g \in Htlc(B), NEW inv, PartIs(g, inv), NEW to,
           to \in {"kept", "overpaid"} => Counts(g, inv), to = "failed" => Refusable(g, inv)
    PROVE  PartIs([g EXCEPT !.pc = to], inv)
<1>1. PICK h : h = [g EXCEPT !.pc = to]
  OBVIOUS
<1>2. /\ h.pc = to /\ h.label = g.label /\ h.htlc = g.htlc /\ h.fwd = g.fwd
      /\ h.sent = g.sent /\ h.payload = g.payload
  BY <1>1 DEF Htlc
<1>3. \A t : SentAs(g, inv, t) => SentAs(h, inv, t)
  BY <1>2 DEF SentAs, Amends, IsReduced
<1>4. TotalOf(h) = TotalOf(g) /\ ForwardOf(h) = ForwardOf(g)
  BY <1>2 DEF TotalOf, ForwardOf
<1>5. TakenRightly(h, inv) /\ FailedRightly(h, inv)
  BY <1>2, <1>4 DEF TakenRightly, Counts, FailedRightly, Refusable, IsReduced
<1>6. PartIs(h, inv)
  BY <1>2, <1>3, <1>5 DEF PartIs
<1> QED
  BY <1>1, <1>6

\* What lightningd decides about a part that it has.
LEMMA DecideStays ==
    ASSUME PaymentsInv, ReducedInv, NEW CONSTANT i \in Parts, Decide(i)
    PROVE  ReducedInv'
<1>1. PICK B : part \in [Parts -> Htlc(B)]
  BY DEF PaymentsInv
<1>2. part[i].pc = "decide" /\ UNCHANGED <<request, invoice>>
  BY DEF Decide, Keep, Reject, Refuse
<1>3. ASSUME NEW j \in Parts, Answered(part[j]), NEW to,
             to \in {"kept", "overpaid"} => Counts(part[j], InvoiceFor(part[j].label)),
             to = "failed" => Refusable(part[j], InvoiceFor(part[j].label)),
             part'[j] = [part[j] EXCEPT !.pc = to]
      PROVE  PartIs(part'[j], InvoiceFor(part'[j].label))
  <2>1. part[j] \in Htlc(B)
    BY <1>1
  <2>2. part'[j].label = part[j].label
    BY <1>3, <2>1 DEF Htlc
  <2>3. PartIs(part[j], InvoiceFor(part[j].label))
    BY <1>3 DEF ReducedInv
  <2> QED
    BY <1>3, <2>1, <2>2, <2>3, MovedIs
<1>4. ASSUME NEW to, part' = [part EXCEPT ![i].pc = to], to = "kept" \/ to = "failed",
             to = "kept" => Takes(part[i]), to = "failed" => ~Takes(part[i])
      PROVE  ReducedInv'
  <2>1. part'[i] = [part[i] EXCEPT !.pc = to] /\ \A j \in Parts : j # i => part'[j] = part[j]
    BY <1>1, <1>4
  <2>2. Answered(part[i])
    BY <1>2 DEF Answered
  <2>3. PartIs(part'[i], InvoiceFor(part'[i].label))
    BY <1>2, <1>3, <1>4, <2>1, <2>2, TakenCounts, RefusedRightly
  <2> QED
    BY <1>2, <2>1, <2>3, PartsStay
<1>5. CASE Keep(i)
  BY <1>4, <1>5 DEF Keep
<1>6. CASE Refuse(i)
  <2>1. PICK to : to = "failed"
    OBVIOUS
  <2>2. part' = [part EXCEPT ![i].pc = to] /\ ~Takes(part[i])
    BY <1>6, <2>1 DEF Refuse
  <2>3. to # "kept"
    BY <2>1
  <2> QED
    BY <1>4, <2>1, <2>2, <2>3
<1>7. CASE Reject(i)
  <2>1. \A j \in Parts : part'[j] = IF j \in SetWith(i) THEN [part[j] EXCEPT !.pc = "overpaid"]
                                    ELSE part[j]
    BY <1>7 DEF Reject
  <2>2. ASSUME NEW j \in Parts, j \in SetWith(i)
        PROVE  Answered(part[j]) /\ Counts(part[j], InvoiceFor(part[j].label))
    <3>1. CASE j = i
      BY <1>2, <1>7, <3>1, TakenCounts DEF Answered, Reject
    <3>2. CASE j \in Kept(part[i].label)
      <4>1. part[j].pc = "kept"
        BY <3>2 DEF Kept
      <4> QED
        BY <4>1 DEF ReducedInv, Answered, PartIs, TakenRightly
    <3> QED
      BY <2>2, <3>1, <3>2 DEF SetWith
  <2>3. ASSUME NEW j \in Parts, j \in SetWith(i)
        PROVE  PartIs(part'[j], InvoiceFor(part'[j].label))
    BY <1>3, <2>1, <2>2, <2>3
  <2>4. \A j \in Parts : j \in SetWith(i) \/ part'[j] = part[j]
    BY <2>1
  <2> QED
    BY <1>2, <2>3, <2>4, PartsStay
<1> QED
  BY <1>5, <1>6, <1>7 DEF Decide

\* Parts that are given up are gone.
LEMMA GoneStays ==
    ASSUME PaymentsInv, ReducedInv, (\E i \in Parts : Abandon(i)) \/ \E l \in Labels : Expire(l)
    PROVE  ReducedInv'
<1>1. UNCHANGED <<request, invoice>> /\ \A j \in Parts : part'[j] \in {NoPart, part[j]}
  BY DEF Abandon, Expire, PaymentsInv
<1>2. ~Answered(NoPart)
  BY DEF NoPart, Answered
<1> QED
  BY <1>1, <1>2, PartsStay

LEMMA ReducedInvHolds == Spec => [](PaymentsInv /\ ReducedInv)
<1>1. Init => ReducedInv
  <2> SUFFICES ASSUME Init PROVE ReducedInv
    OBVIOUS
  <2>1. 0 \in Msat
    BY ReceivingConstants DEF Msat, U64
  <2>2. \A l \in Labels : request[l].amount = 0
    BY DEF Init, NoRequest
  <2>3. \A i \in Parts : ~Answered(part[i])
    BY DEF Init, NoPart, Answered
  <2> QED
    BY <2>1, <2>2, <2>3 DEF ReducedInv
<1>2. ASSUME PaymentsInv, ReducedInv, [Next]_vars
      PROVE  ReducedInv'
  <2>1. CASE \E l \in Labels : CallStep(l)
    BY <1>2, <2>1, CallsStay
  <2>2. CASE (\E i \in Parts : Abandon(i)) \/ \E l \in Labels : Expire(l)
    BY <1>2, <2>2, GoneStays
  <2>3. CASE \E l \in Labels : InvoicePayment(l)
    BY <1>2, <2>3, InvoicePaymentStays
  <2>4. ASSUME NEW i \in Parts, NEW fwd \in Forwards, NEW fee \in Fees, fee < fwd,
               \/ \E l \in Labels \cup {None} :
                     Arrives(i, l, Onion(l, fwd, Total(l, fwd)), fwd, fwd - fee)
               \/ Arrives(i, None, Spontaneous(fwd), fwd, fwd - fee)
        PROVE  ReducedInv'
    <3>1. fwd \in Msat /\ fwd - fee \in Msat
      <4>1. MaxMsat \in Nat /\ fwd \in 1..MaxMsat /\ fee \in 0..MaxMsat
        BY ReceivingConstants DEF U64
      <4> QED
        BY <2>4, <4>1 DEF Msat
    <3>2. PICK htlc \in Msat : htlc = fwd - fee
      BY <3>1
    <3>3. ASSUME NEW l \in Labels \cup {None},
                 Arrives(i, l, Onion(l, fwd, Total(l, fwd)), fwd, htlc)
          PROVE  ReducedInv'
      <4>1. Total(l, fwd) \in Msat
        BY <1>2, <3>1 DEF Total, ReducedInv
      <4>2. PICK total \in Msat : total = Total(l, fwd)
        BY <4>1
      <4>3. PICK t : t = Onion(l, fwd, total)
        OBVIOUS
      <4>4. t \in Onions(l, fwd)
        BY <4>3 DEF Onions
      <4>5. Arrives(i, l, t, fwd, htlc)
        BY <3>3, <4>2, <4>3
      <4> QED
        BY <1>2, <3>1, <4>4, <4>5, ArrivesStays
    <3>4. ASSUME Arrives(i, None, Spontaneous(fwd), fwd, htlc)
          PROVE  ReducedInv'
      <4>1. PICK t : t = Spontaneous(fwd)
        OBVIOUS
      <4>2. t \in Onions(None, fwd)
        BY <4>1 DEF Onions
      <4>3. Arrives(i, None, t, fwd, htlc)
        BY <3>4, <4>1
      <4> QED
        BY <1>2, <3>1, <4>2, <4>3, ArrivesStays
    <3> QED
      BY <2>4, <3>2, <3>3, <3>4
  <2>5. CASE \E i \in Parts : Decide(i)
    BY <1>2, <2>5, DecideStays
  <2>6. CASE UNCHANGED receivingVars
    <3>1. /\ UNCHANGED part /\ \A l \in Labels : invoice'[l] = invoice[l]
          /\ \A l \in Labels : request'[l].amount \in Msat
      BY <1>2, <2>6 DEF receivingVars, ReducedInv
    <3>2. \A l \in Labels : Stays(invoice[l], invoice'[l])
      BY <3>1 DEF Stays
    <3> QED
      BY <1>2, <3>1, <3>2, InvoicesStay
  <2>7. UNCHANGED vars => UNCHANGED receivingVars
    BY DEF vars
  <2> QED
    BY <1>2, <2>1, <2>2, <2>3, <2>4, <2>5, <2>6, <2>7 DEF Next, CallStep
<1> QED
  BY <1>1, <1>2, PaymentsInvHolds, PTL DEF Spec

LEMMA SameToItself ==
    ASSUME NEW t
    PROVE  SameButAmounts(t, t)
BY DEF SameButAmounts

(***************************************************************************)
(* When the hook gets to answer for a part that has a secret and that an   *)
(* LSP deducted a fee from, lightningd does not fail it for what it says   *)
(* while its invoice, for an amount, is open: the hook reads the onion as  *)
(* the payer wrote it, and lightningd reads from the hook's bytes the      *)
(* amount of the HTLC, the total of the invoice and the other entries as   *)
(* they were.  So the part counts for its HTLC, and its set is rejected    *)
(* only when the HTLCs are more than the invoice.  It is so for any        *)
(* amounts of 64 bits, fees, secrets and any number of parts and invoices. *)
(***************************************************************************)
THEOREM ReducedPartsAreTaken == Spec => []ReducedIsTaken
<1>1. PaymentsInv /\ ReducedInv => ReducedIsTaken
  <2> SUFFICES ASSUME PaymentsInv, ReducedInv, NEW i \in Parts
               PROVE  LET h == part[i] IN
                      /\ h.pc = "failed" /\ IsReduced(h) /\ Reads(h.sent, PaymentSecret) # {}
                            => LET inv == InvoiceFor(h.label)
                               IN inv.made = "none" \/ inv.amount = 0 \/ inv.called
                      /\ h.pc \in {"kept", "overpaid"} /\ IsReduced(h)
                            => ForwardOf(h) = h.htlc
                               /\ TotalOf(h) = InvoiceFor(h.label).amount
                      /\ h.pc = "decide"
                            => SameButAmounts(FromBytes(h.sent, 1), FromBytes(h.payload, 1))
    BY DEF ReducedIsTaken
  <2>1. PICK h, inv : h = part[i] /\ inv = InvoiceFor(h.label)
    OBVIOUS
  <2>2. Answered(h) => PartIs(h, inv)
    BY <2>1 DEF ReducedInv
  <2>3. /\ h.pc = "failed" => FailedRightly(h, inv)
        /\ h.pc \in {"kept", "overpaid"} => TakenRightly(h, inv)
    BY <2>2 DEF PartIs, Answered
  <2>4. ASSUME h.pc = "decide"
        PROVE  SameButAmounts(FromBytes(h.sent, 1), FromBytes(h.payload, 1))
    <3>1. PICK t \in Onions(h.label, h.fwd) : SentAs(h, inv, t)
      BY <2>2, <2>4 DEF PartIs, Answered
    <3>2. h.label \in Labels \cup {None} /\ h.fwd \in Msat /\ h.htlc \in Msat
      BY <2>2, <2>4 DEF PartIs, Answered
    <3>3. t \in Payloads
      BY <3>1, <3>2, OnionIs DEF Payloads
    <3>4. FromBytes(h.sent, 1) = t
      BY <3>1, <3>3, PayloadFits, ReadsEntries DEF SentAs
    <3>5. CASE Amends(t, h, inv)
      <4>1. PICK total \in Msat : t = Onion(h.label, h.fwd, total)
        BY <3>1, <3>5, SpontaneousHas DEF Onions, Amends
      <4>2. inv.amount \in Msat
        BY <2>1, <3>2, AmountIsMsat
      <4>3. PICK u : u = Onion(h.label, h.htlc, inv.amount)
        OBVIOUS
      <4>4. u \in Payloads
        BY <3>2, <4>2, <4>3, OnionIs DEF Payloads, Onions
      <4>5. FromBytes(h.payload, 1) = u
        BY <3>1, <3>5, <4>3, <4>4, PayloadFits, ReadsEntries DEF SentAs
      <4> QED
        BY <3>2, <3>4, <4>1, <4>2, <4>3, <4>5, OnlyAmountsDiffer
    <3>6. CASE ~Amends(t, h, inv)
      <4>1. FromBytes(h.payload, 1) = t
        BY <3>1, <3>3, <3>6, PayloadFits, ReadsEntries DEF SentAs
      <4> QED
        BY <3>4, <4>1, SameToItself
    <3> QED
      BY <3>5, <3>6
  <2> QED
    BY <2>1, <2>3, <2>4 DEF FailedRightly, Refusable, TakenRightly, Counts
<1> QED
  BY <1>1, ReducedInvHolds, PTL

=============================================================================
