-------------------------- MODULE RealtimeHub_proofs --------------------------
(* Proofs about RealtimeHub for any sizes of the queue and of the history    *)
(* and any number of events, repeats and faults.  The inductive invariant    *)
(* says of a client that what it was given and what waits for it account,    *)
(* with its gap, for all the hub has accepted since base.                    *)
EXTENDS RealtimeHub, SequenceTheorems, WellFoundedInduction, TLAPS

HubState == [history : Seq(EventIds), ids : SUBSET EventIds, accepted : Seq(EventIds),
             closed : BOOLEAN]

SubState == [at : {"out", "ready", "waiting"}, queue : Seq(EventIds \cup {Sentinel}),
             gap : Int, given : Seq(EventIds), base : Int]

WireShape ==
    /\ broker \in [next : 1..(MaxEvents + 1), repeats : 0..MaxRepeats, faults : 0..MaxHubFaults]
    /\ source \in [state : {"STARTING", "ONLINE", "OFFLINE", "STOPPED"}, wire : Seq(0..MaxEvents)]
    /\ Len(source.wire) <= 1
    /\ stopping \in BOOLEAN

HubShape ==
    /\ hub \in HubState
    /\ Len(hub.history) <= ReplaySize
    /\ client \in [sub : SubState, last : {NoId} \cup EventIds]
    /\ Len(client.sub.queue) <= ClientQueueSize

IsEndOf(q, s) == Len(q) <= Len(s) /\ \A i \in 1..Len(q) : q[i] = s[Len(s) - Len(q) + i]

(* What waits is the end of all that was accepted; what was given comes      *)
(* right before it, unless a gap is pending that counts what is missing.     *)
Accounts(given, queue, gap, base, accepted) ==
    /\ gap >= NoGap
    /\ IsEndOf(queue, accepted)
    /\ Len(given) + Len(queue) + Highest(gap, 0) = Len(accepted) - base
    /\ gap = NoGap => \A i \in 1..Len(given) : given[i] = accepted[base + i]

Serves(sub, accepted) ==
    sub.base >= 0 /\ Accounts(sub.given, sub.queue, sub.gap, sub.base, accepted)

Books ==
    /\ HubShape
    /\ IsEndOf(hub.history, hub.accepted)
    /\ (Subscribed /\ ~hub.closed) => Serves(client.sub, hub.accepted)

(* The subscriptions are closed once nothing can be published any more.      *)
ClosedLast == hub.closed => source.state = "STOPPED"

HubInv == WireShape /\ Books /\ ClosedLast
------------------------------------------------------------------------------
(* A set of numbers has a least one.                                         *)
LeftOf == {p \in Nat \X Nat : p[1] < p[2]}

LEMMA LeastOf ==
    ASSUME NEW T \in SUBSET Nat, T # {}
    PROVE  \E x \in T : \A y \in T : x <= y
<1>1. IsWellFoundedOn(LeftOf, Nat)
  BY NatLessThanWellFounded DEF OpToRel, LeftOf
<1>2. PICK x \in T : \A y \in T : ~(<<y, x>> \in LeftOf)
  BY <1>1, WFMin
<1>3. \A y \in T : <<y, x>> \in Nat \X Nat
  OBVIOUS
<1>4. \A y \in T : ~(y < x)
  BY <1>2, <1>3 DEF LeftOf
<1>5. \A y \in T : x <= y
  BY <1>4
<1> QED
  BY <1>5
------------------------------------------------------------------------------
(* Ends of sequences.                                                        *)
LEMMA EndOfEnd ==
    ASSUME NEW S, NEW r \in Seq(S), NEW q \in Seq(S), NEW s \in Seq(S),
           IsEndOf(r, q), IsEndOf(q, s)
    PROVE  IsEndOf(r, s)
<1>1. Len(r) \in Nat /\ Len(q) \in Nat /\ Len(s) \in Nat
  BY LenProperties
<1>2. ASSUME NEW i \in 1..Len(r)
      PROVE  r[i] = s[Len(s) - Len(r) + i]
  <2>1. r[i] = q[Len(q) - Len(r) + i] /\ Len(r) <= Len(q)
    BY DEF IsEndOf
  <2>2. Len(q) - Len(r) + i \in 1..Len(q)
    BY <1>1, <2>1
  <2>3. q[Len(q) - Len(r) + i] = s[Len(s) - Len(q) + (Len(q) - Len(r) + i)]
    BY <2>2 DEF IsEndOf
  <2>4. Len(s) - Len(q) + (Len(q) - Len(r) + i) = Len(s) - Len(r) + i
    BY <1>1, <2>2
  <2> QED
    BY <2>1, <2>3, <2>4
<1> QED
  BY <1>1, <1>2 DEF IsEndOf

LEMMA SubSeqIsEnd ==
    ASSUME NEW S, NEW q \in Seq(S), NEW d \in 0..Len(q)
    PROVE  LET r == SubSeq(q, d + 1, Len(q))
           IN  r \in Seq(S) /\ Len(r) = Len(q) - d /\ IsEndOf(r, q)
<1> DEFINE r == SubSeq(q, d + 1, Len(q))
<1>1. Len(q) \in Nat /\ \A i \in (d + 1)..Len(q) : q[i] \in S
  BY LenProperties, ElementOfSeq
<1>2. /\ r \in Seq(S)
      /\ Len(r) = IF d + 1 <= Len(q) THEN Len(q) - (d + 1) + 1 ELSE 0
      /\ \A i \in 1..(Len(q) - (d + 1) + 1) : r[i] = q[(d + 1) + i - 1]
  BY <1>1, SubSeqProperties
<1>3. Len(r) = Len(q) - d
  BY <1>1, <1>2
<1> HIDE DEF r
<1>4. ASSUME NEW i \in 1..Len(r) PROVE r[i] = q[Len(q) - Len(r) + i]
  <2>1. i \in 1..(Len(q) - (d + 1) + 1) /\ (d + 1) + i - 1 = Len(q) - Len(r) + i
    BY <1>1, <1>3
  <2>2. r[i] = q[(d + 1) + i - 1]
    BY <1>2, <2>1
  <2> QED
    BY <2>1, <2>2
<1>5. Len(r) <= Len(q)
  BY <1>1, <1>3
<1>6. IsEndOf(r, q)
  BY <1>4, <1>5 DEF IsEndOf
<1>7. r \in Seq(S)
  BY <1>2
<1> QED
  BY <1>3, <1>6, <1>7, Zenon DEF r

LEMMA TailIsEnd ==
    ASSUME NEW S, NEW q \in Seq(S), q # <<>>
    PROVE  /\ Tail(q) \in Seq(S) /\ Len(Tail(q)) = Len(q) - 1 /\ IsEndOf(Tail(q), q)
           /\ Head(q) = q[1] /\ Head(q) \in S /\ Len(q) \in Nat \ {0}
<1>1. Len(q) \in Nat \ {0}
  BY EmptySeq, LenProperties
<1>2. Tail(q) = SubSeq(q, 1 + 1, Len(q)) /\ 1 \in 0..Len(q)
  BY <1>1, TailIsSubSeq
<1>3. SubSeq(q, 1 + 1, Len(q)) \in Seq(S) /\ Len(SubSeq(q, 1 + 1, Len(q))) = Len(q) - 1
      /\ IsEndOf(SubSeq(q, 1 + 1, Len(q)), q)
  BY <1>2, SubSeqIsEnd
<1>4. Head(q) = q[1] /\ Head(q) \in S
  BY <1>1, HeadTailProperties
<1> QED
  BY <1>1, <1>2, <1>3, <1>4

LEMMA AppendKeepsEnd ==
    ASSUME NEW S, NEW q \in Seq(S), NEW s \in Seq(S), NEW e \in S, IsEndOf(q, s)
    PROVE  IsEndOf(Append(q, e), Append(s, e))
<1>1. Len(q) \in Nat /\ Len(s) \in Nat /\ Len(q) <= Len(s)
  BY LenProperties DEF IsEndOf
<1>2. /\ Len(Append(q, e)) = Len(q) + 1 /\ Len(Append(s, e)) = Len(s) + 1
      /\ \A i \in 1..Len(q) : Append(q, e)[i] = q[i]
      /\ \A i \in 1..Len(s) : Append(s, e)[i] = s[i]
      /\ Append(q, e)[Len(q) + 1] = e /\ Append(s, e)[Len(s) + 1] = e
  BY AppendProperties
<1>3. ASSUME NEW i \in 1..(Len(q) + 1)
      PROVE  Append(q, e)[i] = Append(s, e)[(Len(s) + 1) - (Len(q) + 1) + i]
  <2>1. CASE i = Len(q) + 1
    <3>1. (Len(s) + 1) - (Len(q) + 1) + i = Len(s) + 1
      BY <1>1, <2>1
    <3> QED
      BY <1>2, <2>1, <3>1
  <2>2. CASE i # Len(q) + 1
    <3>1. /\ i \in 1..Len(q) /\ (Len(s) + 1) - (Len(q) + 1) + i = Len(s) - Len(q) + i
          /\ Len(s) - Len(q) + i \in 1..Len(s)
      BY <1>1, <2>2
    <3> QED
      BY <1>2, <3>1 DEF IsEndOf
  <2> QED
    BY <2>1, <2>2
<1>4. Len(q) + 1 <= Len(s) + 1
  BY <1>1
<1> QED
  BY <1>2, <1>3, <1>4 DEF IsEndOf

LEMMA EmptyIsEnd ==
    ASSUME NEW S, NEW s \in Seq(S)
    PROVE  IsEndOf(<<>>, s)
BY LenProperties DEF IsEndOf
------------------------------------------------------------------------------
(* An offer keeps the account: what makes room is counted.                   *)
LEMMA OfferServes ==
    ASSUME NEW sub \in SubState, NEW events \in Seq(EventIds), NEW accepted \in Seq(EventIds),
           sub.queue \in Seq(EventIds), sub.base >= 0,
           Accounts(sub.given, sub.queue \o events, sub.gap, sub.base, accepted)
    PROVE  /\ Offer(sub, events) \in SubState
           /\ Serves(Offer(sub, events), accepted)
           /\ Len(Offer(sub, events).queue) <= ClientQueueSize
<1> USE HubSizesAssumption
<1> DEFINE all == sub.queue \o events
           dropped == Highest(Len(all) - ClientQueueSize, 0)
           left == SubSeq(all, dropped + 1, Len(all))
           gap == IF dropped = 0 THEN sub.gap ELSE MarkGap(sub.gap, dropped)
           u == Offer(sub, events)
<1>1. all \in Seq(EventIds)
  BY ConcatProperties
<1>2. Len(all) \in Nat /\ Len(accepted) \in Nat /\ Len(sub.given) \in Nat
      /\ sub.gap \in Int /\ sub.base \in Int
  BY <1>1, LenProperties DEF SubState
<1>3. dropped \in 0..Len(all) /\ Len(all) - dropped <= ClientQueueSize
  BY <1>2 DEF Highest
<1>4. left \in Seq(EventIds) /\ Len(left) = Len(all) - dropped /\ IsEndOf(left, all)
  BY <1>1, <1>3, SubSeqIsEnd
<1>5. /\ u.queue = left /\ u.gap = gap /\ u.given = sub.given /\ u.base = sub.base
      /\ u.at = sub.at /\ u = [sub EXCEPT !.queue = left, !.gap = gap]
  BY DEF Offer, SubState
<1> HIDE DEF u, left, all, dropped
<1>6. gap \in Int /\ gap >= NoGap /\ Highest(gap, 0) = Highest(sub.gap, 0) + dropped
      /\ (gap = NoGap => sub.gap = NoGap)
  BY <1>2, <1>3 DEF MarkGap, Highest, NoGap, Accounts, all
<1> HIDE DEF gap
<1>7. IsEndOf(left, accepted)
  BY <1>1, <1>4, EndOfEnd DEF Accounts, all
<1>8. Len(sub.given) + Len(left) + Highest(gap, 0) = Len(accepted) - sub.base
  <2>1. Len(sub.given) + Len(all) + Highest(sub.gap, 0) = Len(accepted) - sub.base
    BY DEF Accounts, all
  <2>2. Highest(sub.gap, 0) \in Int /\ dropped \in Int
    BY <1>2, <1>3 DEF Highest
  <2> QED
    BY <1>2, <1>4, <1>6, <2>1, <2>2
<1>9. u \in SubState
  <2>1. left \in Seq(EventIds \cup {Sentinel})
    BY <1>4, SeqMonotonic
  <2> QED
    BY <1>5, <1>6, <2>1 DEF SubState
<1>10. Serves(u, accepted)
  BY <1>5, <1>6, <1>7, <1>8 DEF Serves, Accounts
<1>11. Len(u.queue) <= ClientQueueSize
  BY <1>3, <1>4, <1>5
<1> QED
  BY <1>9, <1>10, <1>11 DEF u

(* A new subscription is owed what it asks for.                              *)
IsNew(sub, gap, base) ==
    /\ sub \in SubState
    /\ sub.queue = <<>> /\ sub.given = <<>> /\ sub.gap = gap /\ sub.base = base

LEMMA OutsideIsNew == IsNew(Outside, NoGap, 0)
<1>1. <<>> \in Seq(EventIds) /\ <<>> \in Seq(EventIds \cup {Sentinel})
  BY EmptySeq
<1> QED
  BY <1>1 DEF IsNew, Outside, SubState, NoGap

LEMMA StaysNew ==
    ASSUME NEW gap, NEW base, NEW sub, IsNew(sub, gap, base), NEW g \in Int, NEW b \in Int
    PROVE  /\ IsNew([sub EXCEPT !.at = "ready", !.base = b], gap, b)
           /\ IsNew([sub EXCEPT !.base = b], gap, b)
           /\ IsNew([sub EXCEPT !.gap = g], g, base)
<1>1. sub \in SubState
  BY DEF IsNew
<1>2. /\ [sub EXCEPT !.at = "ready", !.base = b] \in SubState
      /\ [sub EXCEPT !.base = b] \in SubState
      /\ [sub EXCEPT !.gap = g] \in SubState
  BY <1>1 DEF SubState
<1> QED
  BY <1>1, <1>2 DEF IsNew, SubState

LEMMA NothingGiven ==
    ASSUME NEW accepted \in Seq(EventIds), NEW queue \in Seq(EventIds),
           IsEndOf(queue, accepted), NEW gap \in {NoGap, 0}
    PROVE  /\ Accounts(<<>>, queue, gap, Len(accepted) - Len(queue), accepted)
           /\ Len(accepted) - Len(queue) \in Nat
<1>1. Len(accepted) \in Nat /\ Len(queue) \in Nat /\ Len(<<>>) = 0
  BY LenProperties
<1>2. Len(accepted) - Len(queue) \in Nat
  BY <1>1 DEF IsEndOf
<1>3. gap >= NoGap /\ Highest(gap, 0) = 0
  BY DEF NoGap, Highest
<1>4. Len(<<>>) + Len(queue) + Highest(gap, 0)
        = Len(accepted) - (Len(accepted) - Len(queue))
  BY <1>1, <1>3
<1>5. 1..Len(<<>>) = {}
  BY <1>1
<1> QED
  BY <1>2, <1>3, <1>4, <1>5 DEF Accounts

(* The place of last, if the history has it.                                 *)
LEMMA LastPlace ==
    ASSUME NEW n \in Nat, NEW I \in SUBSET (1..n), I # {}
    PROVE  Max(I) \in 1..n
<1> DEFINE T == {n - i : i \in I}
<1>1. T \in SUBSET Nat /\ T # {}
  <2>1. \A i \in I : n - i \in Nat
    OBVIOUS
  <2> QED
    BY <2>1
<1>2. PICK x \in T : \A y \in T : x <= y
  BY <1>1, LeastOf
<1>3. PICK i \in I : x = n - i
  BY DEF T
<1>4. ASSUME NEW j \in I PROVE i >= j
  <2>1. n - i <= n - j
    BY <1>2, <1>3
  <2> QED
    BY <2>1
<1> QED
  BY <1>3, <1>4 DEF Max

LEMMA SubscriptionServes ==
    ASSUME HubInv, NEW last
    PROVE  /\ Subscription(last) \in SubState
           /\ Serves(Subscription(last), hub.accepted)
           /\ Len(Subscription(last).queue) <= ClientQueueSize
<1> DEFINE n == Len(hub.accepted)
           from == SelectLastInSeq(hub.history, LAMBDA e : e = last)
           later == SubSeq(hub.history, from + 1, Len(hub.history))
           fresh == [Outside EXCEPT !.at = "ready", !.base = n]
           asked == [fresh EXCEPT !.base = n - Len(later)]
           gapped == [fresh EXCEPT !.gap = MarkGap(NoGap, 0)]
<1>1. hub.history \in Seq(EventIds) /\ hub.accepted \in Seq(EventIds)
      /\ IsEndOf(hub.history, hub.accepted)
  BY DEF HubInv, Books, HubShape, HubState
<1>2. n \in Nat /\ Len(hub.history) \in Nat
  BY <1>1, LenProperties
<1>3. IsEndOf(<<>>, hub.accepted) /\ <<>> \in Seq(EventIds) /\ Len(<<>>) = 0
  BY <1>1, EmptyIsEnd, EmptySeq
<1>4. ASSUME NEW sub, NEW gap \in {NoGap, 0}, IsNew(sub, gap, n)
      PROVE  sub \in SubState /\ Serves(sub, hub.accepted) /\ Len(sub.queue) <= ClientQueueSize
  <2>1. n - Len(<<>>) = n
    BY <1>2, <1>3
  <2>2. Accounts(<<>>, <<>>, gap, n - Len(<<>>), hub.accepted)
    BY <1>1, <1>3, NothingGiven
  <2>3. Accounts(<<>>, <<>>, gap, n, hub.accepted)
    BY <2>1, <2>2
  <2>4. 0 <= ClientQueueSize /\ n >= 0
    BY <1>2, HubSizesAssumption
  <2> HIDE DEF n
  <2> QED
    BY <1>3, <1>4, <2>3, <2>4 DEF Serves, IsNew
<1>5. IsNew(fresh, NoGap, n) /\ IsNew(gapped, 0, n)
  <2>1. MarkGap(NoGap, 0) \in Int /\ MarkGap(NoGap, 0) = 0 /\ n \in Int /\ 0 \in Int
    BY <1>2 DEF MarkGap, Highest, NoGap
  <2> HIDE DEF n
  <2>2. IsNew(fresh, NoGap, n)
    BY <2>1, OutsideIsNew, StaysNew
  <2> HIDE DEF fresh
  <2> QED
    BY <2>1, <2>2, StaysNew
<1>6. CASE last = NoId
  BY <1>4, <1>5, <1>6 DEF Subscription
<1>7. CASE last # NoId /\ from = 0
  BY <1>4, <1>5, <1>7 DEF Subscription
<1>8. CASE last # NoId /\ from # 0
  <2>1. from \in 0..Len(hub.history)
    <3> DEFINE I == {i \in 1..Len(hub.history) : hub.history[i] = last}
    <3>1. from = IF I # {} THEN Max(I) ELSE 0
      BY DEF SelectLastInSeq
    <3>2. I \in SUBSET (1..Len(hub.history))
      OBVIOUS
    <3> HIDE DEF I, from
    <3> QED
      BY <1>2, <3>1, <3>2, LastPlace
  <2>2. later \in Seq(EventIds) /\ IsEndOf(later, hub.history)
    BY <1>1, <2>1, SubSeqIsEnd
  <2>3. Subscription(last) = Offer(asked, later)
    BY <1>8 DEF Subscription
  <2> HIDE DEF later, n
  <2>4. IsEndOf(later, hub.accepted)
    BY <1>1, <2>2, EndOfEnd
  <2>5. /\ Accounts(<<>>, later, NoGap, n - Len(later), hub.accepted)
        /\ n - Len(later) \in Nat
    BY <1>1, <2>2, <2>4, NothingGiven DEF n
  <2> HIDE DEF fresh
  <2>6. IsNew(asked, NoGap, n - Len(later))
    <3>1. n - Len(later) \in Int /\ 0 \in Int
      BY <2>5
    <3> QED
      BY <1>5, <3>1, StaysNew
  <2> HIDE DEF asked
  <2>7. asked.queue \o later = later
    BY <2>2, <2>6, ConcatEmptySeq DEF IsNew
  <2>8. Accounts(asked.given, asked.queue \o later, asked.gap, asked.base, hub.accepted)
    BY <2>5, <2>6, <2>7 DEF IsNew
  <2>9. asked.queue \in Seq(EventIds) /\ asked.base >= 0
    BY <1>3, <2>5, <2>6 DEF IsNew
  <2> QED
    BY <1>1, <2>2, <2>3, <2>6, <2>8, <2>9, OfferServes DEF IsNew
<1> QED
  BY <1>6, <1>7, <1>8
------------------------------------------------------------------------------
(* Each change of the hub or of the client keeps the books.                  *)
LEMMA SubChanges ==
    ASSUME HubInv, NEW sub \in SubState, NEW last \in {NoId} \cup EventIds,
           Len(sub.queue) <= ClientQueueSize,
           client' = [sub |-> sub, last |-> last], UNCHANGED hub,
           (sub.at # "out" /\ ~hub.closed) => Serves(sub, hub.accepted)
    PROVE  Books'
<1>1. client'.sub = sub /\ client' \in [sub : SubState, last : {NoId} \cup EventIds]
  OBVIOUS
<1>2. hub' = hub
  OBVIOUS
<1> QED
  BY <1>1, <1>2 DEF HubInv, Books, HubShape, Subscribed

LEMMA OutsideFits == Outside \in SubState /\ Len(Outside.queue) <= ClientQueueSize
                     /\ Outside.at = "out"
<1>1. Len(<<>>) = 0 /\ 0 <= ClientQueueSize /\ Outside.queue = <<>> /\ Outside.at = "out"
  BY EmptySeq, HubSizesAssumption DEF Outside
<1> QED
  BY <1>1, OutsideIsNew DEF IsNew

LEMMA SubIsTyped ==
    ASSUME HubInv
    PROVE  /\ client.sub \in SubState /\ client.last \in {NoId} \cup EventIds
           /\ client = [sub |-> client.sub, last |-> client.last]
           /\ Len(client.sub.queue) <= ClientQueueSize
           /\ Len(client.sub.queue) \in Nat /\ Len(client.sub.given) \in Nat
           /\ client.sub.queue \in Seq(EventIds \cup {Sentinel})
           /\ client.sub.given \in Seq(EventIds)
           /\ hub \in HubState /\ hub.accepted \in Seq(EventIds) /\ Len(hub.accepted) \in Nat
<1>1. client \in [sub : SubState, last : {NoId} \cup EventIds] /\ hub \in HubState
      /\ Len(client.sub.queue) <= ClientQueueSize
  BY DEF HubInv, Books, HubShape
<1>2. /\ client.sub.queue \in Seq(EventIds \cup {Sentinel}) /\ client.sub.given \in Seq(EventIds)
      /\ hub.accepted \in Seq(EventIds)
  BY <1>1 DEF SubState, HubState
<1> QED
  BY <1>1, <1>2, LenProperties

(* What is accepted is what the hub lets in, so a queue that is an end of it *)
(* has no sentinel.                                                          *)
LEMMA EndIsClean ==
    ASSUME NEW q \in Seq(EventIds \cup {Sentinel}), NEW s \in Seq(EventIds), IsEndOf(q, s)
    PROVE  q \in Seq(EventIds)
<1>1. Len(q) \in Nat /\ Len(s) \in Nat /\ Len(q) <= Len(s)
  BY LenProperties DEF IsEndOf
<1>2. \A i \in 1..Len(q) : q[i] \in EventIds
  <2> SUFFICES ASSUME NEW i \in 1..Len(q) PROVE q[i] \in EventIds
    OBVIOUS
  <2>1. Len(s) - Len(q) + i \in 1..Len(s)
    BY <1>1
  <2>2. s[Len(s) - Len(q) + i] \in EventIds
    BY <2>1, ElementOfSeq
  <2> QED
    BY <2>2 DEF IsEndOf
<1>3. SubSeq(q, 1, Len(q)) \in Seq(EventIds)
  BY <1>1, <1>2, SubSeqProperties
<1>4. SubSeq(q, 1, Len(q)) = q
  BY SubSeqFull
<1> QED
  BY <1>3, <1>4

LEMMA SubscribeStep == HubInv /\ Subscribe => Books'
<1> SUFFICES ASSUME HubInv, Subscribe PROVE Books'
  OBVIOUS
<1>1. PICK last : client' = [client EXCEPT !.sub = Subscription(last)]
  BY DEF Subscribe
<1> DEFINE sub == Subscription(last)
<1>2. sub \in SubState /\ Serves(sub, hub.accepted) /\ Len(sub.queue) <= ClientQueueSize
  BY SubscriptionServes
<1> HIDE DEF sub
<1>3. client' = [sub |-> sub, last |-> client.last]
  BY <1>1, SubIsTyped DEF sub
<1>4. UNCHANGED hub
  BY DEF Subscribe
<1> QED
  BY <1>2, <1>3, <1>4, SubIsTyped, SubChanges

LEMMA LeaveStep == HubInv /\ Leave => Books'
<1> SUFFICES ASSUME HubInv, Leave PROVE Books'
  OBVIOUS
<1>1. client' = [client EXCEPT !.sub = Outside] /\ UNCHANGED hub
  BY DEF Leave
<1>2. client' = [sub |-> Outside, last |-> client.last]
  BY <1>1, SubIsTyped
<1> QED
  BY <1>1, <1>2, OutsideFits, SubIsTyped, SubChanges

(* A gap control starts the account again.                                   *)
LEMMA ReceiveGapStep == HubInv /\ ReceiveGap => Books'
<1> SUFFICES ASSUME HubInv, ReceiveGap PROVE Books'
  OBVIOUS
<1> DEFINE old == client.sub
           base == Len(hub.accepted) - Len(old.queue)
           sub == [old EXCEPT !.gap = NoGap, !.given = <<>>, !.base = base]
<1>1. /\ old \in SubState /\ base \in Int /\ NoGap \in Int /\ <<>> \in Seq(EventIds)
  BY SubIsTyped, EmptySeq DEF NoGap
<1>2. client' = [sub |-> sub, last |-> client.last] /\ UNCHANGED hub
  BY SubIsTyped DEF ReceiveGap
<1> HIDE DEF base, old
<1>3. /\ sub \in SubState /\ sub.queue = old.queue /\ sub.at = old.at
      /\ sub.gap = NoGap /\ sub.given = <<>> /\ sub.base = base
  BY <1>1 DEF SubState
<1> HIDE DEF sub
<1>4. ASSUME ~hub.closed
      PROVE  Serves(sub, hub.accepted)
  <2>1. IsEndOf(old.queue, hub.accepted)
    BY <1>4 DEF HubInv, Books, Serves, Accounts, Subscribed, ReceiveGap, old
  <2>2. old.queue \in Seq(EventIds)
    BY <2>1, SubIsTyped, EndIsClean DEF old
  <2>3. Accounts(<<>>, old.queue, NoGap, base, hub.accepted) /\ base \in Nat
    BY <2>1, <2>2, SubIsTyped, NothingGiven DEF base
  <2> QED
    BY <1>3, <2>3 DEF Serves
<1> QED
  BY <1>2, <1>3, <1>4, SubIsTyped, SubChanges DEF old

LEMMA WaitStep == HubInv /\ (Wait \/ Heartbeat) => Books'
<1> SUFFICES ASSUME HubInv, Wait \/ Heartbeat PROVE Books'
  OBVIOUS
<1> DEFINE old == client.sub
<1>1. PICK at \in {"ready", "waiting"} : client' = [client EXCEPT !.sub.at = at]
  BY DEF Wait, Heartbeat
<1>2. Subscribed /\ UNCHANGED hub /\ old \in SubState
  BY SubIsTyped DEF Wait, Heartbeat, Subscribed
<1> DEFINE sub == [old EXCEPT !.at = at]
<1>3. client' = [sub |-> sub, last |-> client.last]
  BY <1>1, SubIsTyped
<1> HIDE DEF old
<1>4. /\ sub \in SubState /\ sub.queue = old.queue /\ sub.gap = old.gap
      /\ sub.given = old.given /\ sub.base = old.base
  BY <1>2 DEF SubState
<1> HIDE DEF sub
<1>5. ~hub.closed => Serves(sub, hub.accepted)
  BY <1>2, <1>4 DEF HubInv, Books, Serves, old
<1> QED
  BY <1>2, <1>3, <1>4, <1>5, SubIsTyped, SubChanges DEF old

(* The head of the queue moves to what was given.                            *)
LEMMA GivenServes ==
    ASSUME NEW given \in Seq(EventIds), NEW queue \in Seq(EventIds), queue # <<>>,
           NEW gap \in Int, NEW base \in Int, base >= 0, NEW accepted \in Seq(EventIds),
           Accounts(given, queue, gap, base, accepted)
    PROVE  Accounts(Append(given, Head(queue)), Tail(queue), gap, base, accepted)
<1> DEFINE e == Head(queue)
           more == Append(given, e)
           left == Tail(queue)
<1>1. /\ left \in Seq(EventIds) /\ Len(left) = Len(queue) - 1 /\ IsEndOf(left, queue)
      /\ e = queue[1] /\ e \in EventIds /\ Len(queue) \in Nat \ {0}
  BY TailIsEnd
<1> HIDE DEF e
<1>2. /\ Len(more) = Len(given) + 1 /\ more[Len(given) + 1] = e
      /\ \A i \in 1..Len(given) : more[i] = given[i]
  BY <1>1, AppendProperties
<1>3. Len(given) \in Nat /\ Len(accepted) \in Nat
  BY LenProperties
<1>4. IsEndOf(left, accepted)
  BY <1>1, EndOfEnd DEF Accounts
<1> HIDE DEF more, left
<1>5. Highest(gap, 0) \in Int
  BY DEF Highest
<1>6. Len(given) + Len(queue) + Highest(gap, 0) = Len(accepted) - base
  BY DEF Accounts
<1>7. Len(more) + Len(left) + Highest(gap, 0) = Len(accepted) - base
  BY <1>1, <1>2, <1>3, <1>5, <1>6
<1>8. ASSUME gap = NoGap, NEW i \in 1..Len(more)
      PROVE  more[i] = accepted[base + i]
  <2>1. CASE i = Len(given) + 1
    <3>1. Highest(gap, 0) = 0
      BY <1>8 DEF Highest, NoGap
    <3>2. Len(accepted) - Len(queue) + 1 = base + i
      <4>1. Len(given) + Len(queue) + 0 = Len(accepted) - base
        BY <1>6, <3>1
      <4>2. Len(queue) \in Int
        BY <1>1
      <4>3. Len(accepted) - Len(queue) + 1 = base + (Len(given) + 1)
        BY <1>3, <4>1, <4>2
      <4> QED
        BY <2>1, <4>3
    <3>3. queue[1] = accepted[Len(accepted) - Len(queue) + 1]
      <4>1. 1 \in 1..Len(queue)
        BY <1>1
      <4> QED
        BY <4>1 DEF Accounts, IsEndOf
    <3> QED
      BY <1>1, <1>2, <2>1, <3>2, <3>3
  <2>2. CASE i # Len(given) + 1
    <3>1. i \in 1..Len(given)
      BY <1>2, <1>3, <2>2
    <3>2. given[i] = accepted[base + i]
      BY <1>8, <3>1 DEF Accounts
    <3> QED
      BY <1>2, <3>1, <3>2
  <2> QED
    BY <2>1, <2>2
<1>9. gap >= NoGap
  BY DEF Accounts
<1>10. Accounts(more, left, gap, base, accepted)
  BY <1>4, <1>7, <1>8, <1>9 DEF Accounts
<1> QED
  BY <1>10 DEF more, left, e

LEMMA ReceiveItemStep == HubInv /\ ReceiveItem => Books'
<1> SUFFICES ASSUME HubInv, ReceiveItem PROVE Books'
  OBVIOUS
<1> DEFINE old == client.sub
           next == Head(old.queue)
           sub == [old EXCEPT !.at = "ready", !.queue = Tail(@), !.given = Append(@, next)]
<1>1. old.queue # <<>> /\ UNCHANGED hub /\ old \in SubState /\ Subscribed
  BY SubIsTyped DEF ReceiveItem, Subscribed
<1>2. CASE next = Sentinel
  <2>1. client' = [client EXCEPT !.sub = Outside]
    BY <1>2 DEF ReceiveItem
  <2>2. client' = [sub |-> Outside, last |-> client.last]
    BY <2>1, SubIsTyped
  <2> QED
    BY <1>1, <2>2, OutsideFits, SubIsTyped, SubChanges
<1>3. CASE next # Sentinel
  <2>1. client' = [client EXCEPT !.last = next, !.sub.at = "ready",
                                 !.sub.queue = Tail(@), !.sub.given = Append(@, next)]
    BY <1>3 DEF ReceiveItem
  <2>2. client' = [sub |-> sub, last |-> next]
    BY <2>1, SubIsTyped
  <2>3. /\ Tail(old.queue) \in Seq(EventIds \cup {Sentinel})
        /\ Len(Tail(old.queue)) = Len(old.queue) - 1 /\ Len(old.queue) \in Nat
        /\ next \in EventIds
    BY <1>1, <1>3, SubIsTyped, TailIsEnd
  <2>4. Append(old.given, next) \in Seq(EventIds)
    BY <2>3, SubIsTyped, AppendProperties
  <2> HIDE DEF old, next
  <2>5. /\ sub \in SubState /\ sub.queue = Tail(old.queue) /\ sub.gap = old.gap
        /\ sub.given = Append(old.given, next) /\ sub.base = old.base
    BY <1>1, <2>3, <2>4 DEF SubState
  <2>6. Len(sub.queue) <= ClientQueueSize
    <3>1. Len(old.queue) <= ClientQueueSize
      BY SubIsTyped DEF old
    <3> QED
      BY <2>3, <2>5, <3>1, HubSizesAssumption
  <2>7. ASSUME ~hub.closed
        PROVE  Serves(sub, hub.accepted)
    <3>1. Accounts(old.given, old.queue, old.gap, old.base, hub.accepted) /\ old.base >= 0
      BY <1>1, <2>7 DEF HubInv, Books, Serves, old
    <3>2. old.queue \in Seq(EventIds)
      BY <3>1, SubIsTyped, EndIsClean DEF Accounts, old
    <3>3. old.given \in Seq(EventIds) /\ old.gap \in Int /\ old.base \in Int
      BY <1>1 DEF SubState
    <3>4. Accounts(Append(old.given, next), Tail(old.queue), old.gap, old.base, hub.accepted)
      BY <1>1, <3>1, <3>2, <3>3, SubIsTyped, GivenServes DEF next
    <3> QED
      BY <2>5, <3>1, <3>4 DEF Serves
  <2> HIDE DEF sub
  <2> QED
    BY <1>1, <2>2, <2>3, <2>5, <2>6, <2>7, SubChanges
<1> QED
  BY <1>2, <1>3

LEMMA CloseHubStep == HubInv /\ CloseHub => Books'
<1> SUFFICES ASSUME HubInv, CloseHub PROVE Books'
  OBVIOUS
<1>1. hub' = [hub EXCEPT !.closed = TRUE] /\ hub \in HubState
  BY SubIsTyped DEF CloseHub
<1>2. hub' \in HubState /\ hub'.closed /\ hub'.history = hub.history /\ hub'.accepted = hub.accepted
  BY <1>1 DEF HubState
<1>3. /\ client' \in [sub : SubState, last : {NoId} \cup EventIds]
      /\ Len(client'.sub.queue) <= ClientQueueSize
  <2>1. CASE ~Subscribed
    BY <2>1, SubIsTyped DEF CloseHub, HubInv, Books, HubShape
  <2>2. CASE Subscribed
    <3> DEFINE old == client.sub
               sub == [old EXCEPT !.queue = <<Sentinel>>]
    <3>1. client' = [sub |-> sub, last |-> client.last]
      BY <2>2, SubIsTyped DEF CloseHub, ShutClient
    <3>2. <<Sentinel>> \in Seq(EventIds \cup {Sentinel}) /\ Len(<<Sentinel>>) = 1
      OBVIOUS
    <3>3. old \in SubState
      BY SubIsTyped
    <3> HIDE DEF old
    <3>4. sub \in SubState /\ sub.queue = <<Sentinel>>
      BY <3>2, <3>3 DEF SubState
    <3> HIDE DEF sub
    <3>5. Len(sub.queue) <= ClientQueueSize
      BY <3>2, <3>4, HubSizesAssumption
    <3>6. client.last \in {NoId} \cup EventIds
      BY SubIsTyped
    <3> QED
      BY <3>1, <3>4, <3>5, <3>6
  <2> QED
    BY <2>1, <2>2
<1> QED
  BY <1>2, <1>3 DEF HubInv, Books, HubShape

LEMMA OneMoreAccounts ==
    ASSUME NEW given \in Seq(EventIds), NEW queue \in Seq(EventIds), NEW gap \in Int,
           NEW base \in Int, base >= 0, NEW accepted \in Seq(EventIds), NEW e \in EventIds,
           Accounts(given, queue, gap, base, accepted)
    PROVE  Accounts(given, Append(queue, e), gap, base, Append(accepted, e))
<1>1. /\ Len(queue) \in Nat /\ Len(accepted) \in Nat /\ Len(given) \in Nat
      /\ Highest(gap, 0) \in Nat
  BY LenProperties DEF Highest
<1>2. /\ Len(Append(queue, e)) = Len(queue) + 1 /\ Len(Append(accepted, e)) = Len(accepted) + 1
      /\ \A i \in 1..Len(accepted) : Append(accepted, e)[i] = accepted[i]
  BY AppendProperties
<1>3. IsEndOf(Append(queue, e), Append(accepted, e))
  BY AppendKeepsEnd DEF Accounts
<1>4. Len(given) + Len(queue) + Highest(gap, 0) = Len(accepted) - base
  BY DEF Accounts
<1>5. Len(given) + Len(Append(queue, e)) + Highest(gap, 0) = Len(Append(accepted, e)) - base
  <2>1. Len(given) + (Len(queue) + 1) + Highest(gap, 0) = (Len(accepted) + 1) - base
    <3> DEFINE g == Len(given)
               q == Len(queue)
               a == Len(accepted)
               h == Highest(gap, 0)
    <3>1. g \in Nat /\ q \in Nat /\ a \in Nat /\ h \in Nat /\ g + q + h = a - base
      BY <1>1, <1>4
    <3> HIDE DEF g, q, a, h
    <3>2. g + (q + 1) + h = (a + 1) - base
      BY <3>1
    <3> QED
      BY <3>2 DEF g, q, a, h
  <2> QED
    BY <1>2, <2>1
<1>6. ASSUME gap = NoGap, NEW i \in 1..Len(given)
      PROVE  given[i] = Append(accepted, e)[base + i]
  <2>1. base + i \in 1..Len(accepted)
    BY <1>1, <1>4
  <2>2. given[i] = accepted[base + i]
    BY <1>6 DEF Accounts
  <2> QED
    BY <1>2, <2>1, <2>2
<1> QED
  BY <1>3, <1>5, <1>6 DEF Accounts

(* The history forgets its oldest event, the queue of the client its own.    *)
LEMMA HubPublishStep ==
    ASSUME HubInv, ~hub.closed, NEW e \in EventIds, HubPublish(e)
    PROVE  Books'
<1> USE HubSizesAssumption
<1> DEFINE kept == IF Len(hub.history) >= ReplaySize THEN Tail(hub.history) ELSE hub.history
           accepted == Append(hub.accepted, e)
<1>1. CASE e \in hub.ids
  BY <1>1 DEF HubPublish, HubInv, Books, HubShape, Subscribed
<1>2. CASE e \notin hub.ids
  <2>1. /\ hub.history \in Seq(EventIds) /\ hub.accepted \in Seq(EventIds) /\ hub \in HubState
        /\ IsEndOf(hub.history, hub.accepted)
        /\ Len(hub.history) <= ReplaySize /\ Len(hub.history) \in Nat
    BY LenProperties DEF HubInv, Books, HubShape, HubState
  <2>2. kept \in Seq(EventIds) /\ Len(kept) < ReplaySize /\ Len(kept) \in Nat
        /\ IsEndOf(kept, hub.accepted)
    <3>1. CASE Len(hub.history) >= ReplaySize
      <4>1. hub.history # <<>>
        BY <2>1, <3>1, EmptySeq
      <4>2. /\ Tail(hub.history) \in Seq(EventIds) /\ Len(Tail(hub.history)) = Len(hub.history) - 1
            /\ IsEndOf(Tail(hub.history), hub.history)
        BY <2>1, <4>1, TailIsEnd
      <4>3. IsEndOf(Tail(hub.history), hub.accepted)
        BY <2>1, <4>2, EndOfEnd
      <4>4. kept = Tail(hub.history) /\ Len(hub.history) = ReplaySize
        BY <2>1, <3>1
      <4> HIDE DEF kept
      <4> QED
        BY <2>1, <4>2, <4>3, <4>4
    <3>2. CASE Len(hub.history) < ReplaySize
      BY <2>1, <3>2
    <3> QED
      BY <2>1, <3>1, <3>2
  <2> HIDE DEF kept
  <2>3. /\ Append(kept, e) \in Seq(EventIds) /\ Len(Append(kept, e)) <= ReplaySize
        /\ accepted \in Seq(EventIds) /\ IsEndOf(Append(kept, e), accepted)
    BY <2>1, <2>2, AppendProperties, AppendKeepsEnd
  <2>4. hub' = [hub EXCEPT !.history = Append(kept, e), !.ids = ExpiredIds \cup {e},
                           !.accepted = accepted]
    BY <1>2 DEF HubPublish, Remembered, kept
  <2>5. ExpiredIds \cup {e} \in SUBSET EventIds
    BY <2>1 DEF ExpiredIds, HubState
  <2> HIDE DEF accepted
  <2>6. /\ hub' \in HubState /\ hub'.history = Append(kept, e)
        /\ hub'.accepted = accepted /\ hub'.closed = hub.closed
    BY <2>1, <2>3, <2>4, <2>5 DEF HubState
  <2>7. CASE ~Subscribed
    BY <1>2, <2>3, <2>6, <2>7 DEF HubPublish, HubInv, Books, HubShape, Subscribed
  <2>8. CASE Subscribed
    <3> DEFINE old == client.sub
               sub == Offer(old, <<e>>)
    <3>1. client' = [sub |-> sub, last |-> client.last]
      BY <1>2, <2>8, SubIsTyped DEF HubPublish
    <3>2. /\ sub \in SubState /\ Serves(sub, accepted) /\ Len(sub.queue) <= ClientQueueSize
      <4>1. /\ IsEndOf(old.queue, hub.accepted) /\ old \in SubState /\ old.base >= 0
            /\ Accounts(old.given, old.queue, old.gap, old.base, hub.accepted)
        BY <2>8, SubIsTyped DEF HubInv, Books, Serves, Accounts
      <4>2. old.queue \in Seq(EventIds)
        BY <4>1, SubIsTyped, EndIsClean
      <4> HIDE DEF old
      <4>3. Accounts(old.given, Append(old.queue, e), old.gap, old.base, accepted)
        BY <2>1, <4>1, <4>2, OneMoreAccounts DEF accepted, SubState
      <4>4. old.queue \o <<e>> = Append(old.queue, e) /\ <<e>> \in Seq(EventIds)
        BY <4>2, AppendIsConcat
      <4> QED
        BY <2>3, <4>1, <4>2, <4>3, <4>4, OfferServes
    <3> HIDE DEF old, sub
    <3>3. client'.sub = sub /\ client' \in [sub : SubState, last : {NoId} \cup EventIds]
      BY <3>1, <3>2, SubIsTyped
    <3> QED
      BY <2>3, <2>6, <3>2, <3>3 DEF Books, HubShape
  <2> QED
    BY <2>7, <2>8
<1> QED
  BY <1>1, <1>2
------------------------------------------------------------------------------
(* Every step.                                                               *)
LEMMA WireStep == HubInv /\ [HubNext]_hubVars => WireShape' /\ ClosedLast'
<1> SUFFICES ASSUME HubInv, [HubNext]_hubVars PROVE WireShape' /\ ClosedLast'
  OBVIOUS
<1> USE HubBoundsAssumption
<1>1. /\ broker \in [next : 1..(MaxEvents + 1), repeats : 0..MaxRepeats, faults : 0..MaxHubFaults]
      /\ source \in [state : {"STARTING", "ONLINE", "OFFLINE", "STOPPED"}, wire : Seq(0..MaxEvents)]
      /\ Len(source.wire) <= 1 /\ stopping \in BOOLEAN /\ hub \in HubState
      /\ (hub.closed => source.state = "STOPPED")
  BY SubIsTyped DEF HubInv, WireShape, ClosedLast
<1>2. <<>> \in Seq(0..MaxEvents) /\ Len(<<>>) = 0
  BY EmptySeq
<1>3. CASE UNCHANGED <<broker, source, stopping>> /\ hub'.closed = hub.closed
  BY <1>1, <1>3 DEF WireShape, ClosedLast
<1>4. ASSUME NEW m \in 0..MaxEvents, source.wire = <<>>, OnWire(m), UNCHANGED <<stopping, hub>>,
             broker' \in [next : 1..(MaxEvents + 1), repeats : 0..MaxRepeats,
                          faults : 0..MaxHubFaults]
      PROVE  WireShape' /\ ClosedLast'
  <2>1. CASE source.state # "ONLINE"
    BY <1>1, <1>4, <2>1 DEF OnWire, WireShape, ClosedLast
  <2>2. CASE source.state = "ONLINE"
    <3>1. Append(source.wire, m) \in Seq(0..MaxEvents) /\ Len(Append(source.wire, m)) = 1
      BY <1>1, <1>2, <1>4, AppendProperties
    <3>2. source' = [source EXCEPT !.wire = Append(source.wire, m)]
      BY <1>4, <2>2 DEF OnWire
    <3> DEFINE wire == Append(source.wire, m)
    <3> HIDE DEF wire
    <3>3. source' \in [state : {"STARTING", "ONLINE", "OFFLINE", "STOPPED"}, wire : Seq(0..MaxEvents)]
          /\ Len(source'.wire) = 1 /\ source'.state = source.state
      BY <1>1, <3>1, <3>2
    <3> QED
      BY <1>1, <1>4, <3>3 DEF WireShape, ClosedLast
  <2> QED
    BY <2>1, <2>2
<1>5. ASSUME Notify
      PROVE  WireShape' /\ ClosedLast'
  <2>1. broker' \in [next : 1..(MaxEvents + 1), repeats : 0..MaxRepeats, faults : 0..MaxHubFaults]
        /\ broker.next \in 0..MaxEvents
    BY <1>1, <1>5 DEF Notify, EventIds
  <2> QED
    BY <1>4, <1>5, <2>1 DEF Notify
<1>6. ASSUME NotifyAgain
      PROVE  WireShape' /\ ClosedLast'
  <2>1. broker' \in [next : 1..(MaxEvents + 1), repeats : 0..MaxRepeats, faults : 0..MaxHubFaults]
    BY <1>1, <1>6 DEF NotifyAgain
  <2>2. PICK e \in 1..(broker.next - 1) : OnWire(e)
    BY <1>6 DEF NotifyAgain
  <2>3. e \in 0..MaxEvents
    BY <1>1
  <2> QED
    BY <1>4, <1>6, <2>1, <2>2, <2>3 DEF NotifyAgain
<1>7. ASSUME NotifyGarbled
      PROVE  WireShape' /\ ClosedLast'
  <2>1. broker' \in [next : 1..(MaxEvents + 1), repeats : 0..MaxRepeats, faults : 0..MaxHubFaults]
        /\ Garbled \in 0..MaxEvents
    BY <1>1, <1>7 DEF NotifyGarbled, HubFault, Garbled
  <2> QED
    BY <1>4, <1>7, <2>1 DEF NotifyGarbled
<1>8. CASE ConnectSource \/ LoseConnection \/ Reconnect \/ StopSource \/ BeginShutdown
  <2>1. broker' \in [next : 1..(MaxEvents + 1), repeats : 0..MaxRepeats, faults : 0..MaxHubFaults]
    BY <1>1, <1>8 DEF ConnectSource, LoseConnection, Reconnect, StopSource, BeginShutdown, HubFault
  <2>2. stopping' \in BOOLEAN /\ hub' = hub
    BY <1>1, <1>8 DEF ConnectSource, LoseConnection, Reconnect, StopSource, BeginShutdown
  <2>3. source' \in [state : {"STARTING", "ONLINE", "OFFLINE", "STOPPED"}, wire : Seq(0..MaxEvents)]
        /\ Len(source'.wire) <= 1 /\ (source.state = "STOPPED" => source'.state = "STOPPED")
    <3>1. CASE BeginShutdown
      BY <1>1, <3>1 DEF BeginShutdown
    <3>2. CASE LoseConnection \/ StopSource
      <4>1. PICK st \in {"OFFLINE", "STOPPED"} :
               /\ source' = [state |-> st, wire |-> <<>>]
               /\ source.state = "STOPPED" => st = "STOPPED"
        BY <3>2 DEF LoseConnection, StopSource
      <4>2. source'.state = st /\ source'.wire = <<>>
        BY <4>1
      <4>3. source' \in [state : {"STARTING", "ONLINE", "OFFLINE", "STOPPED"},
                         wire : Seq(0..MaxEvents)]
        BY <1>2, <4>1
      <4> QED
        BY <1>2, <4>1, <4>2, <4>3
    <3>3. CASE ConnectSource \/ Reconnect
      <4>1. source.state # "STOPPED" /\ \E st \in {"STARTING", "ONLINE", "OFFLINE"} :
               source' = [source EXCEPT !.state = st]
        BY <3>3 DEF ConnectSource, Reconnect
      <4> QED
        BY <1>1, <4>1
    <3> QED
      BY <1>8, <3>1, <3>2, <3>3
  <2> QED
    BY <1>1, <2>1, <2>2, <2>3 DEF WireShape, ClosedLast
<1>9. CASE ReceiveMessage
  <2>1. source.wire # <<>> /\ source' = [source EXCEPT !.wire = Tail(@)]
        /\ UNCHANGED <<broker, stopping>> /\ source.state = "ONLINE"
    BY <1>9 DEF ReceiveMessage
  <2>2. Tail(source.wire) \in Seq(0..MaxEvents) /\ Len(Tail(source.wire)) <= 1
    BY <1>1, <2>1, HeadTailProperties, LenProperties
  <2>3. hub'.closed = hub.closed
    BY <1>1, <1>9 DEF ReceiveMessage, HubPublish, Remembered, HubState
  <2>4. source' \in [state : {"STARTING", "ONLINE", "OFFLINE", "STOPPED"}, wire : Seq(0..MaxEvents)]
        /\ Len(source'.wire) <= 1 /\ source'.state = source.state
    BY <1>1, <2>1, <2>2
  <2> QED
    BY <1>1, <2>1, <2>3, <2>4 DEF WireShape, ClosedLast
<1>10. CASE CloseHub
  BY <1>1, <1>10 DEF CloseHub, WireShape, ClosedLast
<1>11. CASE Subscribe \/ Leave \/ Receive \/ Heartbeat \/ UNCHANGED hubVars
  BY <1>3, <1>11 DEF Subscribe, Leave, Receive, ReceiveGap, Wait, ReceiveItem, Heartbeat, hubVars
<1> QED
  BY <1>5, <1>6, <1>7, <1>8, <1>9, <1>10, <1>11 DEF HubNext

LEMMA BooksStep == HubInv /\ [HubNext]_hubVars => Books'
<1> SUFFICES ASSUME HubInv, [HubNext]_hubVars PROVE Books'
  OBVIOUS
<1>1. CASE UNCHANGED <<hub, client>>
  BY <1>1 DEF HubInv, Books, HubShape, Subscribed
<1>2. CASE ReceiveMessage
  <2>1. CASE Head(source.wire) = Garbled
    BY <1>1, <1>2, <2>1 DEF ReceiveMessage
  <2>2. CASE Head(source.wire) # Garbled
    <3>1. source.wire \in Seq(0..MaxEvents) /\ source.wire # <<>> /\ ~hub.closed
      BY <1>2 DEF HubInv, WireShape, ClosedLast, ReceiveMessage
    <3>2. Head(source.wire) \in 0..MaxEvents
      BY <3>1, HeadTailProperties
    <3>3. Head(source.wire) \in EventIds
      BY <2>2, <3>2, HubBoundsAssumption DEF Garbled, EventIds
    <3> QED
      BY <1>2, <2>2, <3>1, <3>3, HubPublishStep DEF ReceiveMessage
  <2> QED
    BY <2>1, <2>2
<1>3. CASE \/ Notify \/ NotifyAgain \/ NotifyGarbled \/ ConnectSource \/ LoseConnection
           \/ Reconnect \/ BeginShutdown \/ StopSource \/ UNCHANGED hubVars
  BY <1>1, <1>3 DEF Notify, NotifyAgain, NotifyGarbled, ConnectSource, LoseConnection, Reconnect,
     BeginShutdown, StopSource, hubVars
<1> QED
  BY <1>2, <1>3, SubscribeStep, LeaveStep, ReceiveGapStep, WaitStep, ReceiveItemStep, CloseHubStep
     DEF HubNext, Receive

LEMMA HubInvariantHolds == HubSpec => []HubInv
<1>1. HubInit => HubInv
  <2> SUFFICES ASSUME HubInit PROVE HubInv
    OBVIOUS
  <2>1. <<>> \in Seq(EventIds) /\ <<>> \in Seq(0..MaxEvents) /\ Len(<<>>) = 0
    BY EmptySeq
  <2>2. WireShape /\ ClosedLast
    <3>1. broker \in [next : 1..(MaxEvents + 1), repeats : 0..MaxRepeats, faults : 0..MaxHubFaults]
      BY HubBoundsAssumption DEF HubInit
    <3>2. source \in [state : {"STARTING", "ONLINE", "OFFLINE", "STOPPED"}, wire : Seq(0..MaxEvents)]
          /\ source.wire = <<>>
      BY <2>1 DEF HubInit
    <3>3. ~hub.closed /\ stopping \in BOOLEAN
      BY DEF HubInit
    <3> QED
      BY <2>1, <3>1, <3>2, <3>3 DEF WireShape, ClosedLast
  <2>3. hub \in HubState /\ hub.history = <<>> /\ hub.accepted = <<>>
    BY <2>1 DEF HubInit, HubState
  <2>4. client \in [sub : SubState, last : {NoId} \cup EventIds] /\ client.sub = Outside
    BY OutsideFits DEF HubInit
  <2>5. IsEndOf(hub.history, hub.accepted)
    BY <2>1, <2>3, EmptyIsEnd
  <2>6. 0 <= ReplaySize
    BY HubSizesAssumption
  <2> QED
    BY <2>1, <2>2, <2>3, <2>4, <2>5, <2>6, OutsideFits DEF HubInv, Books, HubShape, Subscribed
<1>2. HubInv /\ [HubNext]_hubVars => HubInv'
  BY WireStep, BooksStep DEF HubInv
<1> QED
  BY <1>1, <1>2, PTL DEF HubSpec

(* Every reachable state of the hub, its source and a client is well typed:  *)
(* the history and the queue of the client never exceed their sizes.         *)
THEOREM HubTypeCorrect == HubSpec => []HubTypeOK
<1>1. HubInv => HubTypeOK
  <2> SUFFICES ASSUME HubInv PROVE HubTypeOK
    OBVIOUS
  <2>1. client.sub.at \in {"out", "ready", "waiting"} /\ hub.closed \in BOOLEAN
    BY SubIsTyped DEF SubState, HubState
  <2>2. source.state \in {"STARTING", "ONLINE", "OFFLINE", "STOPPED"}
    BY DEF HubInv, WireShape
  <2> QED
    BY <2>1, <2>2, SubIsTyped DEF HubInv, Books, HubShape, WireShape, HubTypeOK
<1> QED
  BY <1>1, HubInvariantHolds, PTL

(* Whatever overflows, is replayed, repeated or broken off: a client has all *)
(* that was accepted since base, in order, or a gap that counts what it lacks.*)
THEOREM GapsStayHonest == HubSpec => []GapsAreHonest
<1>1. HubInv => GapsAreHonest
  <2> SUFFICES ASSUME HubInv, Subscribed, ~hub.closed
               PROVE  LET due == SubSeq(hub.accepted, client.sub.base + 1, Len(hub.accepted))
                          got == client.sub.given \o client.sub.queue
                      IN  IF client.sub.gap = NoGap THEN got = due
                          ELSE client.sub.gap = Len(due) - Len(got)
    BY DEF GapsAreHonest
  <2> DEFINE given == client.sub.given
             queue == client.sub.queue
             gap == client.sub.gap
             base == client.sub.base
             accepted == hub.accepted
             due == SubSeq(accepted, base + 1, Len(accepted))
             got == given \o queue
  <2>1. Accounts(given, queue, gap, base, accepted) /\ base >= 0
    BY DEF HubInv, Books, Serves
  <2>2. /\ given \in Seq(EventIds) /\ accepted \in Seq(EventIds)
        /\ gap \in Int /\ base \in Int
    BY SubIsTyped DEF SubState
  <2>3. queue \in Seq(EventIds)
    BY <2>1, SubIsTyped, EndIsClean DEF Accounts
  <2> HIDE DEF given, queue, gap, base, accepted
  <2>4. Len(given) \in Nat /\ Len(queue) \in Nat /\ Len(accepted) \in Nat
    BY <2>2, <2>3, LenProperties
  <2>5. /\ Len(given) + Len(queue) + Highest(gap, 0) = Len(accepted) - base
        /\ gap >= NoGap
    BY <2>1 DEF Accounts
  <2>6. /\ got \in Seq(EventIds) /\ Len(got) = Len(given) + Len(queue)
        /\ \A i \in 1..(Len(given) + Len(queue)) :
              got[i] = IF i <= Len(given) THEN given[i] ELSE queue[i - Len(given)]
    BY <2>2, <2>3, ConcatProperties
  <2>7. base \in 0..Len(accepted)
    BY <2>1, <2>2, <2>4, <2>5 DEF Highest
  <2>8. due \in Seq(EventIds) /\ Len(due) = Len(accepted) - base /\ IsEndOf(due, accepted)
    BY <2>2, <2>7, SubSeqIsEnd
  <2> HIDE DEF due, got
  <2>9. ASSUME gap # NoGap
        PROVE  gap = Len(due) - Len(got)
    <3>1. Highest(gap, 0) = gap
      BY <2>2, <2>5, <2>9 DEF Highest, NoGap
    <3> QED
      <4>1. Len(given) + Len(queue) + gap = Len(accepted) - base
        BY <2>5, <3>1
      <4>2. gap = (Len(accepted) - base) - (Len(given) + Len(queue))
        BY <2>2, <2>4, <4>1
      <4> QED
        BY <2>6, <2>8, <4>2
  <2>10. ASSUME gap = NoGap
         PROVE  got = due
    <3>1. Highest(gap, 0) = 0
      BY <2>10 DEF Highest, NoGap
    <3>2. Len(given) + Len(queue) + 0 = Len(accepted) - base
      BY <2>5, <3>1
    <3>3. Len(got) = Len(due)
      BY <2>2, <2>4, <2>6, <2>8, <3>2
    <3>4. ASSUME NEW i \in 1..Len(got)
          PROVE  got[i] = due[i]
      <4>1. due[i] = accepted[Len(accepted) - Len(due) + i]
        BY <2>8, <3>3 DEF IsEndOf
      <4>2. Len(accepted) - Len(due) + i = base + i
        BY <2>2, <2>4, <2>8
      <4>3. CASE i <= Len(given)
        <5>1. i \in 1..Len(given)
          BY <2>4, <4>3
        <5>2. given[i] = accepted[base + i]
          BY <2>1, <2>10, <5>1 DEF Accounts
        <5> QED
          BY <2>6, <4>1, <4>2, <4>3, <5>2
      <4>4. CASE ~(i <= Len(given))
        <5>1. i - Len(given) \in 1..Len(queue)
          BY <2>4, <2>6, <4>4
        <5>2. queue[i - Len(given)] = accepted[Len(accepted) - Len(queue) + (i - Len(given))]
          BY <2>1, <5>1 DEF Accounts, IsEndOf
        <5>3. Len(accepted) - Len(queue) + (i - Len(given)) = base + i
          BY <2>2, <2>4, <3>2
        <5> QED
          BY <2>6, <4>1, <4>2, <4>4, <5>2, <5>3
      <4> QED
        BY <4>3, <4>4
    <3> QED
      BY <2>6, <2>8, <3>3, <3>4, SeqEqual
  <2> QED
    BY <2>9, <2>10 DEF due, got, given, queue, gap, base, accepted
<1> QED
  BY <1>1, HubInvariantHolds, PTL
==============================================================================
