-------------------------- MODULE EventWorker_proofs --------------------------
(***************************************************************************)
(* Theorems of EventWorker, for every number of workers, messages and      *)
(* failures and every batch and stream size.                               *)
(***************************************************************************)
EXTENDS EventWorker, FiniteSetTheorems, TLAPS

(* Nothing refers to a position the stream has not reached or the group has *)
(* not delivered.                                                           *)
ReferencesAreDelivered ==
    /\ present \subseteq DOMAIN log
    /\ last <= Len(log)
    /\ pel \subseteq 1..last
    /\ \A w \in Workers : /\ worker[w].todo \subseteq 1..last
                          /\ worker[w].persisted \subseteq 1..last
                          /\ worker[w].ok \subseteq 1..last

(* What a worker believes about its batch is so in MongoDB.                 *)
ProgressIsDurable ==
    \A w \in Workers :
        /\ \A i \in worker[w].persisted : log[i] \in saved
        /\ \A i \in worker[w].ok : log[i] \in saved \cap applied

(* An owed position the stream does not hold any more was trimmed.          *)
MissingIsTrimmed ==
    \A i \in DOMAIN log :
        (i \notin present /\ (i > last \/ i \in pel)) => i \in trimmed

IInv ==
    /\ TypeOK
    /\ ReferencesAreDelivered
    /\ ProgressIsDurable
    /\ MissingIsTrimmed
    /\ SettledIsHandled
------------------------------------------------------------------------------
(* The length of a typed log is a natural number, its domain starts at 1.   *)
LEMMA LogFacts ==
    ASSUME TypeOK
    PROVE  /\ Len(log) \in Nat
           /\ DOMAIN log = 1..Len(log)
           /\ DOMAIN log \subseteq Positions
           /\ \A i \in DOMAIN log : log[i] \in Payloads
BY SizesAssumption DEF TypeOK, Positions

LEMMA AppendFacts ==
    ASSUME NEW s \in Seq(Payloads), NEW p \in Payloads
    PROVE  /\ Append(s, p) \in Seq(Payloads)
           /\ Len(Append(s, p)) = Len(s) + 1
           /\ DOMAIN Append(s, p) = DOMAIN s \cup {Len(s) + 1}
           /\ Append(s, p)[Len(s) + 1] = p
           /\ \A i \in DOMAIN s : Append(s, p)[i] = s[i]
OBVIOUS

LEMMA PositionsFinite ==
    ASSUME NEW S \in SUBSET Positions
    PROVE  IsFiniteSet(S) /\ Cardinality(S) \in Nat
<1>1. IsFiniteSet(Positions)
  BY FS_Interval, SizesAssumption DEF Positions
<1> QED
  BY <1>1, FS_Subset, FS_CardinalityType

(* A batch is closed downwards: what lies below one of its members and is   *)
(* eligible is in it.                                                       *)
LEMMA FirstIsPrefix ==
    ASSUME NEW S \in SUBSET Positions, NEW n \in Nat,
           NEW i \in First(S, n), NEW j \in S, j <= i
    PROVE  j \in First(S, n)
<1> DEFINE Below(k) == {l \in S : l <= k}
<1>a. i \in S /\ S \subseteq Int
  BY SizesAssumption DEF First, Positions
<1>b. \A l \in S : l <= j => l <= i
  BY <1>a
<1>1. Below(j) \subseteq Below(i)
  BY <1>b
<1>2. IsFiniteSet(Below(i)) /\ Cardinality(Below(i)) \in Nat
  BY PositionsFinite
<1>3. Cardinality(Below(j)) \in Nat
  BY PositionsFinite
<1>4. Cardinality(Below(j)) <= Cardinality(Below(i))
  BY <1>1, <1>2, FS_Subset
<1>5. Cardinality(Below(i)) <= n
  BY DEF First
<1> QED
  BY <1>2, <1>3, <1>4, <1>5 DEF First

(* Trimming never takes the message that was just added.                    *)
LEMMA NewestSurvives ==
    ASSUME NEW S \in SUBSET Positions, NEW i \in S, \A j \in S : j <= i,
           Cardinality(S) > MaxLength
    PROVE  i \notin First(S, Cardinality(S) - MaxLength)
<1>1. S = {j \in S : j <= i}
  OBVIOUS
<1>2. Cardinality(S) \in Nat /\ MaxLength \in Nat \ {0}
  BY PositionsFinite, SizesAssumption
<1> QED
  BY <1>1, <1>2 DEF First
------------------------------------------------------------------------------
(* What a worker turns to keeps its type: a new batch, or a smaller rest.   *)
LEMMA TakeType ==
    ASSUME TypeOK, NEW w \in Workers, NEW S \in SUBSET Positions,
           NEW c \in 0..MaxMessages, Take(w, S, c)
    PROVE  worker' \in [Workers -> WorkerState]
BY DEF TypeOK, Take, Idle, WorkerState

LEMMA IdleType ==
    ASSUME NEW c \in 0..MaxMessages
    PROVE  Idle(c) \in WorkerState
BY DEF Idle, WorkerState

LEMMA LeaveType ==
    ASSUME NEW r \in WorkerState, NEW i
    PROVE  /\ GroupLeft(r, i) \in WorkerState
           /\ GroupLeft(r, i).todo \subseteq r.todo
           /\ GroupLeft(r, i).persisted \subseteq r.persisted
           /\ GroupLeft(r, i).ok = r.ok
           /\ GroupLeft(r, i).batch = r.batch
           /\ GroupLeft(r, i).pc = r.pc
           /\ GroupLeft(r, i).todo = r.todo \ Group(r.todo, i)
<1> DEFINE t == r.todo \ Group(r.todo, i)
           q == r.persisted \ {i}
<1>1. t \in SUBSET Positions /\ q \in SUBSET Positions
  BY DEF WorkerState
<1>2. GroupLeft(r, i) = [r EXCEPT !.todo = t, !.persisted = q]
  BY DEF GroupLeft
<1> HIDE DEF t, q
<1>3. GroupLeft(r, i) \in WorkerState
  BY <1>1, <1>2 DEF WorkerState
<1>4. /\ GroupLeft(r, i).todo = t
      /\ GroupLeft(r, i).persisted = q
      /\ GroupLeft(r, i).ok = r.ok
      /\ GroupLeft(r, i).batch = r.batch
      /\ GroupLeft(r, i).pc = r.pc
  BY <1>2 DEF WorkerState
<1> QED
  BY <1>3, <1>4 DEF t, q

LEMMA AbortType ==
    ASSUME NEW r \in WorkerState, NEW i
    PROVE  /\ Abort(r, i) \in WorkerState
           /\ Abort(r, i).todo = r.todo \ Group(r.todo, i)
           /\ Abort(r, i).persisted \subseteq r.persisted
           /\ Abort(r, i).ok = r.ok \ Group(r.ok, i)
           /\ Abort(r, i).batch = r.batch
<1> DEFINE q == GroupLeft(r, i)
           s == q.ok \ Group(q.ok, i)
<1>1. /\ q \in WorkerState
      /\ q.todo = r.todo \ Group(r.todo, i)
      /\ q.persisted \subseteq r.persisted
      /\ q.ok = r.ok
      /\ q.batch = r.batch
  BY LeaveType
<1>2. Abort(r, i) = [q EXCEPT !.ok = s, !.cursor = 0]
  BY DEF Abort
<1> HIDE DEF q
<1>3. s \in SUBSET Positions /\ 0 \in 0..MaxMessages /\ s = r.ok \ Group(r.ok, i)
  BY <1>1, SizesAssumption DEF WorkerState
<1> HIDE DEF s
<1>4. Abort(r, i) \in WorkerState
  BY <1>1, <1>2, <1>3 DEF WorkerState
<1>5. /\ Abort(r, i).todo = q.todo
      /\ Abort(r, i).persisted = q.persisted
      /\ Abort(r, i).ok = s
      /\ Abort(r, i).batch = q.batch
  BY <1>1, <1>2 DEF WorkerState
<1> QED
  BY <1>1, <1>3, <1>4, <1>5

LEMMA FirstType ==
    ASSUME NEW S, NEW n
    PROVE  First(S, n) \subseteq S
BY DEF First

(* Type correctness is inductive by itself.                                 *)
LEMMA TypeStep == TypeOK /\ [Next]_vars => TypeOK'
<1> SUFFICES ASSUME TypeOK, [Next]_vars
             PROVE  TypeOK'
  OBVIOUS
<1> USE SizesAssumption, LogFacts
<1>1. ASSUME NEW p \in Payloads, Publish(p)
      PROVE  TypeOK'
  <2>1. log' \in Seq(Payloads) /\ Len(log') = Len(log) + 1
    BY <1>1, AppendFacts DEF TypeOK, Publish
  <2>2. Len(log') \in Positions
    BY <1>1, <2>1 DEF Publish, Positions
  <2>3. present' \subseteq Positions
    BY <1>1, <2>2 DEF TypeOK, Publish
  <2>4. trimmed' \subseteq Positions
    BY <1>1 DEF TypeOK, Publish
  <2>5. Len(log') <= MaxMessages
    BY <2>2 DEF Positions
  <2> QED
    BY <1>1, <2>1, <2>3, <2>4, <2>5 DEF TypeOK, Publish
<1>2. ASSUME NEW i \in DOMAIN log, Age(i)
      PROVE  TypeOK'
  BY <1>2 DEF TypeOK, Age
<1>3. ASSUME NEW w \in Workers, Crash(w)
      PROVE  TypeOK'
  <2>1. worker' \in [Workers -> WorkerState]
    BY <1>3, IdleType DEF TypeOK, Crash
  <2> QED
    BY <1>3, <2>1 DEF TypeOK, Crash, Fault, redis
<1>4. ASSUME NEW w \in Workers, Read(w)
      PROVE  TypeOK'
  <2> DEFINE new == First({i \in present : i > last}, BatchSize)
  <2>1. new \subseteq Positions /\ worker[w].cursor \in 0..MaxMessages
    BY FirstType DEF TypeOK, WorkerState
  <2>2. worker' \in [Workers -> WorkerState]
    BY <1>4, <2>1, TakeType DEF Read
  <2>3. last' \in Positions /\ pel' = pel \cup new /\ stale' = stale
    BY <1>4, <2>1 DEF Read
  <2> HIDE DEF new
  <2>4. pel' \subseteq Positions /\ stale' \subseteq pel' /\ last' \in 0..MaxMessages
    BY <2>1, <2>3 DEF TypeOK, Positions
  <2> QED
    BY <1>4, <2>2, <2>4 DEF TypeOK, Read
<1>5. ASSUME NEW w \in Workers, Reclaim(w)
      PROVE  TypeOK'
  <2> DEFINE ahead == {i \in pel : i >= worker[w].cursor}
             claimed == First(ahead \cap stale \cap present, BatchSize)
  <2>1. PICK next \in 0..MaxMessages :
            LET gone == {i \in ahead \ present : next = 0 \/ i < next}
            IN  /\ NextCursor(claimed, next)
                /\ pel' = pel \ gone
                /\ stale' = stale \ (claimed \cup gone)
                /\ Take(w, claimed, next)
    BY <1>5 DEF Reclaim
  <2>2. claimed \subseteq Positions
    BY FirstType DEF TypeOK
  <2>3. worker' \in [Workers -> WorkerState]
    BY <2>1, <2>2, TakeType
  <2>4. pel' \subseteq Positions /\ stale' \subseteq pel'
    BY <2>1 DEF TypeOK
  <2> QED
    BY <1>5, <2>3, <2>4 DEF TypeOK, Reclaim
<1>6. ASSUME NEW w \in Workers, NEW i \in DOMAIN log,
             DeadLetter(w, i) \/ DeadLetterError(w, i)
      PROVE  TypeOK'
  <2>1. worker[w] \in WorkerState
    BY DEF TypeOK
  <2>2. worker' \in [Workers -> WorkerState]
    <3>1. CASE DeadLetter(w, i)
      BY <2>1, <3>1 DEF TypeOK, DeadLetter, WorkerState
    <3>2. CASE DeadLetterError(w, i)
      <4>1. Idle(worker[w].cursor) \in WorkerState
        BY <2>1, IdleType DEF WorkerState
      <4> QED
        BY <3>2, <4>1 DEF TypeOK, DeadLetterError
    <3> QED
      BY <1>6, <3>1, <3>2
  <2>3. i \in Positions
    OBVIOUS
  <2> QED
    BY <1>6, <2>2, <2>3 DEF TypeOK, DeadLetter, DeadLetterError, Settle, Fault, redis
<1>7. ASSUME NEW w \in Workers, NEW i \in DOMAIN log,
             \/ Save(w, i)
             \/ Apply(w, i)
             \/ ProcessRefused(w, i)
             \/ ProcessError(w, i)
             \/ GroupRaises(w, i)
      PROVE  TypeOK'
  <2>1. worker[w] \in WorkerState
    BY DEF TypeOK
  <2>2. worker' \in [Workers -> WorkerState]
    <3>1. CASE Save(w, i)
      BY <2>1, <3>1 DEF TypeOK, Save, WorkerState
    <3>2. CASE Apply(w, i)
      BY <2>1, <3>2 DEF TypeOK, Apply, WorkerState
    <3>3. CASE ProcessError(w, i) \/ ProcessRefused(w, i)
      BY <2>1, <3>3, LeaveType DEF TypeOK, ProcessError, ProcessRefused
    <3>4. CASE GroupRaises(w, i)
      BY <2>1, <3>4, AbortType DEF TypeOK, GroupRaises
    <3> QED
      BY <1>7, <3>1, <3>2, <3>3, <3>4
  <2> QED
    BY <1>7, <2>2 DEF TypeOK, Save, Apply, ProcessRefused, ProcessError, GroupRaises, Fault, redis
<1>8. ASSUME NEW w \in Workers, Acknowledge(w) \/ AcknowledgeError(w)
      PROVE  TypeOK'
  <2>1. worker[w] \in WorkerState
    BY DEF TypeOK
  <2>2. Idle(worker[w].cursor) \in WorkerState
    BY <2>1, IdleType DEF WorkerState
  <2>3. worker' \in [Workers -> WorkerState]
    BY <1>8, <2>2 DEF TypeOK, Acknowledge, AcknowledgeError
  <2> QED
    BY <1>8, <2>3 DEF TypeOK, Acknowledge, AcknowledgeError, Settle, Fault, redis
<1>9. ASSUME NEW p \in Payloads, BecomesRefused(p)
      PROVE  TypeOK'
  BY <1>9 DEF TypeOK, BecomesRefused, Fault, redis
<1>10. CASE UNCHANGED vars
  BY <1>10 DEF TypeOK, vars, redis
<1> QED
  BY <1>1, <1>2, <1>3, <1>4, <1>5, <1>6, <1>7, <1>8, <1>9, <1>10 DEF Next, Work

(* The state always has the shape its type says.                            *)
THEOREM TypeCorrect == Spec => []TypeOK
<1>1. Init => TypeOK
  BY SizesAssumption DEF Init, TypeOK, Idle, WorkerState
<1> QED
  BY <1>1, TypeStep, PTL DEF Spec
------------------------------------------------------------------------------
(* Redis untouched and nothing forgotten elsewhere: what was handled stays. *)
LEMMA StillHandled ==
    ASSUME IInv, UNCHANGED redis,
           saved \subseteq saved', applied \subseteq applied', dead \subseteq dead'
    PROVE  MissingIsTrimmed' /\ SettledIsHandled'
BY DEF IInv, MissingIsTrimmed, SettledIsHandled, Settled, Owed, redis

(* Removing handled positions from the group keeps both.                    *)
LEMMA SettleHandled ==
    ASSUME IInv, NEW S \in SUBSET (1..last), Settle(S),
           saved' = saved, applied' = applied, dead \subseteq dead',
           \A i \in S : \/ log[i] \in saved \cap applied
                        \/ i \in dead' /\ log[i] \in Malformed
    PROVE  MissingIsTrimmed' /\ SettledIsHandled'
<1> USE SizesAssumption, LogFacts DEF IInv
<1>1. log' = log /\ last' = last /\ trimmed' = trimmed /\ pel' = pel \ S
  BY DEF Settle
<1>2. \A i \in DOMAIN log : (i \in present /\ i > last) => i \in present'
  BY DEF Settle, TypeOK
<1>3. \A i \in DOMAIN log : (i \in present /\ i \notin S) => i \in present'
  BY DEF Settle
<1>4. MissingIsTrimmed'
  BY <1>1, <1>2, <1>3 DEF MissingIsTrimmed, TypeOK
<1>5. ASSUME NEW i \in DOMAIN log, i \in Settled'
      PROVE  i \in S \/ i \in Settled
  BY <1>1, <1>2, <1>5 DEF Settled, Owed
<1>6. SettledIsHandled'
  BY <1>1, <1>5 DEF SettledIsHandled, Settled
<1> QED
  BY <1>4, <1>6

(* A batch is taken from delivered positions.                               *)
LEMMA TakeKeeps ==
    ASSUME TypeOK, ReferencesAreDelivered, ProgressIsDurable,
           NEW w \in Workers, NEW S \in SUBSET (1..last'), NEW c, Take(w, S, c),
           log' = log, saved' = saved, applied' = applied, last' \in Nat, last <= last'
    PROVE  /\ \A v \in Workers : /\ worker'[v].todo \subseteq 1..last'
                                  /\ worker'[v].persisted \subseteq 1..last'
                                  /\ worker'[v].ok \subseteq 1..last'
           /\ ProgressIsDurable'
<1>1. ASSUME NEW v \in Workers, v # w
      PROVE  worker'[v] = worker[v]
  BY <1>1 DEF Take, TypeOK
<1>2. worker'[w].todo = S /\ worker'[w].persisted = {} /\ worker'[w].ok = {}
  BY DEF Take, TypeOK, Idle
<1>3. 1..last \subseteq 1..last'
  BY DEF TypeOK
<1> QED
  BY <1>1, <1>2, <1>3 DEF ReferencesAreDelivered, ProgressIsDurable

(* A worker that only drops or forgets part of its batch keeps both.        *)
LEMMA ShrinkKeeps ==
    ASSUME TypeOK, ReferencesAreDelivered, ProgressIsDurable,
           NEW w \in Workers, NEW r, worker' = [worker EXCEPT ![w] = r],
           r.todo \subseteq worker[w].todo, r.ok \subseteq worker[w].ok,
           r.persisted \subseteq worker[w].persisted,
           log' = log, last' = last, saved \subseteq saved', applied \subseteq applied'
    PROVE  /\ \A v \in Workers : /\ worker'[v].todo \subseteq 1..last'
                                  /\ worker'[v].persisted \subseteq 1..last'
                                  /\ worker'[v].ok \subseteq 1..last'
           /\ ProgressIsDurable'
<1>1. ASSUME NEW v \in Workers, v # w
      PROVE  worker'[v] = worker[v]
  BY <1>1 DEF TypeOK
<1>2. worker'[w] = r
  BY DEF TypeOK
<1> QED
  BY <1>1, <1>2 DEF ReferencesAreDelivered, ProgressIsDurable
------------------------------------------------------------------------------
(* The parts of IInv a step has to restore once its type is known.          *)
Restored ==
    /\ ReferencesAreDelivered'
    /\ ProgressIsDurable'
    /\ MissingIsTrimmed'
    /\ SettledIsHandled'

LEMMA PublishRestores ==
    ASSUME IInv, NEW p \in Payloads, Publish(p)
    PROVE  Restored
<1> USE SizesAssumption, LogFacts DEF IInv
<1> DEFINE n == Len(log) + 1
           grown == present \cup {n}
<1>1. /\ Len(log') = n /\ DOMAIN log' = DOMAIN log \cup {n}
      /\ \A i \in DOMAIN log : log'[i] = log[i]
  BY AppendFacts DEF Publish, TypeOK
<1>2. n \in Positions /\ grown \subseteq Positions /\ \A i \in grown : i <= n
  <2>0. Len(log) \in Nat /\ Len(log) < MaxMessages
    BY DEF Publish
  <2>1. n \in Positions
    BY <2>0 DEF Positions
  <2>2. present \subseteq Positions /\ \A i \in present : i \in 1..Len(log)
    BY DEF ReferencesAreDelivered, TypeOK
  <2>3. \A i \in present : i <= n
    BY <2>0, <2>2
  <2> QED
    BY <2>0, <2>1, <2>2, <2>3
<1>3. present' \subseteq grown /\ n \in present'
  <2>1. CASE present' = grown
    BY <2>1
  <2>2. CASE /\ Cardinality(grown) > MaxLength
             /\ present' = grown \ First(grown, Cardinality(grown) - MaxLength)
    BY <1>2, <2>2, NewestSurvives
  <2> QED
    BY <1>1, <2>1, <2>2 DEF Publish
<1>4. /\ last' = last /\ pel' = pel /\ worker' = worker
      /\ saved' = saved /\ applied' = applied /\ dead' = dead
      /\ trimmed' = trimmed \cup ((present \ present') \cap Owed)
  BY DEF Publish
<1>5. ReferencesAreDelivered'
  <2>1. present' \subseteq DOMAIN log'
    BY <1>1, <1>3 DEF ReferencesAreDelivered
  <2>2. last' <= Len(log')
    BY <1>1, <1>4 DEF ReferencesAreDelivered, TypeOK
  <2> QED
    BY <1>4, <2>1, <2>2 DEF ReferencesAreDelivered
<1>6. ProgressIsDurable'
  <2>1. 1..last \subseteq DOMAIN log
    BY DEF ReferencesAreDelivered, TypeOK
  <2> QED
    BY <1>1, <1>4, <2>1 DEF ProgressIsDurable, ReferencesAreDelivered
<1>7. MissingIsTrimmed'
  BY <1>1, <1>3, <1>4 DEF MissingIsTrimmed, Owed
<1>8. SettledIsHandled'
  <2>1. SUFFICES ASSUME NEW i \in Settled'
                 PROVE  \/ log'[i] \in saved' \cap applied'
                        \/ i \in dead' /\ log'[i] \in Malformed
                        \/ i \in trimmed'
    BY Zenon DEF SettledIsHandled
  <2>2. i \in DOMAIN log /\ i \notin pel /\ ~(i \in present' /\ i > last)
    <3>1. i \in DOMAIN log' /\ i \notin Owed'
      BY DEF Settled
    <3>2. n > last
      BY DEF ReferencesAreDelivered, TypeOK
    <3> QED
      BY <1>1, <1>3, <1>4, <3>1, <3>2 DEF Owed
  <2>3. CASE i \in Settled
    BY <1>1, <1>4, <2>2, <2>3 DEF SettledIsHandled
  <2>4. CASE i \notin Settled
    BY <1>4, <2>2, <2>4 DEF Settled, Owed
  <2> QED
    BY <2>3, <2>4
<1> QED
  BY <1>5, <1>6, <1>7, <1>8 DEF Restored

LEMMA ReadRestores ==
    ASSUME IInv, NEW w \in Workers, Read(w)
    PROVE  Restored
<1> USE SizesAssumption, LogFacts DEF IInv
<1> DEFINE fresh == {i \in present : i > last}
           new == First(fresh, BatchSize)
<1>1. PICK top \in new : last' = top /\ \A j \in new : j <= top
  BY DEF Read
<1>2. /\ log' = log /\ present' = present /\ trimmed' = trimmed /\ pel' = pel \cup new
      /\ saved' = saved /\ applied' = applied /\ dead' = dead
      /\ Take(w, new, worker[w].cursor)
  BY DEF Read
<1>3. new \subseteq fresh /\ fresh \subseteq DOMAIN log /\ fresh \subseteq Positions
  BY FirstType DEF ReferencesAreDelivered
<1>4. last < top /\ top \in DOMAIN log /\ last \in Nat
  BY <1>1, <1>3 DEF TypeOK
<1>5. \A i \in fresh : i <= top => i \in new
  BY <1>1, <1>3, FirstIsPrefix
<1>6. new \subseteq 1..last'
  BY <1>1, <1>3, <1>4
<1>7. /\ \A v \in Workers : /\ worker'[v].todo \subseteq 1..last'
                             /\ worker'[v].persisted \subseteq 1..last'
                             /\ worker'[v].ok \subseteq 1..last'
      /\ ProgressIsDurable'
  <2>1. last' \in Nat /\ last <= last'
    BY <1>1, <1>4
  <2> QED
    BY <1>2, <1>6, <2>1, TakeKeeps
<1>8. ReferencesAreDelivered'
  <2>1. last' <= Len(log')
    BY <1>1, <1>2, <1>4
  <2>2. pel' \subseteq 1..last'
    <3>1. last' \in Nat /\ last < last'
      BY <1>1, <1>4
    <3>2. 1..last \subseteq 1..last'
      BY <1>4, <3>1
    <3> QED
      BY <1>2, <1>6, <3>2 DEF ReferencesAreDelivered
  <2> QED
    BY <1>2, <1>7, <2>1, <2>2 DEF ReferencesAreDelivered
<1>9. MissingIsTrimmed'
  BY <1>1, <1>2, <1>3, <1>4 DEF MissingIsTrimmed
<1>10. SettledIsHandled'
  <2>1. ASSUME NEW i \in Settled'
        PROVE  i \in Settled \/ i \in trimmed
    <3>1. i \in DOMAIN log /\ i \notin pel /\ i \notin new /\ ~(i \in present /\ i > top)
      BY <1>1, <1>2, <2>1 DEF Settled, Owed
    <3>2. i \notin fresh
      BY <1>4, <1>5, <3>1
    <3> QED
      BY <3>1, <3>2 DEF Settled, Owed
  <2> QED
    BY <1>2, <2>1 DEF SettledIsHandled
<1> QED
  BY <1>7, <1>8, <1>9, <1>10 DEF Restored

LEMMA ReclaimRestores ==
    ASSUME IInv, NEW w \in Workers, Reclaim(w)
    PROVE  Restored
<1> USE SizesAssumption, LogFacts DEF IInv
<1> DEFINE ahead == {i \in pel : i >= worker[w].cursor}
           claimed == First(ahead \cap stale \cap present, BatchSize)
<1>1. PICK next \in 0..MaxMessages :
          LET gone == {i \in ahead \ present : next = 0 \/ i < next}
          IN  /\ NextCursor(claimed, next)
              /\ pel' = pel \ gone
              /\ stale' = stale \ (claimed \cup gone)
              /\ Take(w, claimed, next)
  BY DEF Reclaim
<1>2. /\ log' = log /\ present' = present /\ trimmed' = trimmed /\ last' = last
      /\ saved' = saved /\ applied' = applied /\ dead' = dead
  BY DEF Reclaim
<1>3. claimed \subseteq 1..last'
  BY <1>2, FirstType DEF ReferencesAreDelivered
<1>4. /\ \A v \in Workers : /\ worker'[v].todo \subseteq 1..last'
                             /\ worker'[v].persisted \subseteq 1..last'
                             /\ worker'[v].ok \subseteq 1..last'
      /\ ProgressIsDurable'
  <2>1. last' \in Nat /\ last <= last'
    BY <1>2 DEF TypeOK
  <2>2. Take(w, claimed, CHOOSE c : Take(w, claimed, c))
    BY <1>1
  <2> QED
    BY <1>2, <1>3, <2>1, <2>2, TakeKeeps
<1>5. pel' \subseteq pel /\ pel \ pel' \subseteq pel \ present
  BY <1>1
<1>6. ReferencesAreDelivered'
  BY <1>2, <1>4, <1>5 DEF ReferencesAreDelivered
<1>7. MissingIsTrimmed'
  BY <1>2, <1>5 DEF MissingIsTrimmed
<1>8. SettledIsHandled'
  <2>1. ASSUME NEW i \in Settled'
        PROVE  i \in Settled \/ i \in trimmed
    <3>1. i \in DOMAIN log /\ i \notin pel' /\ ~(i \in present /\ i > last)
      BY <1>2, <2>1 DEF Settled, Owed
    <3> QED
      BY <1>5, <3>1 DEF Settled, Owed, MissingIsTrimmed
  <2> QED
    BY <1>2, <2>1 DEF SettledIsHandled
<1> QED
  BY <1>4, <1>6, <1>7, <1>8 DEF Restored

(* A step that leaves Redis alone and at most drops or forgets part of one  *)
(* worker's batch.                                                          *)
LEMMA ShrinkRestores ==
    ASSUME IInv, UNCHANGED <<redis, applied, dead>>, saved \subseteq saved',
           NEW w \in Workers, NEW r, worker' = [worker EXCEPT ![w] = r],
           r.todo \subseteq worker[w].todo, r.ok \subseteq worker[w].ok,
           r.persisted \subseteq worker[w].persisted
    PROVE  Restored
<1>1. MissingIsTrimmed' /\ SettledIsHandled'
  BY StillHandled
<1>2. /\ \A v \in Workers : /\ worker'[v].todo \subseteq 1..last'
                             /\ worker'[v].persisted \subseteq 1..last'
                             /\ worker'[v].ok \subseteq 1..last'
      /\ ProgressIsDurable'
  BY ShrinkKeeps DEF IInv, redis
<1> QED
  BY <1>1, <1>2 DEF Restored, IInv, ReferencesAreDelivered, redis

(* Settling handled positions while the worker drops part of its batch.     *)
LEMMA SettleRestores ==
    ASSUME IInv, NEW S \in SUBSET (1..last), Settle(S), UNCHANGED <<saved, applied>>,
           dead \subseteq dead',
           \A i \in S : \/ log[i] \in saved \cap applied
                        \/ i \in dead' /\ log[i] \in Malformed,
           NEW w \in Workers, NEW r, worker' = [worker EXCEPT ![w] = r],
           r.todo \subseteq worker[w].todo, r.ok \subseteq worker[w].ok,
           r.persisted \subseteq worker[w].persisted
    PROVE  Restored
<1>1. MissingIsTrimmed' /\ SettledIsHandled'
  BY SettleHandled
<1>2. /\ log' = log /\ last' = last /\ pel' \subseteq pel /\ present' \subseteq present
  BY DEF Settle
<1>3. /\ \A v \in Workers : /\ worker'[v].todo \subseteq 1..last'
                             /\ worker'[v].persisted \subseteq 1..last'
                             /\ worker'[v].ok \subseteq 1..last'
      /\ ProgressIsDurable'
  BY <1>2, ShrinkKeeps DEF IInv
<1> QED
  BY <1>1, <1>2, <1>3 DEF Restored, IInv, ReferencesAreDelivered

(* IInv is inductive.                                                       *)
LEMMA InvariantStep == IInv /\ [Next]_vars => IInv'
<1> SUFFICES ASSUME IInv, [Next]_vars
             PROVE  Restored
  BY TypeStep DEF IInv, Restored
<1> USE SizesAssumption, LogFacts
<1>0. TypeOK /\ \A w \in Workers : worker[w] \in WorkerState
  BY DEF IInv, TypeOK
<1>1. ASSUME NEW p \in Payloads, Publish(p)
      PROVE  Restored
  BY <1>1, PublishRestores
<1>2. ASSUME NEW i \in DOMAIN log, Age(i)
      PROVE  Restored
  BY <1>2 DEF Age, IInv, Restored, ReferencesAreDelivered, ProgressIsDurable,
              MissingIsTrimmed, SettledIsHandled, Settled, Owed
<1>3. ASSUME NEW w \in Workers, NEW c, worker' = [worker EXCEPT ![w] = Idle(c)],
             UNCHANGED <<redis, saved, applied, dead>>
      PROVE  Restored
  <2>1. Idle(c).todo = {} /\ Idle(c).ok = {} /\ Idle(c).persisted = {}
    BY DEF Idle
  <2> QED
    BY <1>3, <2>1, ShrinkRestores
<1>4. ASSUME NEW w \in Workers, Crash(w) \/ AcknowledgeError(w)
      PROVE  Restored
  BY <1>3, <1>4 DEF Crash, AcknowledgeError
<1>5. ASSUME NEW w \in Workers, Read(w)
      PROVE  Restored
  BY <1>5, ReadRestores
<1>6. ASSUME NEW w \in Workers, Reclaim(w)
      PROVE  Restored
  BY <1>6, ReclaimRestores
<1>7. ASSUME NEW w \in Workers, NEW i \in DOMAIN log, DeadLetter(w, i)
      PROVE  Restored
  <2> DEFINE r == [worker[w] EXCEPT !.todo = @ \ {i}]
  <2>1. worker' = [worker EXCEPT ![w] = r]
    BY <1>0, <1>7 DEF DeadLetter, TypeOK
  <2>2. r.todo \subseteq worker[w].todo /\ r.ok = worker[w].ok /\ r.persisted = worker[w].persisted
    BY <1>0 DEF WorkerState
  <2>3. i \in worker[w].todo /\ log[i] \in Malformed /\ i \in dead' /\ dead \subseteq dead'
    BY <1>7 DEF DeadLetter, Busy, IsLeast, Decoding
  <2>4. {i} \in SUBSET (1..last)
    BY <2>3 DEF IInv, ReferencesAreDelivered
  <2> QED
    BY <1>7, <2>1, <2>2, <2>3, <2>4, SettleRestores DEF DeadLetter
<1>8. ASSUME NEW w \in Workers, NEW i \in DOMAIN log, DeadLetterError(w, i)
      PROVE  Restored
  <2>1. CASE UNCHANGED <<redis, dead>>
    BY <1>3, <1>8, <2>1 DEF DeadLetterError
  <2>2. CASE dead' = dead \cup {i} /\ Settle({i})
    <3> DEFINE r == Idle(worker[w].cursor)
    <3>1. r.todo = {} /\ r.ok = {} /\ r.persisted = {}
      BY DEF Idle
    <3>2. i \in worker[w].todo /\ log[i] \in Malformed
      BY <1>8 DEF DeadLetterError, Busy, IsLeast, Decoding
    <3>3. {i} \in SUBSET (1..last)
      BY <3>2 DEF IInv, ReferencesAreDelivered
    <3> QED
      BY <1>8, <2>2, <3>1, <3>2, <3>3, SettleRestores DEF DeadLetterError
  <2> QED
    BY <1>8, <2>1, <2>2 DEF DeadLetterError
<1>9. ASSUME NEW w \in Workers, NEW i \in DOMAIN log, Save(w, i)
      PROVE  Restored
  <2>1. MissingIsTrimmed' /\ SettledIsHandled'
    BY <1>9, StillHandled DEF Save
  <2>2. i \in worker[w].todo
    BY <1>9 DEF Save, AtHead, Busy
  <2>3. \A v \in Workers : worker'[v].todo = worker[v].todo /\ worker'[v].ok = worker[v].ok
    BY <1>0, <1>9 DEF Save, TypeOK, WorkerState
  <2>4. \A v \in Workers : worker'[v].persisted \subseteq worker[v].persisted \cup {i}
    BY <1>0, <1>9 DEF Save, TypeOK, WorkerState
  <2>6. log[i] \in saved' /\ saved \subseteq saved' /\ i \in 1..last
    BY <1>9, <2>2 DEF Save, IInv, ReferencesAreDelivered
  <2>7. UNCHANGED <<log, last, present, pel, applied>>
    BY <1>9 DEF Save, redis
  <2>8. ReferencesAreDelivered'
    BY <2>2, <2>3, <2>4, <2>6, <2>7 DEF IInv, ReferencesAreDelivered
  <2>9. ProgressIsDurable'
    BY <2>3, <2>4, <2>6, <2>7 DEF IInv, ProgressIsDurable
  <2> QED
    BY <2>1, <2>8, <2>9 DEF Restored
<1>10. ASSUME NEW w \in Workers, NEW i \in DOMAIN log, Apply(w, i)
       PROVE  Restored
  <2>1. MissingIsTrimmed' /\ SettledIsHandled'
    BY <1>10, StillHandled DEF Apply
  <2>2. i \in worker[w].todo /\ i \in worker[w].persisted
    BY <1>10 DEF Apply, AtHead, Busy
  <2>3. \A v \in Workers : /\ worker'[v].todo \subseteq worker[v].todo
                           /\ worker'[v].persisted \subseteq worker[v].persisted
                           /\ worker'[v].ok \subseteq worker[v].ok \cup {i}
    BY <1>0, <1>10 DEF Apply, TypeOK, WorkerState
  <2>4. log[i] \in saved /\ log[i] \in applied' /\ applied \subseteq applied' /\ i \in 1..last
    BY <1>10, <2>2 DEF Apply, IInv, ReferencesAreDelivered, ProgressIsDurable
  <2>5. UNCHANGED <<log, last, present, pel, saved>>
    BY <1>10 DEF Apply, redis
  <2>6. ReferencesAreDelivered'
    BY <2>3, <2>4, <2>5 DEF IInv, ReferencesAreDelivered
  <2>7. ProgressIsDurable'
    BY <2>3, <2>4, <2>5 DEF IInv, ProgressIsDurable
  <2> QED
    BY <2>1, <2>6, <2>7 DEF Restored
<1>11. ASSUME NEW w \in Workers, NEW i \in DOMAIN log,
              ProcessError(w, i) \/ ProcessRefused(w, i)
       PROVE  Restored
  <2> DEFINE r == GroupLeft(worker[w], i)
  <2>1. worker' = [worker EXCEPT ![w] = r]
    BY <1>11 DEF ProcessError, ProcessRefused
  <2>2. /\ r.todo \subseteq worker[w].todo
        /\ r.ok \subseteq worker[w].ok
        /\ r.persisted \subseteq worker[w].persisted
    BY <1>0, LeaveType
  <2>3. saved \subseteq saved' /\ UNCHANGED <<redis, applied, dead>>
    BY <1>11 DEF ProcessError, ProcessRefused
  <2> HIDE DEF r
  <2> QED
    BY <2>1, <2>2, <2>3, ShrinkRestores
<1>12. ASSUME NEW w \in Workers, NEW i \in DOMAIN log, GroupRaises(w, i)
       PROVE  Restored
  <2> DEFINE r == Abort(worker[w], i)
  <2>1. worker' = [worker EXCEPT ![w] = r]
    BY <1>12 DEF GroupRaises
  <2>3. /\ r.todo \subseteq worker[w].todo
        /\ r.ok \subseteq worker[w].ok
        /\ r.persisted \subseteq worker[w].persisted
    BY <1>0, AbortType
  <2>4. UNCHANGED <<redis, saved, applied, dead>>
    BY <1>12 DEF GroupRaises
  <2> HIDE DEF r
  <2> QED
    BY <2>1, <2>3, <2>4, ShrinkRestores
<1>13. ASSUME NEW w \in Workers, Acknowledge(w)
       PROVE  Restored
  <2> DEFINE r == Idle(worker[w].cursor)
             S == worker[w].ok
  <2>1. r.todo = {} /\ r.ok = {} /\ r.persisted = {}
    BY DEF Idle
  <2>2. S \in SUBSET (1..last) /\ \A i \in S : log[i] \in saved \cap applied
    BY DEF IInv, ReferencesAreDelivered, ProgressIsDurable
  <2>3. Settle(S) /\ UNCHANGED <<saved, applied, dead>> /\ worker' = [worker EXCEPT ![w] = r]
    BY <1>13 DEF Acknowledge, Acknowledged
  <2> QED
    BY <2>1, <2>2, <2>3, SettleRestores
<1>14. CASE UNCHANGED <<redis, worker, saved, applied, dead>>
  BY <1>14 DEF redis, IInv, Restored, ReferencesAreDelivered, ProgressIsDurable,
               MissingIsTrimmed, SettledIsHandled, Settled, Owed
<1>15. ASSUME NEW p \in Payloads, BecomesRefused(p)
       PROVE  Restored
  BY <1>14, <1>15 DEF BecomesRefused
<1>16. CASE UNCHANGED vars
  BY <1>14, <1>16 DEF vars
<1> QED
  BY <1>1, <1>2, <1>4, <1>5, <1>6, <1>7, <1>8, <1>9, <1>10, <1>11, <1>12, <1>13,
     <1>15, <1>16 DEF Next, Work

LEMMA InvariantHolds == Spec => []IInv
<1>1. Init => IInv
  BY SizesAssumption DEF Init, IInv, TypeOK, Idle, WorkerState, ReferencesAreDelivered,
     ProgressIsDurable, MissingIsTrimmed, SettledIsHandled, Settled, Owed
<1> QED
  BY <1>1, InvariantStep, PTL DEF Spec

(* Whatever is not owed any more is persisted with its rules applied,       *)
(* dead-lettered, or was trimmed: no acknowledgement loses an event.        *)
THEOREM SettledAreHandled == Spec => []SettledIsHandled
BY InvariantHolds, PTL DEF IInv
------------------------------------------------------------------------------
(* Of a camera's messages in a batch those done come before those to do,    *)
(* and whatever is dropped takes all later ones with it.                    *)
Before(j, i) == j < i /\ log[j] \notin Malformed /\ SameCamera(i, j)

Ordered(r) ==
    /\ r.todo \subseteq r.batch /\ r.ok \subseteq r.batch
    /\ \A i \in r.ok, j \in r.batch : Before(j, i) => j \in r.ok
    /\ \A i \in r.todo, j \in r.batch :
          (log[i] \notin Malformed /\ Before(j, i)) => j \in r.ok \cup r.todo

BatchesOrdered == \A w \in Workers : worker[w].batch \subseteq 1..last /\ Ordered(worker[w])

LEMMA OneBatchOrdered ==
    ASSUME IInv, BatchesOrdered, NEW w \in Workers, NEW r,
           worker' = [worker EXCEPT ![w] = r], log' = log, last <= last', last' \in Nat,
           r.batch \subseteq 1..last', Ordered(r)
    PROVE  BatchesOrdered'
<1>1. last \in Nat
  BY SizesAssumption DEF IInv, TypeOK
<1>2. ASSUME NEW v \in Workers
      PROVE  worker'[v].batch \subseteq 1..last' /\ Ordered(worker'[v])
  <2>1. CASE v = w
    BY <2>1 DEF IInv, TypeOK
  <2>2. CASE v # w
    <3>1. worker'[v] = worker[v] /\ 1..last \subseteq 1..last'
      BY <1>1, <2>2 DEF IInv, TypeOK
    <3> QED
      BY <3>1 DEF BatchesOrdered
  <2> QED
    BY <2>1, <2>2
<1> QED
  BY <1>2 DEF BatchesOrdered, Ordered, Before, SameCamera

LEMMA SameBatchOrdered ==
    ASSUME IInv, BatchesOrdered, NEW w \in Workers, NEW r,
           worker' = [worker EXCEPT ![w] = r], UNCHANGED <<log, last>>,
           r.batch \subseteq worker[w].batch, Ordered(r)
    PROVE  BatchesOrdered'
<1>1. last' \in Nat /\ last <= last' /\ log' = log
  BY SizesAssumption DEF IInv, TypeOK
<1>2. r.batch \subseteq 1..last'
  BY DEF BatchesOrdered
<1> QED
  BY <1>1, <1>2, OneBatchOrdered

LEMMA TakenIsOrdered ==
    ASSUME IInv, BatchesOrdered, NEW w \in Workers, NEW S \in SUBSET (1..last'), NEW c,
           Take(w, S, c), log' = log, last' \in Nat, last <= last'
    PROVE  BatchesOrdered'
<1> DEFINE r == [Idle(c) EXCEPT !.pc = IF S = {} THEN "idle" ELSE "busy", !.batch = S, !.todo = S]
<1>1. r.todo = S /\ r.batch = S /\ r.ok = {}
  BY DEF Idle
<1>2. worker' = [worker EXCEPT ![w] = r]
  BY DEF Take
<1> HIDE DEF r
<1>3. Ordered(r)
  BY <1>1 DEF Ordered
<1> QED
  BY <1>1, <1>2, <1>3, OneBatchOrdered

LEMMA BatchesStep == IInv /\ BatchesOrdered /\ [Next]_vars => BatchesOrdered'
<1> SUFFICES ASSUME IInv, BatchesOrdered, [Next]_vars
             PROVE  BatchesOrdered'
  OBVIOUS
<1> USE SizesAssumption, LogFacts
<1>0. /\ \A w \in Workers : worker[w] \in WorkerState
      /\ last \in Nat /\ \A w \in Workers : worker[w].batch \subseteq 1..last /\ Ordered(worker[w])
  BY DEF IInv, TypeOK, BatchesOrdered
<1>1. ASSUME NEW p \in Payloads, Publish(p)
      PROVE  BatchesOrdered'
  <2>1. \A i \in DOMAIN log : log'[i] = log[i]
    BY <1>1, AppendFacts DEF Publish, IInv, TypeOK
  <2>2. UNCHANGED <<worker, last>>
    BY <1>1 DEF Publish
  <2>3. \A w \in Workers : worker[w].batch \subseteq DOMAIN log
    BY <1>0 DEF IInv, TypeOK, ReferencesAreDelivered
  <2>4. ASSUME NEW w \in Workers PROVE Ordered(worker[w])'
    <3>1. \A i, j \in worker[w].batch :
             /\ Before(j, i)' <=> Before(j, i)
             /\ log'[i] = log[i]
      BY <2>1, <2>3 DEF Before, SameCamera
    <3> QED
      BY <1>0, <2>2, <3>1 DEF Ordered
  <2> QED
    BY <1>0, <2>2, <2>4 DEF BatchesOrdered
<1>2. CASE UNCHANGED <<log, last, worker>>
  BY <1>2 DEF BatchesOrdered, Ordered, Before, SameCamera
<1>3. ASSUME NEW w \in Workers, NEW c, worker' = [worker EXCEPT ![w] = Idle(c)],
             UNCHANGED <<log, last>>
      PROVE  BatchesOrdered'
  <2>1. Idle(c).todo = {} /\ Idle(c).ok = {} /\ Idle(c).batch = {}
    BY DEF Idle
  <2>2. Ordered(Idle(c))
    BY <2>1 DEF Ordered
  <2> QED
    BY <1>3, <2>1, <2>2, SameBatchOrdered
<1>4. ASSUME NEW w \in Workers,
             \/ Crash(w) \/ Acknowledge(w) \/ AcknowledgeError(w)
             \/ \E i \in DOMAIN log : DeadLetterError(w, i)
      PROVE  BatchesOrdered'
  BY <1>3, <1>4 DEF Crash, Acknowledge, AcknowledgeError, DeadLetterError, Settle, redis
<1>5. ASSUME NEW w \in Workers, Read(w)
      PROVE  BatchesOrdered'
  <2> DEFINE new == First({i \in present : i > last}, BatchSize)
  <2>1. PICK top \in new : last' = top /\ \A j \in new : j <= top
    BY <1>5 DEF Read
  <2>2. new \subseteq {i \in present : i > last} /\ present \subseteq DOMAIN log
    BY FirstType DEF IInv, ReferencesAreDelivered
  <2>3. new \subseteq 1..last' /\ last' \in Nat /\ last <= last'
    BY <1>0, <2>1, <2>2 DEF IInv
  <2> HIDE DEF new
  <2>4. Take(w, new, worker[w].cursor) /\ log' = log
    BY <1>5 DEF Read, new
  <2> QED
    BY <2>3, <2>4, TakenIsOrdered
<1>6. ASSUME NEW w \in Workers, Reclaim(w)
      PROVE  BatchesOrdered'
  <2> DEFINE claimed == First({i \in pel : i >= worker[w].cursor} \cap stale \cap present, BatchSize)
  <2>1. PICK next \in 0..MaxMessages : Take(w, claimed, next)
    BY <1>6 DEF Reclaim
  <2>2. log' = log /\ last' = last
    BY <1>6 DEF Reclaim
  <2>3. claimed \in SUBSET (1..last')
    BY <2>2, FirstType DEF IInv, ReferencesAreDelivered
  <2> HIDE DEF claimed
  <2> QED
    BY <1>0, <2>1, <2>2, <2>3, TakenIsOrdered
<1>7. ASSUME NEW w \in Workers, NEW i \in DOMAIN log, DeadLetter(w, i)
      PROVE  BatchesOrdered'
  <2> DEFINE r == [worker[w] EXCEPT !.todo = @ \ {i}]
  <2>1. worker' = [worker EXCEPT ![w] = r] /\ UNCHANGED <<log, last>> /\ log[i] \in Malformed
    BY <1>7 DEF DeadLetter, Settle, IsLeast, Decoding
  <2>2. r.todo = worker[w].todo \ {i} /\ r.ok = worker[w].ok /\ r.batch = worker[w].batch
    BY <1>0 DEF WorkerState
  <2> HIDE DEF r
  <2>3. Ordered(r)
    BY <1>0, <2>1, <2>2 DEF Ordered, Before
  <2> QED
    BY <2>1, <2>2, <2>3, SameBatchOrdered
<1>8. ASSUME NEW w \in Workers, NEW i \in DOMAIN log, Save(w, i)
      PROVE  BatchesOrdered'
  <2> DEFINE r == [worker[w] EXCEPT !.persisted = @ \cup {i}]
  <2>1. worker' = [worker EXCEPT ![w] = r] /\ UNCHANGED <<log, last>>
    BY <1>8 DEF Save, redis
  <2>2. r.todo = worker[w].todo /\ r.ok = worker[w].ok /\ r.batch = worker[w].batch
    BY <1>0 DEF WorkerState
  <2> HIDE DEF r
  <2>3. Ordered(r)
    BY <1>0, <2>2 DEF Ordered
  <2> QED
    BY <2>1, <2>2, <2>3, SameBatchOrdered
<1>9. ASSUME NEW w \in Workers, NEW i \in DOMAIN log, Apply(w, i)
      PROVE  BatchesOrdered'
  <2> DEFINE r == [worker[w] EXCEPT !.todo = @ \ {i}, !.persisted = @ \ {i}, !.ok = @ \cup {i}]
  <2>1. worker' = [worker EXCEPT ![w] = r] /\ UNCHANGED <<log, last>>
    BY <1>0, <1>9 DEF Apply, redis, IInv, TypeOK
  <2>2. r.todo = worker[w].todo \ {i} /\ r.ok = worker[w].ok \cup {i} /\ r.batch = worker[w].batch
    BY <1>0 DEF WorkerState
  <2>3. /\ i \in worker[w].todo /\ log[i] \notin Malformed
        /\ \A j \in worker[w].todo : SameCamera(i, j) => i <= j
    BY <1>9 DEF Apply, AtHead, Busy, Decoding, IsLeast, Group
  <2>4. \A j \in worker[w].batch : Before(j, i) => j \in worker[w].ok
    <3> SUFFICES ASSUME NEW j \in worker[w].batch, Before(j, i), j \notin worker[w].ok
                 PROVE  FALSE
      OBVIOUS
    <3>1. j \in worker[w].todo
      BY <1>0, <2>3 DEF Ordered
    <3>2. i \in Int /\ j \in Int /\ j < i
      BY <1>0 DEF Before
    <3> QED
      BY <2>3, <3>1, <3>2 DEF Before
  <2> HIDE DEF r
  <2>5. Ordered(r)
    BY <1>0, <2>2, <2>3, <2>4 DEF Ordered
  <2> QED
    BY <2>1, <2>2, <2>5, SameBatchOrdered
<1>10. ASSUME NEW w \in Workers, NEW i \in DOMAIN log,
              \/ ProcessError(w, i)
              \/ ProcessRefused(w, i)
              \/ GroupRaises(w, i)
       PROVE  BatchesOrdered'
  <2> DEFINE q == GroupLeft(worker[w], i)
  <2>0. /\ q \in WorkerState
        /\ q.todo = worker[w].todo \ Group(worker[w].todo, i)
        /\ q.ok = worker[w].ok
        /\ q.batch = worker[w].batch
    BY <1>0, LeaveType
  <2>1. PICK r : /\ worker' = [worker EXCEPT ![w] = r]
                 /\ r.todo = worker[w].todo \ Group(worker[w].todo, i)
                 /\ r.ok \in {worker[w].ok, worker[w].ok \ Group(worker[w].ok, i)}
                 /\ r.batch = worker[w].batch
    <3>1. CASE ProcessError(w, i) \/ ProcessRefused(w, i)
      <4>1. worker' = [worker EXCEPT ![w] = q]
        BY <3>1 DEF ProcessError, ProcessRefused
      <4> HIDE DEF q
      <4> QED
        BY <2>0, <4>1
    <3>2. CASE GroupRaises(w, i)
      <4> DEFINE p == Abort(worker[w], i)
      <4>1. worker' = [worker EXCEPT ![w] = p]
        BY <3>2 DEF GroupRaises
      <4>2. /\ p.todo = worker[w].todo \ Group(worker[w].todo, i)
            /\ p.ok = worker[w].ok \ Group(worker[w].ok, i)
            /\ p.batch = worker[w].batch
        BY <1>0, AbortType
      <4> HIDE DEF p
      <4> QED
        BY <4>1, <4>2
    <3> QED
      BY <1>10, <3>1, <3>2
  <2> HIDE DEF q
  <2>2. UNCHANGED <<log, last>> /\ r.batch \subseteq worker[w].batch
    BY <1>10, <2>1 DEF ProcessError, ProcessRefused, GroupRaises, redis
  <2>3. \A k, j : SameCamera(k, j) => (SameCamera(i, k) <=> SameCamera(i, j))
    BY DEF SameCamera
  <2>4. Ordered(r)
    BY <1>0, <2>1, <2>3 DEF Ordered, Before, Group
  <2> QED
    BY <2>1, <2>2, <2>4, SameBatchOrdered
<1> QED
  BY <1>1, <1>2, <1>4, <1>5, <1>6, <1>7, <1>8, <1>9, <1>10
     DEF Next, Work, Age, BecomesRefused, vars, redis

(* Within a batch a camera's events are applied in stream order.            *)
THEOREM CameraOrderKept == Spec => []BatchKeepsCameraOrder
<1>1. Init => BatchesOrdered
  BY DEF Init, BatchesOrdered, Ordered, Idle
<1>2. BatchesOrdered => BatchKeepsCameraOrder
  BY DEF BatchesOrdered, Ordered, Before, BatchKeepsCameraOrder
<1> QED
  BY <1>1, <1>2, BatchesStep, InvariantHolds, PTL DEF Spec
------------------------------------------------------------------------------
(* Positions that leave the debt of the group, for the abstract step.       *)
LEMMA SettleMaps ==
    ASSUME IInv, NEW S \in SUBSET (1..last), Settle(S), UNCHANGED <<saved, applied>>,
           \A i \in S : log[i] \in applied \/ log[i] \in Malformed
    PROVE  Delivery!Settle
<1> USE SizesAssumption, LogFacts DEF IInv
<1>1. log' = log /\ last' = last /\ trimmed' = trimmed /\ pel' = pel \ S
  BY DEF Settle
<1>2. S \subseteq DOMAIN log
  BY DEF ReferencesAreDelivered, TypeOK
<1>3. \A i \in DOMAIN log : i > last => (i \in present' <=> i \in present)
  BY DEF Settle, TypeOK
<1>4. Settled' = Settled \cup S
  <2>1. \A i \in DOMAIN log : (i \in present' /\ i > last) <=> (i \in present /\ i > last)
    BY <1>3
  <2>2. \A i \in S : ~(i > last)
    BY DEF TypeOK
  <2> QED
    BY <1>1, <1>2, <2>1, <2>2 DEF Settled, Owed
<1> QED
  BY <1>1, <1>2, <1>4 DEF Delivery!Settle

LEMMA SameDebtStutters ==
    ASSUME UNCHANGED <<redis, saved, applied>>
    PROVE  UNCHANGED Delivery!vars
BY DEF redis, Delivery!vars, Settled, Owed

LEMMA PublishMaps ==
    ASSUME IInv, NEW p \in Payloads, Publish(p)
    PROVE  Delivery!Publish
<1> USE SizesAssumption, LogFacts DEF IInv
<1>1. /\ DOMAIN log' = DOMAIN log \cup {Len(log) + 1} /\ log' = Append(log, p)
  BY AppendFacts DEF Publish, TypeOK
<1>2. /\ last' = last /\ pel' = pel /\ saved' = saved /\ applied' = applied
      /\ trimmed' = trimmed \cup ((present \ present') \cap Owed)
  BY DEF Publish
<1>3. Restored
  BY PublishRestores
<1>4. Owed \subseteq DOMAIN log
  <2>1. 1..last \subseteq DOMAIN log
    BY DEF ReferencesAreDelivered, TypeOK
  <2>2. pel \subseteq DOMAIN log
    BY <2>1 DEF ReferencesAreDelivered
  <2> QED
    BY <2>2, Zenon DEF Owed
<1>5. trimmed' \subseteq trimmed \cup DOMAIN log'
  BY <1>1, <1>2, <1>4
<1>6. Settled \subseteq Settled' /\ Settled' \ Settled \subseteq trimmed'
  <2>1. \A i \in DOMAIN log : i \in Settled => i \in Settled'
    <3>1. present' \subseteq present \cup {Len(log) + 1}
      BY AppendFacts DEF Publish, TypeOK
    <3>2. Len(log) + 1 \notin DOMAIN log
      OBVIOUS
    <3> QED
      BY <1>1, <1>2, <3>1, <3>2 DEF Settled, Owed
  <2>2. \A i \in DOMAIN log' : (i \in Settled' /\ i \notin Settled) => i \in trimmed'
    <3> SUFFICES ASSUME NEW i \in DOMAIN log', i \in Settled', i \notin Settled
                 PROVE  i \in trimmed'
      OBVIOUS
    <3>1. i \notin pel /\ ~(i \in present' /\ i > last)
      BY <1>2 DEF Settled, Owed
    <3>2. CASE i \in DOMAIN log
      BY <1>2, <3>1, <3>2 DEF Settled, Owed
    <3>3. CASE i = Len(log) + 1
      <4>1. i > last
        BY <3>3 DEF ReferencesAreDelivered, TypeOK
      <4>2. i \notin present'
        BY <3>1, <4>1
      <4>3. MissingIsTrimmed'
        BY <1>3 DEF Restored
      <4> QED
        BY <1>2, <4>1, <4>2, <4>3 DEF MissingIsTrimmed
    <3> QED
      BY <1>1, <3>2, <3>3
  <2> QED
    BY <1>1, <2>1, <2>2 DEF Settled
<1>7. \E S \in SUBSET DOMAIN log' : trimmed' = trimmed \cup S
  BY <1>1, <1>2, <1>4
<1>8. \E S \in SUBSET trimmed' : Settled' = Settled \cup S
  <2>1. Settled' = Settled \cup (Settled' \ Settled)
    BY <1>6
  <2> QED
    BY <1>6, <2>1
<1> QED
  BY <1>1, <1>2, <1>7, <1>8 DEF Delivery!Publish

LEMMA ReadMaps ==
    ASSUME IInv, NEW w \in Workers, Read(w)
    PROVE  UNCHANGED Delivery!vars
<1> USE SizesAssumption, LogFacts DEF IInv
<1> DEFINE fresh == {i \in present : i > last}
           new == First(fresh, BatchSize)
<1>1. PICK top \in new : last' = top /\ \A j \in new : j <= top
  BY DEF Read
<1>2. /\ log' = log /\ present' = present /\ trimmed' = trimmed /\ pel' = pel \cup new
      /\ saved' = saved /\ applied' = applied
  BY DEF Read
<1>3. new \subseteq fresh /\ fresh \subseteq DOMAIN log /\ fresh \subseteq Positions
  BY FirstType DEF ReferencesAreDelivered
<1>4. last < top /\ top \in DOMAIN log /\ last \in Nat
  BY <1>1, <1>3 DEF TypeOK
<1>5. \A i \in fresh : i <= top => i \in new
  BY <1>1, <1>3, FirstIsPrefix
<1>6. \A i \in DOMAIN log : i \in Owed <=> i \in Owed'
  <2>1. \A i \in DOMAIN log : i \in Owed => i \in Owed'
    BY <1>1, <1>2, <1>4, <1>5 DEF Owed
  <2>2. \A i \in DOMAIN log : i \in Owed' => i \in Owed
    BY <1>1, <1>2, <1>3, <1>4 DEF Owed
  <2> QED
    BY <2>1, <2>2
<1>7. Settled' = Settled
  BY <1>2, <1>6 DEF Settled
<1> QED
  BY <1>2, <1>7 DEF Delivery!vars

LEMMA ReclaimMaps ==
    ASSUME IInv, NEW w \in Workers, Reclaim(w)
    PROVE  Delivery!Settle
<1> USE SizesAssumption, LogFacts DEF IInv
<1>1. /\ log' = log /\ present' = present /\ trimmed' = trimmed /\ last' = last
      /\ saved' = saved /\ applied' = applied
  BY DEF Reclaim
<1>2. pel' \subseteq pel /\ pel \ pel' \subseteq pel \ present
  BY DEF Reclaim
<1> DEFINE gone == pel \ pel'
<1>3. gone \subseteq DOMAIN log /\ gone \subseteq trimmed
  BY <1>2 DEF ReferencesAreDelivered, MissingIsTrimmed, TypeOK
<1>4. Settled' = Settled \cup gone
  BY <1>1, <1>2, <1>3 DEF Settled, Owed
<1> QED
  BY <1>1, <1>3, <1>4 DEF Delivery!Settle

(* Every step of the workers and of Redis is a step of the abstract         *)
(* delivery or leaves it alone.                                             *)
LEMMA StepMaps == IInv /\ [Next]_vars => [Delivery!Next]_(Delivery!vars)
<1> SUFFICES ASSUME IInv, [Next]_vars
             PROVE  Delivery!Next \/ UNCHANGED Delivery!vars
  OBVIOUS
<1>1. ASSUME NEW p \in Payloads, Publish(p)
      PROVE  Delivery!Next
  BY <1>1, PublishMaps DEF Delivery!Next
<1>2. ASSUME NEW i \in DOMAIN log, Age(i)
      PROVE  UNCHANGED Delivery!vars
  BY <1>2 DEF Age, Delivery!vars, Settled, Owed
<1>3. ASSUME NEW w \in Workers, Crash(w) \/ AcknowledgeError(w)
      PROVE  UNCHANGED Delivery!vars
  BY <1>3, SameDebtStutters DEF Crash, AcknowledgeError
<1>4. ASSUME NEW w \in Workers, Read(w)
      PROVE  UNCHANGED Delivery!vars
  BY <1>4, ReadMaps
<1>5. ASSUME NEW w \in Workers, Reclaim(w)
      PROVE  Delivery!Next
  BY <1>5, ReclaimMaps DEF Delivery!Next
<1>6. ASSUME NEW w \in Workers, NEW i \in DOMAIN log,
             DeadLetter(w, i) \/ DeadLetterError(w, i)
      PROVE  Delivery!Next \/ UNCHANGED Delivery!vars
  <2>1. i \in worker[w].todo /\ log[i] \in Malformed
    BY <1>6 DEF DeadLetter, DeadLetterError, Busy, IsLeast, Decoding
  <2>2. {i} \in SUBSET (1..last)
    BY <2>1 DEF IInv, ReferencesAreDelivered
  <2>3. CASE Settle({i})
    <3>1. UNCHANGED <<saved, applied>>
      BY <1>6 DEF DeadLetter, DeadLetterError
    <3> QED
      BY <2>1, <2>2, <2>3, <3>1, SettleMaps DEF Delivery!Next
  <2>4. CASE ~Settle({i})
    BY <1>6, <2>4, SameDebtStutters DEF DeadLetter, DeadLetterError
  <2> QED
    BY <2>3, <2>4
<1>7. ASSUME NEW w \in Workers, NEW i \in DOMAIN log, Save(w, i) \/ ProcessError(w, i)
      PROVE  Delivery!Next \/ UNCHANGED Delivery!vars
  <2>1. /\ i \in worker[w].todo /\ log[i] \notin Malformed
    BY <1>7 DEF Save, ProcessError, AtHead, Busy, Decoding
  <2>2. UNCHANGED <<redis, applied>> /\ (saved' = saved \/ saved' = saved \cup {log[i]})
    BY <1>7 DEF Save, ProcessError
  <2>3. UNCHANGED <<log, trimmed, Settled>>
    BY <2>2 DEF redis, Settled, Owed
  <2> QED
    BY <2>1, <2>2, <2>3 DEF Delivery!Next, Delivery!Save, Delivery!vars
<1>8. ASSUME NEW w \in Workers, NEW i \in DOMAIN log, Apply(w, i)
      PROVE  Delivery!Next
  <2>1. log[i] \in saved
    BY <1>8 DEF Apply, AtHead, Busy, IInv, ProgressIsDurable
  <2>2. UNCHANGED <<log, saved, trimmed, Settled>> /\ applied' = applied \cup {log[i]}
    BY <1>8 DEF Apply, redis, Settled, Owed
  <2> QED
    BY <2>1, <2>2 DEF Delivery!Next, Delivery!Apply
<1>9. ASSUME NEW w \in Workers, NEW i \in DOMAIN log,
             GroupRaises(w, i) \/ ProcessRefused(w, i)
      PROVE  UNCHANGED Delivery!vars
  BY <1>9, SameDebtStutters DEF GroupRaises, ProcessRefused
<1>10. ASSUME NEW w \in Workers, Acknowledge(w)
       PROVE  Delivery!Next
  <2>1. worker[w].ok \in SUBSET (1..last) /\ \A i \in worker[w].ok : log[i] \in applied
    BY DEF IInv, ReferencesAreDelivered, ProgressIsDurable
  <2>2. Settle(worker[w].ok) /\ UNCHANGED <<saved, applied>>
    BY <1>10 DEF Acknowledge, Acknowledged
  <2> QED
    BY <2>1, <2>2, SettleMaps DEF Delivery!Next
<1>11. ASSUME NEW p \in Payloads, BecomesRefused(p)
       PROVE  UNCHANGED Delivery!vars
  BY <1>11, SameDebtStutters DEF BecomesRefused
<1>12. CASE UNCHANGED vars
  BY <1>12, SameDebtStutters DEF vars
<1> QED
  BY <1>1, <1>2, <1>3, <1>4, <1>5, <1>6, <1>7, <1>8, <1>9, <1>10, <1>11, <1>12 DEF Next, Work

(* The workers and the stream implement the delivery promise EventDelivery  *)
(* states: settled only when applied, malformed or trimmed.                 *)
THEOREM ImplementsDelivery == Spec => DeliverySpec
<1>1. Init => Delivery!Init
  BY DEF Init, Delivery!Init, Settled, Owed
<1> QED
  BY <1>1, StepMaps, InvariantHolds, PTL DEF Spec, DeliverySpec, Delivery!Spec
==============================================================================
