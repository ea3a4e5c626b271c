----------------------------- MODULE EventWorker -----------------------------
(***************************************************************************)
(* The durable path of an event: the Redis stream of vehicle events with   *)
(* its consumer group, the event workers that read, persist, apply the     *)
(* policy and acknowledge, and the dead-letter stream.                     *)
(*                                                                         *)
(* The messages of the stream are numbered by their position; Redis is     *)
(* modelled from the commands redis_streams.py sends.  Persisting and      *)
(* applying are idempotent (the unique indexes and the durable claims of   *)
(* ActionExecution), so both are sets of payloads.  The best-effort        *)
(* realtime publish never fails an event and is left out.  A policy        *)
(* failure passes, or it lasts: see refused.                               *)
(***************************************************************************)
EXTENDS Integers, Sequences, FiniteSets

CONSTANTS
    Workers,            \* event workers of the consumer group
    Payloads,           \* contents a message can have
    Malformed,          \* those the codec rejects
    Camera,             \* camera of the others
    BatchSize,          \* redis.batch_size
    MaxLength,          \* redis.max_length
    DeleteAfterAck,     \* redis.delete_after_ack
    MaxMessages,        \* bound: messages ever added
    MaxFaults           \* bound: failures of any kind

ASSUME PayloadsAssumption == Malformed \subseteq Payloads
ASSUME SizesAssumption ==
    /\ BatchSize \in Nat \ {0}
    /\ MaxLength \in Nat \ {0}
    /\ MaxMessages \in Nat
    /\ MaxFaults \in Nat
ASSUME DeleteAssumption == DeleteAfterAck \in BOOLEAN

VARIABLES
    log,        \* every message ever added: its payload, at its position
    present,    \* positions the stream still holds
    last,       \* last-delivered position of the group
    pel,        \* pending entries of the group
    stale,      \* those idle for claim_idle_ms
    worker,     \* what each worker is doing
    saved,      \* events in MongoDB
    applied,    \* events the policy has been applied to
    refused,    \* events whose policy fails at every delivery from now on
    dead,       \* positions copied to the dead-letter stream
    trimmed,    \* positions removed by the length cap before they were settled
    faults      \* failures so far, of MaxFaults

redis == <<log, present, last, pel, stale, trimmed>>
vars == <<redis, worker, saved, applied, refused, dead, faults>>
------------------------------------------------------------------------------
Positions == 1..MaxMessages

(* todo: messages of the batch whose group has not come to them; ok: those   *)
(* to acknowledge; persisted: those of todo saved already.                   *)
Idle(cursor) == [pc |-> "idle", cursor |-> cursor, batch |-> {}, todo |-> {},
                 persisted |-> {}, ok |-> {}]

WorkerState == [pc : {"idle", "busy"}, cursor : 0..MaxMessages,
                batch : SUBSET Positions, todo : SUBSET Positions,
                persisted : SUBSET Positions, ok : SUBSET Positions]

TypeOK ==
    /\ log \in Seq(Payloads)
    /\ Len(log) <= MaxMessages
    /\ present \subseteq Positions
    /\ last \in 0..MaxMessages
    /\ pel \subseteq Positions
    /\ stale \subseteq pel
    /\ worker \in [Workers -> WorkerState]
    /\ saved \subseteq Payloads
    /\ applied \subseteq Payloads
    /\ refused \subseteq Payloads
    /\ dead \subseteq Positions
    /\ trimmed \subseteq Positions
    /\ faults \in 0..MaxFaults

Init ==
    /\ log = <<>>
    /\ present = {}
    /\ last = 0
    /\ pel = {}
    /\ stale = {}
    /\ worker = [w \in Workers |-> Idle(0)]
    /\ saved = {}
    /\ applied = {}
    /\ refused = {}
    /\ dead = {}
    /\ trimmed = {}
    /\ faults = 0

Fault ==
    /\ faults < MaxFaults
    /\ faults' = faults + 1

IsLeast(i, S) == i \in S /\ \A j \in S : i <= j

(* Not delivered yet, or pending: delivered in the future.                   *)
Owed == {i \in DOMAIN log : i \in present /\ i > last} \cup pel

SameCamera(i, j) == Camera[log[i]] = Camera[log[j]]
------------------------------------------------------------------------------
(* Variants of the definitions below that a slip in the code would give.     *)
BugFailedMessageOnly(S, i) == {i}

BugAckBatch(r) == r.batch

BugCursorNeverWraps(claimed, next) ==
    \/ Cardinality(claimed) < BatchSize /\ next = MaxMessages
    \/ next \in claimed /\ \A j \in claimed : j <= next
------------------------------------------------------------------------------
(* The first n of a set of positions.                                        *)
First(S, n) == {i \in S : Cardinality({j \in S : j <= i}) <= n}

(* A group is worked through in order and left at its first failure.         *)
Group(S, i) == {j \in S : SameCamera(i, j)}

(* XADD with an approximate MAXLEN, by a camera's outbox.                    *)
Publish(p) ==
    /\ Len(log) < MaxMessages
    /\ log' = Append(log, p)
    /\ LET grown == present \cup {Len(log')}
       IN  \/ present' = grown
           \/ /\ Cardinality(grown) > MaxLength
              /\ present' = grown \ First(grown, Cardinality(grown) - MaxLength)
    /\ trimmed' = trimmed \cup ((present \ present') \cap Owed)
    /\ UNCHANGED <<last, pel, stale, worker, saved, applied, refused, dead, faults>>

(* claim_idle_ms pass, whether or not a worker is still at the message.      *)
Age(i) ==
    /\ i \in pel \ stale
    /\ stale' = stale \cup {i}
    /\ UNCHANGED <<log, present, last, pel, trimmed, worker, saved, applied, refused, dead, faults>>

(* A worker that dies is started again, with nothing but its name.           *)
Crash(w) ==
    /\ Fault
    /\ worker' = [worker EXCEPT ![w] = Idle(0)]
    /\ UNCHANGED <<redis, saved, applied, refused, dead>>

Take(w, S, cursor) ==
    worker' = [worker EXCEPT ![w] = [Idle(cursor) EXCEPT
                   !.pc = IF S = {} THEN "idle" ELSE "busy", !.batch = S, !.todo = S]]

(* XREADGROUP >                                                              *)
Read(w) ==
    LET new == First({i \in present : i > last}, BatchSize)
    IN  /\ worker[w].pc = "idle"
        /\ new # {}
        /\ pel' = pel \cup new
        /\ \E i \in new : last' = i /\ \A j \in new : j <= i
        /\ Take(w, new, worker[w].cursor)
        /\ UNCHANGED <<log, present, stale, trimmed, saved, applied, refused, dead, faults>>

(* Where XAUTOCLAIM goes on: after a full batch, at the next pending entry.  *)
NextCursor(claimed, next) ==
    LET beyond == {i \in pel : \A j \in claimed : j < i}
    IN  IF Cardinality(claimed) < BatchSize \/ beyond = {} THEN next = 0
        ELSE IsLeast(next, beyond)

(* XAUTOCLAIM from the worker's cursor.  Entries the stream no longer holds  *)
(* leave the pending list when the scan meets them.                          *)
Reclaim(w) ==
    LET ahead == {i \in pel : i >= worker[w].cursor}
        claimed == First(ahead \cap stale \cap present, BatchSize)
    IN  /\ worker[w].pc = "idle"
        /\ pel # {}
        /\ \E next \in 0..MaxMessages :
              LET gone == {i \in ahead \ present : next = 0 \/ i < next}
              IN  /\ NextCursor(claimed, next)
                  /\ pel' = pel \ gone
                  /\ stale' = stale \ (claimed \cup gone)
                  /\ Take(w, claimed, next)
        /\ UNCHANGED <<log, present, last, trimmed, saved, applied, refused, dead, faults>>

Decoding(w) == {i \in worker[w].todo : log[i] \in Malformed}

Busy(w, i) ==
    /\ worker[w].pc = "busy"
    /\ i \in worker[w].todo

Settle(S) ==
    /\ pel' = pel \ S
    /\ stale' = stale \ S
    /\ present' = IF DeleteAfterAck THEN present \ S ELSE present
    /\ UNCHANGED <<log, last, trimmed>>

(* The batch is decoded in its order; each malformed payload moves to the    *)
(* dead-letter stream in one transaction, before any group starts.           *)
DeadLetter(w, i) ==
    /\ Busy(w, i)
    /\ IsLeast(i, Decoding(w))
    /\ dead' = dead \cup {i}
    /\ Settle({i})
    /\ worker' = [worker EXCEPT ![w].todo = @ \ {i}]
    /\ UNCHANGED <<saved, applied, refused, faults>>

(* The transaction fails, or its answer is lost: run_once is left.           *)
DeadLetterError(w, i) ==
    /\ Busy(w, i)
    /\ IsLeast(i, Decoding(w))
    /\ Fault
    /\ \/ UNCHANGED <<redis, dead>>
       \/ /\ dead' = dead \cup {i}
          /\ Settle({i})
    /\ worker' = [worker EXCEPT ![w] = Idle(@.cursor)]
    /\ UNCHANGED <<saved, applied, refused>>

AtHead(w, i) ==
    /\ Busy(w, i)
    /\ Decoding(w) = {}
    /\ IsLeast(i, Group(worker[w].todo, i))

(* The group of i is left with i and all that follow it pending.             *)
GroupLeft(r, i) == [r EXCEPT !.todo = @ \ Group(@, i), !.persisted = @ \ {i}]

(* The same with what the group had finished.                                *)
Abort(r, i) == [GroupLeft(r, i) EXCEPT !.ok = @ \ Group(@, i), !.cursor = 0]

Save(w, i) ==
    /\ AtHead(w, i)
    /\ i \notin worker[w].persisted
    /\ saved' = saved \cup {log[i]}
    /\ worker' = [worker EXCEPT ![w].persisted = @ \cup {i}]
    /\ UNCHANGED <<redis, applied, refused, dead, faults>>

Apply(w, i) ==
    /\ AtHead(w, i)
    /\ i \in worker[w].persisted
    /\ log[i] \notin refused
    /\ applied' = applied \cup {log[i]}
    /\ worker' = [worker EXCEPT ![w].todo = @ \ {i}, ![w].persisted = @ \ {i},
                                ![w].ok = @ \cup {i}]
    /\ UNCHANGED <<redis, saved, refused, dead, faults>>

(* An event that was saved cannot be processed any more: a worker died in    *)
(* the last attempt of one of its actions (ACTION_ALREADY_RUNNING for ever), *)
(* or a review moved it to a vehicle that its link is refused for.           *)
BecomesRefused(p) ==
    /\ p \in saved \ refused
    /\ Fault
    /\ refused' = refused \cup {p}
    /\ UNCHANGED <<redis, worker, saved, applied, dead>>

(* process raises, as it does every time.                                    *)
ProcessRefused(w, i) ==
    /\ AtHead(w, i)
    /\ i \in worker[w].persisted
    /\ log[i] \in refused
    /\ worker' = [worker EXCEPT ![w] = GroupLeft(@, i)]
    /\ UNCHANGED <<redis, saved, applied, refused, dead, faults>>

(* save or process raises, the first possibly after the insert: the message  *)
(* and the rest of its group stay pending.                                   *)
ProcessError(w, i) ==
    /\ AtHead(w, i)
    /\ Fault
    /\ \/ saved' = saved
       \/ /\ i \notin worker[w].persisted
          /\ saved' = saved \cup {log[i]}
    /\ worker' = [worker EXCEPT ![w] = GroupLeft(@, i)]
    /\ UNCHANGED <<redis, applied, refused, dead>>

(* Any other exception: what the group had finished is not acknowledged      *)
(* either, and run() ends once the other groups are.                         *)
GroupRaises(w, i) ==
    /\ AtHead(w, i)
    /\ Fault
    /\ worker' = [worker EXCEPT ![w] = Abort(@, i)]
    /\ UNCHANGED <<redis, saved, applied, refused, dead>>

Finished(w) ==
    /\ worker[w].pc = "busy"
    /\ worker[w].todo = {}

Acknowledged(r) == r.ok

(* XACK and XDEL of every group's finished messages, in one transaction.     *)
Acknowledge(w) ==
    /\ Finished(w)
    /\ Settle(Acknowledged(worker[w]))
    /\ worker' = [worker EXCEPT ![w] = Idle(@.cursor)]
    /\ UNCHANGED <<saved, applied, refused, dead, faults>>

AcknowledgeError(w) ==
    /\ Finished(w)
    /\ worker[w].ok # {}
    /\ Fault
    /\ worker' = [worker EXCEPT ![w] = Idle(@.cursor)]
    /\ UNCHANGED <<redis, saved, applied, refused, dead>>
------------------------------------------------------------------------------
Work(w) ==
    \/ Read(w)
    \/ \E i \in DOMAIN log : \/ DeadLetter(w, i)
                             \/ Save(w, i)
                             \/ Apply(w, i)
                             \/ ProcessRefused(w, i)
    \/ Acknowledge(w)

Next ==
    \/ \E p \in Payloads : Publish(p)
    \/ \E i \in DOMAIN log : Age(i)
    \/ \E p \in Payloads : BecomesRefused(p)
    \/ \E w \in Workers : \/ Crash(w)
                          \/ Work(w)
                          \/ Reclaim(w)
                          \/ \E i \in DOMAIN log : \/ DeadLetterError(w, i)
                                                   \/ ProcessError(w, i)
                                                   \/ GroupRaises(w, i)
                          \/ AcknowledgeError(w)

Spec == Init /\ [][Next]_vars

(* Time passes for every entry, a worker's loop goes on, reclaims every reclaim_interval_ms  *)
(* and reads new messages in between; outages end (MaxFaults).               *)
Fairness ==
    /\ \A i \in Positions : WF_vars(Age(i))
    /\ SF_vars(\E w \in Workers : Read(w))
    /\ \A w \in Workers : /\ WF_vars(Work(w))
                          /\ SF_vars(Reclaim(w))

FairSpec == Spec /\ Fairness
------------------------------------------------------------------------------
(* Positions that will not be delivered again.                               *)
Settled == DOMAIN log \ Owed

(* No event is lost between the stream and the acknowledgement: what is not  *)
(* owed any more is saved and has had its rules applied, is dead-lettered,   *)
(* or was removed by the length cap.                                         *)
SettledIsHandled ==
    \A i \in Settled : \/ log[i] \in saved \cap applied
                       \/ i \in dead /\ log[i] \in Malformed
                       \/ i \in trimmed

(* Within a batch a camera's events are applied in stream order: a failure   *)
(* leaves the message and all later ones of its camera pending.              *)
BatchKeepsCameraOrder ==
    \A w \in Workers : \A i \in worker[w].ok, j \in worker[w].batch :
        (j < i /\ log[j] \notin Malformed /\ SameCamera(i, j)) => j \in worker[w].ok

(* Pending for a refused event: its own, or an older one of the same camera, *)
(* with which it shares a batch and whose failure leaves it pending.         *)
HeldBack(i) ==
    /\ log[i] \notin Malformed
    /\ \E j \in pel : j <= i /\ log[j] \in refused /\ SameCamera(i, j)

(* Whatever workers die or fail on it for a time, every message is settled   *)
(* in the end, except for events that are refused for good and what they     *)
(* hold back of their camera: those stay pending (see KilledClaimRecovers).  *)
EverythingSettles ==
    []<>(\A i \in DOMAIN log : i \in Settled \/ HeldBack(i))

(* The workers implement the promise of the bus.                             *)
Delivery == INSTANCE EventDelivery WITH settled <- Settled

DeliverySpec == Delivery!Spec
==============================================================================
