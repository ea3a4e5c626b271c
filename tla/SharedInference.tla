---------------------------- MODULE SharedInference ----------------------------
(***************************************************************************)
(* The shared inference service, for one of its two detectors: the fair    *)
(* queue between the cameras, the dispatcher that takes a batch from it to *)
(* the device, the isolation of images the provider rejects, and the       *)
(* quarantine and the circuit breaker that follow from it.  The other      *)
(* detector shares the device and the health of the service.               *)
(*                                                                         *)
(* The queue is guarded by one asyncio condition, whoever holds it does    *)
(* not await anything else: each of its methods is one step.  Requests     *)
(* come, time out and go while a batch is on the device.  A call is one    *)
(* _PendingCall with the connection it came in on; an image is a call with *)
(* a position, and what the device finds in an image is the image.         *)
(***************************************************************************)
EXTENDS Integers, FiniteSets, SequencesExt

CONSTANTS
    Cameras,
    Calls,              \* requests that can be under way at a time
    CameraOf,           \* the camera of each
    Poison,             \* cameras whose images make the provider fail
    None,               \* no result
    MaxImages,          \* maximum_images_per_request
    ImagesOf,           \* the images each call brings
    MaxCameras,         \* maximum_cameras
    PerCamera,          \* per_camera_queue_size
    BatchSize,          \* maximum_batch_size
    FrameAge,           \* maximum_frame_age_ms, in ticks
    MaxAttempts,        \* maximum_isolation_attempts
    CameraThreshold,    \* camera_failure_threshold
    QuarantineTime,     \* camera_quarantine_seconds
    ProviderThreshold,  \* provider_failure_threshold
    MinCameras,         \* provider_failure_minimum_cameras
    MaxFaults           \* bound: failures of the device

ASSUME CallsAssumption ==
    /\ IsFiniteSet(Cameras) /\ IsFiniteSet(Calls)
    /\ CameraOf \in [Calls -> Cameras]
    /\ ImagesOf \in [Calls -> 1..MaxImages]
    /\ Poison \subseteq Cameras
    /\ None \notin Calls \X Nat
ASSUME LimitsAssumption ==
    /\ {MaxImages, MaxCameras, PerCamera, BatchSize} \subseteq Nat \ {0}
    /\ {CameraThreshold, QuarantineTime, ProviderThreshold, MinCameras} \subseteq Nat \ {0}
    /\ FrameAge \in Nat /\ MaxFaults \in Nat
    /\ BatchSize <= MaxImages
    /\ MinCameras <= MaxCameras

(* int.bit_length                                                            *)
BitLength[n \in Nat] == IF n = 0 THEN 0 ELSE 1 + BitLength[n \div 2]

(* validate_batch_capacity: enough attempts for one bad image in a batch.    *)
ASSUME AttemptsAssumption == MaxAttempts \in Nat /\ MaxAttempts >= 2 * BitLength[BatchSize - 1] + 1

VARIABLES
    queue,          \* the _FairInferenceQueue, with the calls that are under way
    pc,             \* where _dispatch is
    batch,          \* the images it has taken
    run,            \* _IsolationOutcome of that batch, and what is left to try
    failures,       \* _camera_failure_counts
    quarantine,     \* _camera_quarantine_until: what is left of it
    breaker,        \* _ProviderBreakerState
    down,           \* the provider fails whatever it is given
    fatal,          \* _fatal_error is set
    closed,         \* close() has begun
    faults          \* failures of the device so far, of MaxFaults

device == <<batch, run>>
health == <<failures, quarantine, breaker>>
service == <<fatal, closed>>
vars == <<queue, pc, device, health, down, service, faults>>
------------------------------------------------------------------------------
(* A call is free: no request; admitted: its payload is reserved and being   *)
(* read; queued: submitted, in the queue or on the device; finished, with    *)
(* its connection still open.  ready_set is the set of the elements of ready.*)
NoCall == [status |-> "free", images |-> 0, next |-> 0, completed |-> 0, age |-> 0,
           results |-> <<>>, answer |-> "none"]

Answered(a) == [NoCall EXCEPT !.status = "finished", !.answer = a]

NotQuarantined == -1

Idle == [todo |-> <<>>, attempts |-> 0, found |-> <<>>, failed |-> {}, confirmed |-> {},
         blamed |-> {}, tripped |-> FALSE]

Image == Calls \X (1..MaxImages)

TypeOK ==
    /\ queue.calls \in [Calls -> [status : {"free", "admitted", "queued", "finished"},
                                  images : 0..MaxImages, next : 0..MaxImages,
                                  completed : 0..MaxImages, age : 0..(FrameAge + 1),
                                  results : Seq(Image \cup {None}),
                                  answer : {"none", "results", "error"}]]
    /\ queue.waiting \in [Cameras -> Seq(Calls)]
    /\ queue.ready \in Seq(Cameras)
    /\ queue.counts \in [Cameras -> 0..PerCamera]
    /\ pc \in {"waiting", "locking", "running", "failing", "completing", "aborting", "dead"}
    /\ batch \in Seq(Image) /\ Len(batch) <= BatchSize
    /\ run.todo \in Seq((1..BatchSize) \X (1..BatchSize))
    /\ run.attempts \in 0..MaxAttempts
    /\ run.found \in Seq(Image \cup {None})
    /\ run.failed \subseteq 1..BatchSize /\ run.confirmed \subseteq 1..BatchSize
    /\ run.blamed \subseteq Cameras
    /\ run.tripped \in BOOLEAN
    /\ failures \in [Cameras -> 0..(CameraThreshold - 1)]
    /\ quarantine \in [Cameras -> NotQuarantined..QuarantineTime]
    /\ breaker \in [failed : 0..ProviderThreshold, cameras : SUBSET Cameras]
    /\ down \in BOOLEAN /\ fatal \in BOOLEAN /\ closed \in BOOLEAN
    /\ faults \in 0..MaxFaults

Init ==
    /\ queue = [calls |-> [k \in Calls |-> NoCall], waiting |-> [c \in Cameras |-> <<>>],
                ready |-> <<>>, counts |-> [c \in Cameras |-> 0]]
    /\ pc = "waiting"
    /\ batch = <<>>
    /\ run = Idle
    /\ failures = [c \in Cameras |-> 0]
    /\ quarantine = [c \in Cameras |-> NotQuarantined]
    /\ breaker = [failed |-> 0, cameras |-> {}]
    /\ down = FALSE
    /\ fatal = FALSE
    /\ closed = FALSE
    /\ faults = 0

Fault ==
    /\ faults < MaxFaults
    /\ faults' = faults + 1

Lesser(m, n) == IF m < n THEN m ELSE n

Having(q, status) == {k \in Calls : q.calls[k].status = status}

Of(c) == {k \in Calls : CameraOf[k] = c}

CameraAt(i) == CameraOf[batch[i][1]]

(* deque(item for item in s if item is not in S)                             *)
Without(s, S) ==
    LET kept[n \in Nat] ==
          IF n = 0 THEN <<>>
          ELSE IF s[n] \in S THEN kept[n - 1] ELSE Append(kept[n - 1], s[n])
    IN kept[Len(s)]

(* Mutant: the count of the camera is not taken back.                        *)
BugFinishKeepsCount(q, S, call) ==
    LET left == [c \in Cameras |-> Without(q.waiting[c], S)]
        emptied == {c \in Cameras : q.waiting[c] # <<>> /\ left[c] = <<>>}
    IN [q EXCEPT !.calls = [k \in Calls |-> IF k \in S THEN call[k] ELSE @[k]],
                 !.waiting = left,
                 !.ready = Without(@, emptied)]

(* Mutant: the camera loses its turn although other calls of it wait.        *)
BugFinishDropsTurn(q, S, call) ==
    [calls |-> [k \in Calls |-> IF k \in S THEN call[k] ELSE q.calls[k]],
     waiting |-> [c \in Cameras |-> Without(q.waiting[c], S)],
     ready |-> Without(q.ready, {CameraOf[k] : k \in S}),
     counts |-> [c \in Cameras |-> q.counts[c] -
                                     Lesser(q.counts[c], Cardinality(S \cap Of(c)))]]

(* _finish_call_locked for each call of S, which is unfinished.  A call all  *)
(* of whose images are on the device is in no queue, and then neither the    *)
(* queue nor the turn of its camera changes.                                 *)
Finish(q, S, call) ==
    LET left == [c \in Cameras |-> Without(q.waiting[c], S)]
        emptied == {c \in Cameras : q.waiting[c] # <<>> /\ left[c] = <<>>}
    IN [calls |-> [k \in Calls |-> IF k \in S THEN call[k] ELSE q.calls[k]],
        waiting |-> left,
        ready |-> Without(q.ready, emptied),
        counts |-> [c \in Cameras |-> q.counts[c] -
                                        Lesser(q.counts[c], Cardinality(S \cap Of(c)))]]

Failed(q, S) ==
    Finish(q, S \cap Having(q, "queued"), [k \in Calls |-> Answered("error")])

(* Mutant: a camera that was served goes to the head of the line.            *)
BugMarkReadyFirst(ready, c) == IF Contains(ready, c) THEN ready ELSE <<c>> \o ready

MarkReady(ready, c) == IF Contains(ready, c) THEN ready ELSE Append(ready, c)
------------------------------------------------------------------------------
(***************************************************************************)
(* Requests.  A call's name is used again when its connection is closed and*)
(* no image of it is on the device.  The server takes no connection once   *)
(* the service is fatal or closing; requests under way go on (one that has *)
(* not reserved its payload by then is left out: the dispatcher is gone).  *)
(***************************************************************************)
Busy(c) == {k \in Of(c) : queue.calls[k].status # "free"}

(* The camera's payload is let in: not while it is quarantined, and as many  *)
(* calls of a camera as its queue holds.                                     *)
Admissible(c) ==
    /\ quarantine[c] <= 0
    /\ Busy(c) = {} => Cardinality({d \in Cameras : Busy(d) # {}}) < MaxCameras
    /\ Cardinality(Busy(c)) < PerCamera

(* A quarantine that is over is forgotten, with the failures counted since,  *)
(* even if there is no room for the call or for its bytes.                   *)
Forgiven(c) ==
    /\ quarantine' = [quarantine EXCEPT ![c] = NotQuarantined]
    /\ failures' = IF quarantine[c] = 0 THEN [failures EXCEPT ![c] = 0] ELSE failures

Reserve(k) ==
    /\ ~fatal /\ ~closed
    /\ queue.calls[k].status = "free"
    /\ \A i \in DOMAIN batch : batch[i][1] # k
    /\ Admissible(CameraOf[k])
    /\ queue' = [queue EXCEPT !.calls[k].status = "admitted"]
    /\ Forgiven(CameraOf[k])
    /\ UNCHANGED <<pc, device, breaker, down, service, faults>>

ReserveRefused(c) ==
    /\ quarantine[c] = 0
    /\ Forgiven(c)
    /\ UNCHANGED <<queue, pc, device, breaker, down, service, faults>>

HasRoom(q, c) ==
    /\ q.counts[c] = 0 => Cardinality({d \in Cameras : q.counts[d] > 0}) < MaxCameras
    /\ q.counts[c] < PerCamera

Submit(k) ==
    /\ queue.calls[k].status = "admitted"
    /\ LET c == CameraOf[k] IN
       IF closed \/ ~HasRoom(queue, c)
       THEN queue' = [queue EXCEPT !.calls[k] = Answered("error")]
       ELSE queue' = [queue EXCEPT
                !.calls[k] = [NoCall EXCEPT !.status = "queued", !.images = ImagesOf[k],
                                            !.results = [i \in 1..ImagesOf[k] |-> None]],
                !.counts[c] = @ + 1,
                !.waiting[c] = Append(@, k),
                !.ready = MarkReady(@, c)]
    /\ UNCHANGED <<pc, device, health, down, service, faults>>

(* The request times out or its client task is cancelled.                    *)
Cancel(k) ==
    /\ queue.calls[k].status = "queued"
    /\ queue' = Failed(queue, {k})
    /\ UNCHANGED <<pc, device, health, down, service, faults>>

(* The connection ends, also before the payload is complete.                 *)
Release(k) ==
    /\ queue.calls[k].status \in {"admitted", "finished"}
    /\ queue' = [queue EXCEPT !.calls[k] = NoCall]
    /\ UNCHANGED <<pc, device, health, down, service, faults>>
------------------------------------------------------------------------------
(***************************************************************************)
(* The dispatcher: next_batch.                                             *)
(***************************************************************************)
Stale(q) == {k \in Having(q, "queued") : q.calls[k].next = 0 /\ q.calls[k].age > FrameAge}

Fresh(q) == Failed(q, Stale(q))

DropStale ==
    /\ pc = "waiting"
    /\ Stale(queue) # {}
    /\ queue' = Fresh(queue)
    /\ UNCHANGED <<pc, device, health, down, service, faults>>

(* One turn of the loop in _pop_batch_locked: an image of the first camera.  *)
(* Finish has taken finished calls out of the queues.                        *)
Pop(s) ==
    LET c == Head(s.queue.ready)
        k == Head(s.queue.waiting[c])
        n == s.queue.calls[k].next + 1
        left == IF n = s.queue.calls[k].images THEN Tail(s.queue.waiting[c])
                                               ELSE s.queue.waiting[c]
        rest == Tail(s.queue.ready)
    IN IF s.queue.waiting[c] = <<>>
       THEN [s EXCEPT !.queue.ready = rest]
       ELSE [queue |-> [calls |-> [s.queue.calls EXCEPT ![k] = [@ EXCEPT !.next = n, !.age = 0]],
                        waiting |-> [s.queue.waiting EXCEPT ![c] = left],
                        ready |-> IF left = <<>> THEN rest ELSE MarkReady(rest, c),
                        counts |-> s.queue.counts],
             batch |-> Append(s.batch, <<k, n>>)]

More(s) == s.queue.ready # <<>> /\ Len(s.batch) < BatchSize

(* What the loop ends with, as a set of one element.                         *)
PopBatch(q) ==
    LET popped[n \in Nat] ==
          IF n = 0 THEN {[queue |-> q, batch |-> <<>>]}
          ELSE {IF More(s) THEN Pop(s) ELSE s : s \in popped[n - 1]}
    IN popped[BatchSize + Cardinality(Cameras)]

(* The wait for more images is over, because there are enough or because     *)
(* batch_wait_seconds have passed.  With an empty batch _dispatch returns and *)
(* _dispatcher_finished marks the service.                                   *)
NextBatch ==
    /\ pc = "waiting"
    /\ ~closed
    /\ Fresh(queue).ready # <<>>
    /\ \E s \in PopBatch(Fresh(queue)) :
          /\ queue' = s.queue
          /\ batch' = s.batch
          /\ pc' = IF s.batch = <<>> THEN "dead" ELSE "locking"
          /\ fatal' = (fatal \/ s.batch = <<>>)
    /\ UNCHANGED <<run, health, down, closed, faults>>
------------------------------------------------------------------------------
(***************************************************************************)
(* The device: _infer_with_isolation and _record_fault_outcome.            *)
(***************************************************************************)
AcquireDevice ==
    /\ pc = "locking"
    /\ ~fatal
    /\ pc' = "running"
    /\ run' = [Idle EXCEPT !.todo = <<<<1, Len(batch)>>>>,
                           !.found = [i \in DOMAIN batch |-> None]]
    /\ UNCHANGED <<queue, batch, health, down, service, faults>>

Healthy(i, j) == ~down /\ \A n \in i..j : CameraAt(n) \notin Poison

(* One call of the provider with the images from i to j.  A single image it  *)
(* rejects is confirmed bad, more are halved.                                *)
Invoked(i, j) ==
    LET rest == Tail(run.todo)
        tried == [run EXCEPT !.attempts = @ + 1]
        rejected == [tried EXCEPT !.blamed = @ \cup {CameraAt(n) : n \in i..j}]
        middle == i + (j - i + 1) \div 2
    IN IF Healthy(i, j)
       THEN [tried EXCEPT !.todo = rest,
                          !.found = [n \in DOMAIN @ |-> IF n \in i..j THEN batch[n] ELSE @[n]]]
       ELSE IF i = j
       THEN [rejected EXCEPT !.todo = rest, !.failed = @ \cup {i}, !.confirmed = @ \cup {i}]
       ELSE [rejected EXCEPT !.todo = <<<<i, middle - 1>>, <<middle, j>>>> \o rest]

(* What is left to try fails without being tried.                            *)
GivenUp(r) ==
    [r EXCEPT !.failed = @ \cup UNION {t[1]..t[2] : t \in ToSet(r.todo)}, !.todo = <<>>]

(* The attempts of a dispatch are bounded: the rest is given up.            *)
WithinBudget(r) == IF r.attempts >= MaxAttempts THEN GivenUp(r) ELSE r

(* Mutant: images that were given up count against their camera.             *)
BugAllFailedCameras(r) == {CameraAt(i) : i \in r.failed}

FailedCameras(r) == {CameraAt(i) : i \in r.confirmed}

ServedCameras(r) == {CameraAt(i) : i \in {n \in DOMAIN batch : r.found[n] # None}}

Faulty(r, c) == c \in FailedCameras(r) /\ failures[c] + 1 >= CameraThreshold

CameraFailures(r) ==
    [c \in Cameras |->
        IF Faulty(r, c) THEN 0
        ELSE IF c \in FailedCameras(r) THEN failures[c] + 1
        ELSE IF c \in ServedCameras(r) THEN 0
        ELSE failures[c]]

ProviderFailures(r) ==
    IF ServedCameras(r) # {} THEN [failed |-> 0, cameras |-> {}]
    ELSE IF r.blamed = {} THEN breaker
    ELSE [failed |-> Lesser(breaker.failed + 1, ProviderThreshold),
          cameras |-> breaker.cameras \cup r.blamed]

Trips(r) ==
    /\ ServedCameras(r) = {}
    /\ r.blamed # {}
    /\ ProviderFailures(r).failed >= ProviderThreshold
    /\ Cardinality(ProviderFailures(r).cameras) >= MinCameras

Conclude(r) ==
    /\ failures' = CameraFailures(r)
    /\ quarantine' = [c \in Cameras |-> IF Faulty(r, c) THEN QuarantineTime ELSE quarantine[c]]
    /\ breaker' = ProviderFailures(r)
    /\ run' = [r EXCEPT !.tripped = Trips(r)]
    /\ fatal' = (fatal \/ Trips(r))
    /\ pc' = IF r.failed = {} THEN "completing" ELSE "failing"

Invoke ==
    /\ pc = "running"
    /\ \E r \in {WithinBudget(Invoked(Head(run.todo)[1], Head(run.todo)[2]))} :
          \/ /\ r.todo # <<>>
             /\ run' = r
             /\ UNCHANGED <<pc, health, fatal>>
          \/ /\ r.todo = <<>>
             /\ Conclude(r)
    /\ UNCHANGED <<queue, batch, down, closed, faults>>

(* The deadline of the batch has passed when the next call is due.           *)
OutOfTime ==
    /\ pc = "running"
    /\ run.attempts > 0
    /\ Fault
    /\ Conclude(GivenUp(run))
    /\ UNCHANGED <<queue, batch, down, closed>>

(* The provider hangs, aborts or answers nonsense.                           *)
Abort ==
    /\ pc = "running"
    /\ Fault
    /\ fatal' = TRUE
    /\ pc' = "aborting"
    /\ UNCHANGED <<queue, device, health, down, closed>>

(* The other detector's dispatcher marks the service.                        *)
PeerAborts ==
    /\ pc # "running"
    /\ ~fatal
    /\ Fault
    /\ fatal' = TRUE
    /\ UNCHANGED <<queue, pc, device, health, down, closed>>

FailAll ==
    /\ pc = "aborting" \/ (pc = "locking" /\ fatal)
    /\ queue' = Failed(queue, {batch[i][1] : i \in DOMAIN batch})
    /\ pc' = "dead"
    /\ batch' = <<>>
    /\ run' = Idle
    /\ UNCHANGED <<health, down, service, faults>>
------------------------------------------------------------------------------

FailedCalls == {batch[i][1] : i \in run.failed}

FailItems ==
    /\ pc = "failing"
    /\ queue' = Failed(queue, FailedCalls)
    /\ pc' = "completing"
    /\ UNCHANGED <<device, health, down, service, faults>>

(* The items complete() is given, and those of one call it does not skip.    *)
Successful == {i \in DOMAIN batch : run.found[i] # None /\ batch[i][1] \notin FailedCalls}

ItemsOf(k) == {i \in Successful : batch[i][1] = k /\ queue.calls[k].status = "queued"}

(* Mutant: results are told apart by their index in a call, not by the call. *)
BugFoundAnywhere(k, n) == CHOOSE i \in Successful : batch[i][2] = n

Found(k, n) == CHOOSE i \in ItemsOf(k) : batch[i][2] = n

Completed(k) ==
    [queue.calls[k] EXCEPT
        !.completed = @ + Cardinality(ItemsOf(k)),
        !.results = [n \in DOMAIN @ |-> IF \E i \in ItemsOf(k) : batch[i][2] = n
                                        THEN run.found[Found(k, n)] ELSE @[n]]]

CompleteItems ==
    /\ pc = "completing"
    /\ LET calls == [k \in Calls |-> IF ItemsOf(k) = {} THEN queue.calls[k] ELSE Completed(k)]
           done == {k \in Calls : ItemsOf(k) # {} /\ calls[k].completed = calls[k].images}
       IN queue' = Finish([queue EXCEPT !.calls = calls], done,
                          [k \in Calls |-> [Answered("results") EXCEPT
                                               !.results = calls[k].results]])
    /\ pc' = IF run.tripped THEN "dead" ELSE "waiting"
    /\ batch' = <<>>
    /\ run' = Idle
    /\ UNCHANGED <<health, down, service, faults>>
------------------------------------------------------------------------------
Close ==
    /\ ~closed
    /\ closed' = TRUE
    /\ queue' = [calls |-> Failed(queue, Calls).calls, waiting |-> [c \in Cameras |-> <<>>],
                 ready |-> <<>>, counts |-> [c \in Cameras |-> 0]]
    /\ UNCHANGED <<pc, device, health, down, fatal, faults>>

(* The dispatcher finds the queue closed, or close() cancels it.             *)
StopDispatcher ==
    /\ closed
    /\ pc # "dead"
    /\ pc' = "dead"
    /\ batch' = <<>>
    /\ run' = Idle
    /\ UNCHANGED <<queue, health, down, service, faults>>

ProviderFails ==
    /\ ~down
    /\ Fault
    /\ down' = TRUE
    /\ UNCHANGED <<queue, pc, device, health, service>>

ProviderRecovers ==
    /\ down
    /\ down' = FALSE
    /\ UNCHANGED <<queue, pc, device, health, service, faults>>

(* Time matters to calls that wait for their first turn and to quarantines.  *)
Aged(call) == IF call.status = "queued" /\ call.next = 0
              THEN [call EXCEPT !.age = Lesser(@ + 1, FrameAge + 1)] ELSE call

Tick ==
    /\ queue' = [queue EXCEPT !.calls = [k \in Calls |-> Aged(@[k])]]
    /\ quarantine' = [c \in Cameras |-> IF quarantine[c] > 0 THEN quarantine[c] - 1
                                                             ELSE quarantine[c]]
    /\ UNCHANGED <<pc, device, failures, breaker, down, service, faults>>

Request(k) == Reserve(k) \/ Submit(k) \/ Cancel(k) \/ Release(k)

(* What becomes of a batch.                                                  *)
Serve ==
    \/ AcquireDevice \/ Invoke \/ OutOfTime \/ Abort
    \/ FailAll \/ FailItems \/ CompleteItems

Dispatch == DropStale \/ NextBatch \/ Serve \/ StopDispatcher

Next ==
    \/ \E k \in Calls : Request(k)
    \/ \E c \in Cameras : ReserveRefused(c)
    \/ Dispatch
    \/ PeerAborts \/ ProviderFails \/ ProviderRecovers
    \/ Close
    \/ Tick

(* The dispatcher goes on, and takes a batch when the bounded wait for it is *)
(* over.  Nothing is promised about requests, their time-outs or the clock.  *)
Spec == Init /\ [][Next]_vars /\ WF_vars(DropStale) /\ WF_vars(NextBatch) /\ WF_vars(Serve)
------------------------------------------------------------------------------
(* A request is answered with results only when every image of it was        *)
(* recognized, and each with what was found in that very image: whatever the *)
(* batches its images went in, whatever shared these batches and whatever    *)
(* failed, was cancelled or given up beside it (docs/EDGE_DEPLOYMENT.md:     *)
(* results keep their mapping, unresolved calls publish nothing).            *)
AnswersAreOwn ==
    \A k \in Calls : queue.calls[k].answer = "results" =>
        /\ queue.calls[k].results # <<>>
        /\ \A i \in DOMAIN queue.calls[k].results : queue.calls[k].results[i] = <<k, i>>

(* The reservation of the connection and the books of the queue agree: a     *)
(* payload that was let in and read finds room, however the calls before it  *)
(* ended (_reserve_payload counts connections, submit counts calls).         *)
AdmittedIsQueued ==
    \A k \in Having(queue, "admitted") : closed \/ HasRoom(queue, CameraOf[k])

(* While the provider works, the bad images of one camera stay its problem:  *)
(* no other camera is counted or quarantined, the circuit of the provider    *)
(* stays closed although it sees several cameras' images fail together, and  *)
(* the dispatcher goes on (_infer_with_isolation, _record_fault_outcome).    *)
PoisonIsContained ==
    (faults = 0 /\ Cardinality(Poison) <= 1 /\ MinCameras > 1) =>
        /\ ~fatal
        /\ \A c \in Cameras \ Poison : failures[c] = 0 /\ quarantine[c] = NotQuarantined

(* The turns of the cameras: when a batch is taken, a camera that keeps its  *)
(* place is served a second time only if every camera that waited for its    *)
(* turn before has been served, and who was not served stays ahead of those  *)
(* who were.                                                                 *)
FairTurns ==
    [][LET served == {CameraOf[item[1]] : item \in ToSet(batch')}
           kept == ToSet(queue.ready) \cap (ToSet(queue'.ready) \cup served)
           Before(i) == {CameraOf[batch'[h][1]] : h \in 1..(i - 1)}
           Place(c) == CHOOSE n \in DOMAIN queue'.ready : queue'.ready[n] = c
       IN pc = "waiting" /\ pc' = "locking" =>
            /\ \A i \in DOMAIN batch' :
                 CameraOf[batch'[i][1]] \in Before(i) => kept \subseteq Before(i)
            /\ \A c \in kept \ served, d \in served \cap ToSet(queue'.ready) :
                 Place(c) < Place(d)]_vars

(* A submitted request is answered, although nothing is assumed of its       *)
(* time-out, unless the service is failing or closing: no call is left in a  *)
(* queue whose camera has lost its turn, or behind another camera for ever.  *)
EveryCallEnds ==
    \A k \in Calls : queue.calls[k].status = "queued" ~>
                        (queue.calls[k].status # "queued" \/ fatal \/ closed)
==============================================================================
