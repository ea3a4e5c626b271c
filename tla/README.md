# Vehicle Intelligence: specifications

TLA+ models of the protocols of the vehicle intelligence platform
(`src/src/vehicle_intelligence/`), TLC configurations that check them on small
instances, and TLAPS proofs for every value of the constants. Paths below are
relative to `src/src/vehicle_intelligence/` unless they start with `docs/`.
The correspondence of every definition with the lines it models is in
`PROJECT.json` under `map`; the hazards, each with the properties that cover it, under
`hazards`.

Contents: 1 the system, 2 the modules, 3 the runs, 4 disagreements with the
documentation, 5 the proofs, 6 what each property is sensitive to, 7 what is not
modelled, 8 what could come next.

## 1. The system

A camera process decodes RTSP, detects and tracks vehicles, reads plates and
turns every finished track into one event. The event goes

    track -> finalizer -> outbox directory -> Redis stream -> event worker
          -> MongoDB (event) -> rules -> actions (MongoDB claims, HTTP targets)

and nothing on that way may be lost or done more often than allowed, although
every process may die between any two steps and every store may fail, before or
after it applied a write. A supervisor keeps the camera processes and the shared
inference process running. An API, a realtime hub, retention, training and the
reviews sit beside that path:

    RTSP decoder -> pipeline -> (the path above)        event -> vehicle identity
    event worker -> Pub/Sub -> realtime hub -> client   event -> rule cache -> actions
    event, images -> plate review -> samples -> export  event, images -> retention
    dataset review -> audit collection, promotions      training runs -> remote jobs

### Modelled components

**Action engine and durable claims** (`application/actions.py`,
`infrastructure/persistence/policy_mongo.py`). *State:* one `action_executions`
document per (event, rule, action): status, attemptCount, updatedAt.
*Operations:* claim (insert, or reclaim of a FAILED or stale RUNNING document),
get, mark_succeeded, mark_failed with its three ways of counting (retryable,
terminal, deferred). *Interactions:* called by the event worker for every rule
that matches; calls the handlers, the HTTP one through the circuit breaker.
*Hard:* redelivery while another worker is at it, marks that do not name the
attempt, clock readings older than the claim they are used in, replies lost
after a write, death with a claim held. *Correct when:* the budget of attempts
bounds what is done outside, a result once returned stays true, no two workers act at
once, an abandoned claim is retried.

**Circuit breaker** (`_TargetCircuitBreaker` in `actions.py`). *State:* failures,
opened_at, probe_in_flight per host. *Operations:* before_request, succeeded,
failed. *Hard:* calls that were admitted before the circuit opened answer in any
order afterwards; a cancelled call calls neither succeeded nor failed. *Correct when:* only a
cancelled probe blocks the circuit, and an open circuit is tried again.

**Finalization outbox and track finalizer** (`infrastructure/finalization_outbox.py`,
`application/finalization.py`, the end of `application/pipeline.py`). *State:* the
directory with its lock file, the delivery task and its pass, the unit kept in
memory for a retry, removal threads that outlive their caller. *Operations:*
stage (scan, write, rename, flush), replay_once, removal, start, close with a
drain. *Interactions:* the pipeline awaits stage() under a shield, the task
writes media and publishes to Redis. *Hard:* death or power loss between rename,
flush and mark_finalized; a timeout that abandons a thread but not its effect;
cancellation while a stage is in flight; corrupt files; capacity. *Correct
when:* a finalized track is not lost, order is kept, and accepted events are
delivered in the end, unless the directory is corrupt or over a lowered capacity.

**Event bus and event worker** (`infrastructure/messaging/redis_streams.py`,
`application/event_worker.py`). *State:* the stream, the consumer group with its
pending list, each worker's claim cursor and batch. *Operations:* publish with
MAXLEN, read_new, reclaim_stale, dead_letter, acknowledge_many, run_once with its
groups per camera. *Hard:* two workers with the same message, failure in the
middle of a batch, a lost acknowledgement, a cursor that goes through the pending
list one batch at a time, trimming of what is owed. *Correct when:* only handled
messages are settled, a camera's order is kept inside a batch, everything is
settled in the end but what is refused for good.

**Camera supervisor** (`application/supervisor.py`,
`infrastructure/supervision/subprocess.py`, with `application/cameras.py` and
`application/health.py` as its environment). *State:* managed workers with
revision and start time, restart times, failure counts, start quota, the
inference service with its own backoff; outside: camera documents, health
documents, processes. *Operations:* one pass = ensure the inference service,
list, stop outdated workers, note exited ones, start missing ones; stop_all,
close. *Hard:* each pass awaits MongoDB and processes, while operators edit
cameras and processes exit; a pass can fail at any await; the inference service
has to be replaced without its clients. *Correct when:* one process per camera,
the inference service first, backoff reset when it should be, statuses true, and the set of processes converges
to the configuration.

**Shared inference service** (`infrastructure/inference/service.py`). *State:* per
detector a queue of calls per camera with the cameras' turns and counts, the
batch on the device and what is known of it, failure counts and quarantines per
camera, the provider's breaker, and one fatal error for the service.
*Operations:* reserve and release of a connection's payload, submit, cancel,
next_batch, the isolation of bad images by halving, complete, fail, close.
*Interactions:* camera processes over a socket; two dispatchers share the device;
the supervisor restarts the service once it is fatal. *Hard:* calls end in six
ways while their images wait or are on the device; a batch mixes cameras, and one
bad image fails it. *Correct when:* an answer belongs to its images, counts and
turns survive every way a call can end, bad images harm their own camera only,
cameras take turns, every call ends.

**RTSP source** (`infrastructure/vision/rtsp.py`). *State:* the decoder thread, the
capture it has opened, the latest-frame queue, the stream epoch, the health it shows,
the stop flag. *Operations:* start, the thread's open, install, read and reconnect,
read_item, close with its join. *Interactions:* the pipeline is its only
consumer; the camera answers or does not. *Hard:* two threads share the queue, and
close() may come while the thread is inside a call to the camera or between opening
a capture and installing it. *Correct when:* whatever was opened is released, and
the last status is true.

**Video pipeline** (`application/pipeline.py`, `domain/tracking.py`,
`application/health.py`). *State:* active tracks, ids completed lately, the stream epoch,
the loop's place, the health reporter's save under way. *Operations:* one item (a
frame or a heartbeat): an epoch change ends all tracks, observation, crossing,
time-outs; the end of the run with `_finalize_all`. *Interactions:* every hand-over
awaits the finalizer, which awaits the outbox. *Hard:* a failure or a cancellation
inside any hand-over, before or after it was accepted; frames of the old connection
still queued. *Correct when:* each track is handed over once, a vehicle that stays is
one event, connections do not mix, and a stop ends the process.

**Realtime hub** (`application/realtime.py`, `infrastructure/messaging/realtime_redis.py`).
*State:* the subscriber's connection, the history with its ids, each client's queue,
pending gap and last id. *Operations:* publish, subscribe with or without a last id, receive,
close. *Hard:* a slow client overflows, more than once, before it looks; a redelivered
message is published again; a waiting client is woken by the first of several events.
*Correct when:* nothing is lost silently, and shutdown does not hang.

**Retention, plate reviews, samples and exports** (`infrastructure/persistence/retention_mongo.py`,
`review_mongo.py`, `application/retention.py`, `review.py`, `dataset_export.py`). *State:* one
event's document with a lease per image, the objects, the samples with their status
and claim. *Operations:* claim, remove, mark, delete; review with sample; claim, build,
install and mark of an export. *Hard:* three kinds of workers read one another's state and
write later; leases and claims go stale under a worker that lives. *Correct when:* no
object outlives its document, a sample's event stays, an exported sample is in its
artifact, expired events go.

**Model training runs** (`application/model_training.py`,
`infrastructure/training/model_training_files.py`). *State:* run files with a status, the
background task of each submission, remote jobs. *Operations:* submit, refresh, cancel,
load at start. *Hard:* the remote call and the save of its id are two steps, and cancels and refreshes
come in between. *Correct when:* every live job can be seen, cancelled and counted,
and no run stays in submission.

**Dataset review** (`application/dataset_review.py`,
`infrastructure/training/dataset_review_files.py`, `application/audit.py`). *State:* revision
files that carry their audit entry, markers, the audit collection, promotion jobs and
the target source. *Operations:* review, deliver, relay, promote, recover.
*Hard:* files tear, the process dies anywhere, jobs to one target follow each other.
*Correct when:* a decision that is shown is audited or about to be, and a completed
promotion holds its own decisions.

**Rule cache** (`application/event_policy.py`). *State:* rules with an expiry, a lock.
*Operations:* ask, lock, load, keep. *Hard:* events judged concurrently, slow loads,
edits at any time. *Correct when:* rules are never older than the time to live.

**Vehicle identities** (`application/identity.py`, `application/reid.py`,
`infrastructure/persistence/identity_mongo.py`). *State:* identity documents with status, count
and revision, a fingerprint per event, the event's vehicleId, stored reviews.
*Operations:* save, register, link; merge and split. *Hard:* register and link are
two writes of a message that may come again, with reviews between them that decide by older revisions.
*Correct when:* no evidence is lost or counted twice, and events name the owner of their
fingerprint.

### What is left out

| Component | Why |
| --- | --- |
| GPU frame scheduler | no process of the system uses it, only a benchmark script |
| Live monitor and preview | relays the latest frame, loses frames by design, keeps nothing |
| Plate-only tracks, OCR scheduling, quality selection | data of a track; the track's life is modelled |
| Rule matching, plate voting, normalization, scoring, topology, journeys | pure functions of text and numbers, without steps |
| Dataset registry, dataset evaluation, model quality | imports and reports over files, one request each |
| Offline training and dataset tools (`training/`) | command-line batch jobs, one process each, restarted by hand |
| Camera capacity, credential rotation, ONVIF discovery | one request, compared and swapped by revision |
| Process-wide health report, metrics, tracing, configuration | counters, wording, validation |
| Media storage, repositories | one command per operation; modelled where a protocol runs over them |
| HTTP API, authentication, web console | request handlers over the services |
| Detectors, OCR and tracker adapters | numeric inference, out of TLC's reach |

## 2. The modules

| Module | What it is |
| --- | --- |
| `ActionExecution` | one claim document and the workers that compete for it |
| `CircuitBreaker` | one host and the calls one worker has in flight to it |
| `FinalizationOutbox` | one camera's tracks, its directory on disk and in the page cache, the processes that come and go |
| `EventDelivery` | abstract: what bus and workers promise together |
| `EventWorker` | the stream, the group and the workers; implements `EventDelivery` |
| `CameraSupervisor` | the supervisor's pass, the processes and the operators |
| `SharedInference` | one detector's queue and dispatcher, with the connections of the cameras |
| `RtspSource` | the decoder thread, the latest-frame queue and close() |
| `VideoPipeline` | extends `RtspSource`: the pipeline that consumes it, to the end of the run |
| `RealtimeHub` | the Pub/Sub subscriber, the hub and one client that comes, goes and comes back |
| `Retention` | one event, its objects and samples, with retention workers, reviewers and exports |
| `ModelTraining` | runs, their submissions, requests and remote jobs |
| `DatasetReview` | decisions, audits and promotions of one source, on files |
| `EventPolicy` | the rule cache and the events judged by it |
| `VehicleIdentities` | identities, fingerprints and links of a few events, with reviews |
| `MCServices`, `MCDelivery`, `MCRecords` | sums of modules that share no state (section 3) |
| `MC...` (others) | instances for TLC |
| `..._proofs` | theorems for any value of the constants |

The modules are separate because the components meet in narrow interfaces, and
each module takes from its neighbour only what that interface promises:
`EventWorker` treats "rules applied" as an idempotent set because `ActionExecution`
shows that repeated deliveries stay within the budget of attempts; `FinalizationOutbox`
ends where the event is handed to the publisher, which is `EventWorker`'s `Publish`, and it may
hand one over twice, which `EventWorker` allows; `ActionExecution`'s outcome
`deferred` is what `CircuitBreaker`'s `Reject` produces. `VideoPipeline` hands a track
to a finalizer that accepts it or not, which is `FinalizationOutbox`'s `Stage`;
`RealtimeHub` receives what `EventWorker` publishes, in any number of copies;
`VehicleIdentities` handles an event as often as `EventWorker` may deliver it.
`RtspSource` and `VideoPipeline` are composed: the pipeline takes what the decoder queued
and closes the source at the end of its run.

### Conventions

* One action per stretch of code between two awaits (for threads: between two
  system calls another party can observe). Where a remote write can be applied
  and its answer lost, the failing action chooses between both.
* Time is kept as ages that saturate. A clock reading used after an await is an
  age too (`lag`), so a stale `now` is a state of the model.
* Every bound is a constant: `MaxFaults` and its like in each module (failures of any
  kind), `MaxLag` (how old a clock reading can get), `MaxMessages`, `MaxBoots`, `MaxEdits`,
  `MaxConnections`, `MaxWallTime`, `MaxEvents`, `MaxRepeats`, `MaxDecisions`, `MaxRevision`,
  `MaxFailures` (where the supervisor's delay stops growing).
* A module's own names end up beside another's in the sums, so the generic ones carry
  their part's name (`HubNext`, `RetentionSpec`, `PipelineFairness`).
* Definitions called `Bug...` are not part of any specification: each is a slip
  the code could have made, used to see that a property notices it (section 6).

### ActionExecution

`doc` is the MongoDB document, `pc`, `lag` and `outcome` the locals of
`ActionEngine.execute` in each worker, `effects` the number of times a handler acted
outside. Begin reads the clock; Claim, ClaimDenied and ClaimError are
`claim()` (insert and reclaiming update are one step because MongoDB executes the
one that matters atomically: after a DuplicateKeyError the update decides);
ReadDenied is the second read that decides between skip and
ACTION_ALREADY_RUNNING; Execute is the handler, whose failure does not say
whether it acted; Mark and MarkError are mark_succeeded / mark_failed, which name
the document and not the attempt; Crash and CrashAfterEffect are death or
cancellation. A success always counts as one effect and a deferral as none.

`lag` is the age of the clock reading a worker claims with, and goes on aging while it
works on that claim, because `updatedAt` is written with that reading. `OneActsAtATime` has the
premise `NobodyOverstays`, that a worker is done with its claim within the stale interval: the
defaults are 60 s for it and 5 s for the handler's time-out (`config.py:980`), which no validator compares,
and nothing bounds the claim and the mark beside the handler.

### CircuitBreaker

`state` is `_CircuitState`. Each of before_request, succeeded and failed holds the
lock without an await, so each is one action; the HTTP exchange lies between `Admit` or
`AdmitProbe` and `Succeeded`, `FailedCall` or `Cancelled`. `Cancelled` is the action time-out,
a shutdown, or an authentication error, after which neither method runs. The age of
`opened_at` goes on beyond the recovery time.

### FinalizationOutbox

`dir` is the directory as processes see it, `disk` what a power failure leaves.
An entry's content is the number of the boot that encoded it: what a retry in the
same process finds is equal, what a later process finds is not (createdAt
differs). `mode` follows `VideoPipeline.run` to its end, `task` is the delivery task,
`late` the removal threads whose caller timed out. `tracks` and `accepted` are the
finalizer's: a track is accepted when stage() returned. `capacity` is configuration: `Reconfigure`
changes it between two processes and nothing else does. `Initializes` is `_initialize_sync`, which flushes
the directory and then starts (`Start`) or, over the capacity or with a bad file, refuses, now and every
time it is tried again (`StartRefused`). The lock file is held
between rename and flush (`Unlocked`). `Tamper` stands for whatever makes a file
fail its checks. Byte limits are represented by the limit on entries; permission
and symlink checks of the directory are left out.

### EventWorker and EventDelivery

`log` numbers the messages; `present`, `last`, `pel` and `stale` are Redis as
XADD MAXLEN ~, XREADGROUP >, XAUTOCLAIM, XACK and XDEL use it. Approximate
trimming is a choice: it may or may not cut down to the limit. A worker's record
holds its claim cursor, the batch, what is left of it, what is saved and what is
to be acknowledged. The order is the code's: decode and dead-letter the malformed
ones first, then the groups side by side, each in stream order and left at its
first failure, then one acknowledgement for all. `GroupRaises` is the exception that is
not caught per message. The consumer's name survives a death, so a restarted
worker is the same consumer with a fresh cursor.

`ProcessError` is a failure that passes. One that does not is `refused`: an event whose worker died in the
last attempt of an action raises ACTION_ALREADY_RUNNING at every delivery (`policy_mongo.py:383`), and one a
review moved is refused by `assign_vehicle_id` (`mongo.py:198`). From then on `ProcessRefused` is all that
happens to it, and its group is left there each time.

The best-effort realtime publish is left out: it never fails an event.

`EventDelivery` states the promise: a message is settled only when its event is saved
and applied, or its payload is malformed, or the length cap removed it.
`DeliverySpec` in `EventWorker` is that specification under the mapping
`settled <- Settled`.

### CameraSupervisor

`step` is where the supervisor stands; between two steps lies an await. `todo` is
what is left of the loop over workers or cameras, `desired` the list as the pass read it,
`writing` the status write under way, `lag` the age of the pass's `now`. `workers`
holds the processes that live, as a sequence so that a second one would be
seen, with the configuration (`edition`) each was started with; `active` is `_active`.
`Create` starts at revision 1, also for an id used before. Workers report and
exit at any time, the inference service too.

`SubprocessCameraWorkerHandle.stop` returns only when the process is gone (terminate,
wait, kill, wait), so a stop cannot fail. The death of the supervisor itself is not
modelled: its service manager has to end the children. In initialize() a
failing inference start is retried in the same way as in a pass, so the model begins with a pass.

### SharedInference

`queue` is the `_FairInferenceQueue` with the calls under way, `batch` and `run` are the
dispatcher's items and `_IsolationOutcome`, `pc` says where `_dispatch` stands.
Whoever holds the queue's condition awaits nothing else, so each of its methods is
one action; `Finish` is `_finish_call_locked` for all calls one of them ends.
`PopBatch` is the loop of `_pop_batch_locked`. `Invoke` is one call of the provider
followed by what the loop does before the next: halve, give up when the budget is
used, or conclude with `_record_fault_outcome`, which awaits nothing. The results
are resolved in two steps, fail and complete, as the code takes the condition twice.
`Reserve` counts connections and `Submit` counts calls; `Release` comes when the
connection is closed, possibly before anything was submitted.

A provider rejects a batch if it holds an image of a `Poison` camera or while it is `down`.
An image is a call with a position, and so is what the device finds in it: mixing up
results shows. The other detector is seen in `PeerAborts` only; byte budgets (a
reservation may be refused for them in `ReserveRefused`), the scalar path for providers
without batches and the wire protocol are left out. A connection that has not
reserved its payload when the service becomes fatal or closes is left out too.

### RtspSource and VideoPipeline

A step of the decoder thread ends where it holds the condition or calls the camera:
`Connect`, `OpenFails` or `OpenSucceeds`, `InstallCapture`, `ReadFrame`. `open` is the set of
captures that are not released: a capture that was opened while close() was under way is
the thread's to release (`InstallCapture` sees the stop flag). `CloseBegins`,
`CloseReleases` and `CloseEnds` are the parts of close(): the stop flag, the release of
the installed capture, the join with its time-out, after which the thread may have been
abandoned and the status is STOPPED. A frame is its time and its stream epoch.

`stage` says where `run()` stands, `todo` which tracks it is finalizing, `ending` whether
it was cancelled or failed. What the detector and the tracker report is any set of tracker ids,
so a key is an epoch and an id. `HandedOver` removes a track only
after the finalizer accepted it; `RunCancelled` and `CancelledAccepted` are a cancellation while
the shielded stage goes on or has been accepted; `Fails` is any other failure, which ends the run without
finalizing what is left. The reporter's save is a step of its own (`SaveHealth`), and the last
report waits for it.

### RealtimeHub

One event loop, so publish() is one step over all clients and `receive()` is split
at its wait: a client that waits is woken by the first event that is put (`ReceiveItem`) and does not
look at a gap that came after. So the event is delivered before the gap control that
counts what was dropped behind it; `GapsAreHonest` is stated for that order. Other clients share
only the history, one stands for all. `hub` is `RealtimeEventHub` with its replay
deque and id set, `source` the subscriber's loop with what is on its wire.

### Retention

One event document with its images, and `age` for how long it is expired. A pass is
`ReadPins`, `ClaimMedia`, `RemoveMedia`, `MarkMedia`, `FindExpired`, `DeleteExpired`; each MongoDB
command is one step and the pins and candidates a pass has read stay in its record.
Other events matter where a scan is bounded: `claim_media` reads the oldest `limit * 4` expired plate crops and
`delete_expired_events` the oldest `limit * 2` expired events, and both drop the pinned ones afterwards.
`world.crowded` says which of the two scans are full of older pinned events, `OthersCrowd` that they
become so or cease to be at any time, and a pass that meets a crowded scan passes this event by.
`world.transactions` chooses between `ReviewInTransaction` and the separate writes `SaveReview`,
`CheckCrop`, `CreateSample`. An export is `ClaimSamples`, `Install` or `Resume`, `MarkExported` or the ways it
fails; claims go stale at any time.

### ModelTraining

`runs` is memory and file together, `tasks` the submission of each run, `requests` refreshes and
cancellations with what they saw, `jobs` the provider's side. save() accepts a writer that saw the
current version; no status returns once it is left, so the status stands for the version.
`trainer.lost` and `trainer.unsaved` are the runs whose job id, or whose failure, a fault kept from
being written: they are the exceptions the two properties name.

### DatasetReview

A decision is an item and a revision number. `decided` are the files, `torn` those that
a death cut short, `shown` what the process has in memory, `markers` the delivery markers,
`auditLog` the collection. A desk is a request or the relay with the entry it delivers.
`inexact` are entries whose time MongoDB cut to milliseconds (section 4). Promotions follow
`create_promotion_job`, its audit, the task, and `_recover_interrupted_job` after a restart.

### EventPolicy

`replaced[v]` is when version v of the rules was replaced, `cached` the cache with
its expiry, `holder` the lock. `asked` and `read` are the clock readings of an event, before the
lock and before the load; the expiry is reckoned from the one before the load.

### VehicleIdentities

Bootstrap identities are named by their event and split identities by their review, as the
digests name them. A handler carries nothing from step to step but its event, and
`Interrupt` may come anywhere: whatever a second worker with the same event does, one that is
interrupted and starts again does too, so one handler stands for several. Each transaction is one step:
two that overlap write a common identity document and conflict. Without transactions
(`mongodb.transactions_enabled: false`, development) the writes of a review are not atomic;
that mode is not modelled. A message's event carries no vehicleId, so the branch of
`register_observation` that folds an observation into an existing identity is not reached.

## 3. The runs

| Run | Question | Bounds |
| --- | --- | --- |
| `Services` | actions: are effects bounded, results kept, one worker at a time, the abandoned retried? breaker: is the flag orphaned by cancellation only, and the open circuit probed? retention: do expired events go, where scans do not stay crowded? training: are jobs attended to and submissions ended? | 2 workers, 2 attempts, stale after 1, lag 1, 2 faults; 3 calls, threshold 2, recovery 2; 2 retention workers, 1 reviewer, 1 fault; 2 runs, 2 requests, 1 at a time, 2 faults |
| `ActionKilled` | does a killed worker's claim always recover? (no) | as in `Services` |
| `CircuitStuck` | does an open circuit become half-open again? (no) | as in `Services` |
| `Delivery` | outbox: are finalized tracks kept, in order, published in the end? stream: is everything settled in the end? hub: are gaps honest and do subscriptions end? | 2 tracks, capacity 1 or 2, 2 processes, 2 faults; 2 workers, 2 messages of 2 cameras or malformed, batch 1, cap 1, 2 faults; 4 events, queue and history of 2, 1 repeat, 1 fault |
| `OutboxFlush` | is a finalized track on disk? (no) | as in `Delivery` |
| `Records` | stream: is only handled work settled, in order, and `EventDelivery` implemented? retention: orphans, pins, artifacts; dataset review: audits, promotions; rules: freshness; identities: ownership | 2 workers, 3 messages of 2 cameras and a malformed one, batch 2, cap 2, 1 fault; 2 retention workers, 1 reviewer, 2 exports, with and without transactions, scans not crowded, 1 fault; 1 item, 1 labeler, 2 promotions, 2 decisions, 2 faults; 2 events, time to live 2, 2 edits, 4 ticks; 3 events, 2 reviews of at most 2 fingerprints |
| `AuditRelayStuck` | is every audit entry delivered by a process that lives? (no) | 1 decision, 1 fault |
| `PinnedMediaLost` | do the images of a pinned sample stay? (no) | as in `Records`, no fault |
| `CameraSupervisor` | one process, order with inference, true statuses, backoff, convergence | 2 cameras, capacity 1 or 2, 1 start per pass, 2 edits, 1 fault |
| `SupervisorStale` | does a worker run what is configured, in the end? (no) | 2 cameras, capacity 1, 2 edits, no fault |
| `SharedInference` | own answers, room for what was admitted, containment of bad images, turns, every call ends | 2 cameras, one of them sending bad images; 3 calls of 2, 2 and 1 images; batch 4, 5 attempts, 1 fault |
| `VideoPipeline` | is every track handed over once, never a second event, never across epochs, is everything closed, does a stop end the run? | 2 tracker ids, queue 1, 2 connections, 2 ticks, time-out 2, 1 fault |

`Services`, `Delivery` and `Records` are sums: their parts share no state, so a
product would only multiply states. A variable `subject` names the part a behaviour is about, the
others do not move, and each fairness condition holds for the part that `subject` names (`On(...)`). A property of one part is
trivially true in the behaviours of the others, and TLC checks it in all of its own. `Services` and
`Delivery` ask for what must happen in the end, `Records` has larger instances
for what must never happen.

`Records`, which asks for safety only, uses symmetry: workers are interchangeable, retention workers and exports too,
and the events of the two cameras, of which only whether they are of the same camera counts. Its scans
are not crowded, as that only leaves out steps (`Services` has it).

What the properties say is written above each of them in the module.

### Why the bounds are enough

ActionExecution: two workers are what an overtaking needs (one late, one that
reclaimed); two attempts are an early and a last one; two faults let a lost
reply follow a death. CircuitBreaker: three calls are two left over from
before the circuit opened and a probe. FinalizationOutbox: two tracks are an
older and a newer one; capacity 1 makes the second wait, and capacity lowered from 2 to 1 while no
process runs makes the directory overfull, so that starts are refused until it is raised; two processes give a restart with entries
of another encoding; two faults let a failed flush or a timed-out removal meet a
power loss. EventWorker: batch 2 with two cameras gives two groups in a batch
and two messages in a group; a cap below the number of messages makes trimming
meet pending and unread entries (`Records`); `Delivery` takes batch 1, so that the cursor has to come
round, and two faults, so that a worker's death meets an event that is refused for good. CameraSupervisor: two cameras with capacity 1 compete for the slot and
with capacity 2 for the one start of a pass; backoff 1 with maximum 2 has a first and
a doubled delay, which is the maximum (`MaxFailures` 2); two edits delete and create a camera again, or
disable and enable it; one fault is an exit, a failed start or a failed pass
at any await. SharedInference: the camera with two calls has one wait behind the
other, and its images share batches with the other camera's; a batch of four with two bad
images needs seven attempts, so that the budget of five (the least that
`validate_batch_capacity` allows) runs out with good images untried; camera
threshold 2 has a count and a quarantine, provider threshold 1 makes the breaker as
easy to open as it can be; one fault is an outage, a deadline, an abort or the peer's.
RtspSource and VideoPipeline: two ids let one track be accepted when the other is
cancelled; two connections are an epoch change; a queue of one overflows at the second frame;
two ticks are a time-out and a return after it. RealtimeHub: four events overflow a queue of two twice and
push ids out of a history of two. Retention: two workers for a lost lease; two exports
for a claim taken over. ModelTraining: two runs over a limit of one, two requests that overlap on one
run. DatasetReview: two decisions for a conflict, two promotions for a target found
ready; two faults are a torn file and the restart after it. EventPolicy: two events contend for the lock, two edits
come before and during a load. VehicleIdentities: three events are a merge that makes an
identity too large for a review of two; two reviews are a merge and the split of its result.

### Fairness

Safety needs none. For liveness:

* ActionExecution: time passes, an unacknowledged event is delivered again
  (Redis keeps it pending and some worker reclaims it), and a delivery once begun
  runs on, since execute() waits for nothing but awaits that return.
  No fairness on faults; they are bounded, so an outage ends.
* CircuitBreaker: deferred actions are redelivered, every call in flight ends because
  the action time-out cancels it, the clock advances. How a call ends is not
  constrained.
* FinalizationOutbox: tasks and threads that can go on do, the supervisor
  starts a dead worker, close() is bounded by its deadline. Weak fairness suffices. None for `Reconfigure`:
  nobody has to raise a capacity, so `AcceptedIsPublished` excepts what lies in a directory that is over it
  (`Blocked`), beside integrity failures and failed flushes.
* EventWorker: a worker's loop goes on and every pending entry ages. Strong fairness of `Reclaim`: each
  loop compares the clock with `_next_reclaim_at` before it reads, so reclaiming
  cannot be put off for ever by new messages although its guard (an idle worker,
  a pending entry) does not hold all the time. Strong fairness of `Read`: between two reclaims, which come
  every `reclaim_interval_ms`, a worker reads new messages, however many it could reclaim. None for
  `BecomesRefused`. `EverythingSettles` excepts a refused event and what it holds back of its camera (`HeldBack`).
* CameraSupervisor: the pass goes on after every await (they return or raise) and
  time passes. No fairness for operators, exits, reports or shutdown.
* SharedInference: the dispatcher goes on, and takes a batch once the wait for more
  images is over, which `batch_wait_seconds` bounds; the provider answers or its
  time-out fires. No fairness for time-outs of requests, for closing connections or for
  the clock, so `EveryCallEnds` does not lean on them.
* Retention: time passes and a pass that began goes on; strong fairness of `ReadPins`,
  since a worker begins a pass on a timer and every pass looks at every kind of image. None for reviews and
  exports, nor for `OthersCrowd`: `ExpiredAreDeleted` speaks of behaviours in which the scans stop being crowded.
* ModelTraining: a submission goes on and the API is started again after its death.
* RealtimeHub: the event loop runs what is ready. Nobody has to come, publish or shut down.
* VideoPipeline: the loops and awaits of run(), close() and the reporter go on; of the decoder
  that calls to the camera return, which their time-outs see to. No fairness for frames, stops or crashes.

### Deadlock

TLC checks it in `ActionKilled` and `CircuitStuck`, whose parts never stop. It is switched off where a
system really may stop or the bounds run out: the last process of the outbox ends (`MaxBoots`), the
messages are used up, the supervisor shuts down (`down`), the inference service and the hub close,
the camera's run is over, an event is deleted and its reviews are done, all runs, decisions and
edits are used up. The sums contain such parts.

## 4. Where code and documentation disagree

1. `ActionKilled` / `KilledClaimRecovers`. A worker killed during the *last* attempt
   leaves RUNNING with attemptCount equal to the maximum. The claim's filter asks
   for attemptCount below it, so no later claim matches, each redelivery raises
   ACTION_ALREADY_RUNNING and the message stays pending, which `EverythingSettles` has to except. ADR-006 and the rollout
   runbook say it recovers.
2. `CircuitStuck` / `OpenBecomesHalfOpen`. A cancelled half-open probe leaves
   probe_in_flight set; the circuit stays open until the worker restarts. ADR-018 says
   CLOSED/OPEN/HALF_OPEN.
3. `OutboxFlush` / `AcceptedIsDurable`. If the directory flush after the rename fails
   and the stage is tried again (by `_finalize_all`), it finds its own entry and
   succeeds without a flush. CAMERA_PIPELINE.md says the directory is flushed before the
   track is marked finalized. `AcceptedIsKept` shows that this is the only hole: it
   holds for every event but those in `unflushed`.
4. `SupervisorStale` / `RunsWhatIsConfigured`. Workers are compared by revision
   only; a camera deleted and created again between two passes has revision 1
   again, and its old process goes on with the deleted configuration.
   CAMERA_PIPELINE.md says delete stops the child. `EverythingSettles` holds: in
   terms of *revisions* the supervisor converges.
5. `PinnedMediaLost` / `PinnedMediaStays`. A retention worker reads the pins and then
   leases the image without asking again; a sample created in between, even in a
   transaction, loses its image. ARCHITECTURE.md says READY samples pin their
   media. `PinnedEventStays` shows that the *event* of such a sample is kept where
   transactions are enabled.
6. `AuditRelayStuck` / `AuditsAreDelivered`. An audit append took effect and its reply, or
   the marker, was lost. The pending entry has microseconds, the stored one
   milliseconds; they compare unequal, every retry fails, and the relay stops at that
   entry in each pass. SECURITY_AND_AUDIT.md says retries are idempotent by
   audit id. `ReviewsAreAudited` holds: nothing is lost.

Seen while modelling, and not checked by a run:

* A deferral gives its attempt back with `$inc -1` without naming it. After a
  reclaim that refund can let two workers hold claims with the same attempt
  number, which docs/MONGODB_SCHEMA.md:302-303 rules out. The bound on effects
  survives it (`EffectsWithinBudget`).
* `_write_status` creates a health document when there is none, so a status
  written just after a camera was deleted leaves an orphan document
  (`supervisor.py:332`).
* An event that was linked, moved by a merge or split, and is delivered again (death before
  the acknowledgement, or a second copy from the outbox) is refused by the
  filter of `assign_vehicle_id`, which only accepts its bootstrap identity: the message
  stays pending, and its rules do not run again: the exception `HeldBack` in `EverythingSettles` is for it and for
  the claims of item 1. `EvidenceIsOwned` needs that filter. An event whose
  fingerprint is moved *before* its link is linked to the merged identity and
  stays there: the exception `overtaken` in `EvidenceIsOwned`.
* A merge checks 1,000 fingerprints for each of its two identities; the result can exceed
  the bound, and is then beyond every later merge and split.
* A realtime client that waits for an event gets it before the gap control for what was dropped
  behind it.
* An expired event that nothing pins is never deleted while enough older expired ones are pinned:
  `claim_media` looks at the oldest `limit * 4` candidates (`retention_mongo.py:79`) and
  `delete_expired_events` at the oldest `limit * 2` (`retention_mongo.py:231`), and each drops the pinned ones
  after that. Hence the premise of `ExpiredAreDeleted`.
* A `maximum_entries` lowered below what the directory holds refuses every start of the camera process
  (FinalizationOutboxFullError), so nothing in it is delivered until it is raised again.

## 5. The proofs

`tlapm` checks every obligation. No axiom is used other than the assumptions
declared with the constants, which TLC evaluates in the runs. Every invariant below was
model-checked before it was proved. The eight modules follow the components:

| Module | About | Theorems (properties) |
| --- | --- | --- |
| `Actions_proofs` | ActionExecution, CircuitBreaker | TypeOK, EffectsWithinBudget, ResultsAreDurable, TerminalIsFinal, OneActsAtATime; BreakerTypeOK, OnlyCancellationOrphans |
| `EventWorker_proofs` | EventWorker | TypeOK, SettledIsHandled, BatchKeepsCameraOrder, DeliverySpec |
| `CameraSupervisor_proofs` | CameraSupervisor | OneProcess, InferenceStartsAlone, StatusIsTrue, BackoffStartsOver |
| `CameraProcess_proofs` | VideoPipeline with RtspSource, FinalizationOutbox | PipelineTypeOK, HandedOverOnce, CleanClose, NoSecondEvent, EpochsNeverMix; OutboxTypeOK, AcceptedIsKept, NoOvertaking |
| `EventRecords_proofs` | VehicleIdentities, Retention, EventPolicy | EvidenceIsOwned; RetentionTypeOK, NoOrphanObjects, PinnedEventStays, ExportedIsInArtifact; RulesAreFresh |
| `RealtimeHub_proofs` | RealtimeHub | HubTypeOK, GapsAreHonest |
| `Training_proofs` | ModelTraining, DatasetReview | TrainingTypeOK, LiveJobsAreAttended; ReviewsAreAudited, CompletedIsOwn |
| `SharedInference_proofs` | SharedInference | TypeOK, AnswersAreOwn, AdmittedIsQueued, PoisonIsContained, FairTurns |

### Actions

**ActionExecution** (any finite set of workers, any limits).
`EffectsWithinBudget` is not inductive: a claim that is executing will still
add an effect, and a deferral that is about to be marked will give its attempt
back. The invariant `IInv` adds `AttemptsAreReserved`, effects plus the number of
workers in `Reserved` (executing, or marking a deferral) is at most attemptCount,
together with TypeOK, `AbsentIsUntouched` and `ResultsAreDurable`. Each action then moves one worker into or out of
`Reserved` and the lemmas on cardinalities do the rest. The action property
`TerminalIsFinal` follows from it step by step: a refund on a terminal
document is excluded because only RUNNING documents are marked, and a refund
below zero because the one who refunds is in `Reserved`.

`OneActsAtATime` has an invariant of its own, kept while nobody overstays. `ClaimIsAlone`: at most one worker is in
flight, and while it is, the document is RUNNING and its age tied to that worker's `lag`. So it is not stale for
anybody, however old the clock reading somebody else brings, and no claim is granted (`NothingIsGranted`). With that
every step keeps it (`ClaimStaysAlone`).

**CircuitBreaker** (any calls, threshold, recovery time). `BreakerTypeOK` is
inductive; `OnlyCancellationOrphans` is an action property proved from it: a probe in flight
stays one through every other call's return (`ProbeGoesOn`).

### Events

**EventWorker** (any number of workers, any batch and stream size).
`SettledIsHandled` needs to know that what a worker holds in memory is true in
MongoDB (`ProgressIsDurable`), that every reference is to a delivered position
(`ReferencesAreDelivered`), and that an entry missing from the stream while owed was
trimmed (`MissingIsTrimmed`): XAUTOCLAIM drops such entries without anybody
handling them. `BatchKeepsCameraOrder` needs that what a worker has yet to do, in each group, comes
after what it has done there, and that what is dropped takes everything later of its camera with it (`Ordered`). With the
invariant, `ImplementsDelivery` maps each action to a step of `EventDelivery` or to a
stutter.

**VehicleIdentities** (any handlers, sightings, vehicles and reviews). `IdentityInv` has, beside the type:
`RegisteredFirst`, an event is saved before its fingerprint is registered, and until its link its
own bootstrap identity owns the fingerprint (except for those of `overtaken`, section 4);
`HandledInOrder`, a handler past a step finds what that step wrote;
`AskedRightly`, a merge names two identities and a split something to move; and `EvidenceIsOwned`
itself. The sets of fingerprints of two identities are disjoint, so that a merge or a split,
which moves sets, adds and subtracts cardinalities exactly.

**Retention** (any number of retention workers, reviewers and exports, with and without transactions).
`MediaIsConsistent`: a lease takes the key of the image with it, and a removed object stays removed;
`PassesAreRight`: after its removal a worker's object is gone whoever has the lease now, and who deletes
the event found every image DELETED, from which nothing leads back; `PinsAreSeen`: no pin of a sample that was created with
its review is left when the event goes, because such a sample needs the plate crop's key;
`ExportsAreWhole`: an export that marks has its whole batch in the artifact. From
these `NoOrphanObjects`, `PinnedEventStays` and `ExportedIsInArtifact` follow.

**EventPolicy** (any number of events, edits and any time to live). `InForce(v, t)`: version v
is current or was until t. The invariant gives the cache, a loaded answer and a judgement
each the time since when it may be out of force; an edit keeps what was in force at a
time that has come (`EditKeepsInForce`).

**RealtimeHub** (any sizes of queue and history, any events, repeats and faults).
`GapsAreHonest` compares a client with what it got, so it says nothing while events wait. `Accounts` does:
what was given, what is queued and what the pending gap counts add up to what the hub accepted since
the client's `base`, and the queue is the end of the accepted events, in order. The history is an end of the accepted events too, which gives
a client that comes back its `base`. `WireShape` is the type of the wire between Redis and the hub, and
`ClosedLast` says that the hub closes only when nothing can be published any more.

### Cameras

**CameraSupervisor** (any set of cameras, any capacity, backoff and lag).
`OneProcess` is not inductive: stop_all empties `_active` before the processes are
gone. `Owned` says that each live process is managed, or that stop_all is still
going to stop it; `Places` what each step of the pass knows of the cameras left to it
(the loops end before a new one starts, a status OFFLINE or STOPPED in hand
belongs to a camera without a process); `Dependent` that without the
inference service no worker runs, and that a pass can stand only at its very start then.
`Shape` is the part of the type invariant the argument needs. From it follow
`OneProcessPerCamera`, `InferenceComesFirst` and `StatusesAreTrue`.
`BackoffStartsOver` is an action property: a camera's failures become fewer only after a
stable run, when it is disabled, or when its worker was replaced. Beside the invariant it needs `Backoffs`, that counts
stay within `MaxFailures`, that a clock reading is not from the future, and that
a pass forgets failures only of a camera whose worker it has just stopped for a change.
`MaxFailures` bounds the count where the delay has reached BackoffMax, so that
counting on would change nothing (`FailuresAssumption`).

**VideoPipeline with RtspSource** (any ids, connections, queue size and times). `PipelineInv`:
`CapturesAreHeld`, only the last capture can be open, close() releases what it found installed and the
thread what it opened after that; `ReportIsLast`, the last report is read after the source is closed and saved last;
`BooksAgree`, what is owed an event is active and not finalized, and what is being finalized is active;
`EpochsInOrder`, epochs do not decrease on their way from the decoder over the queue to the
tracks; `SeenIsKnown`, what was observed within the time-out has a track that knows it, or is remembered
as completed for as long.
`HandedOverOnce` and `CleanClose` are consequences, `NoSecondEvent` and
`EpochsNeverMix` follow step by step.

**FinalizationOutbox** (any finite set of tracks with any times, any
capacities, number of processes and faults). `AcceptedIsKept` is about the directory, the
disk, the pass and the threads that outlive their callers at once. `EntryIsSafe` says
of each entry that it is on disk once its stage has returned, unless its flush failed;
`RemovedIsDelivered` that only delivered entries are removed, also late;
`PassIsOrdered` that the pass leaves behind only what is published and works on the
oldest of the rest, from which `NoOvertaking` follows. That a set of times has a least one is
well-foundedness of the natural numbers (`HasLeast`).

### Shared inference

Any cameras, calls and images per call, any limits that the configuration admits: a batch is no
larger than the frames of one call may be, the provider's breaker needs no more cameras than there can be, and the attempts suffice to halve a
full batch down to two single images, `2 * bit_length(BatchSize - 1) + 1`, as `validate_batch_capacity`
in `config.py` demands (`AttemptsAssumption`). The invariant `SharedInv` is the conjunction of

* `QueueInv`: `WaitersAreSound` and `TurnsAreSound` (who waits is a queued call of that camera with images left,
  once; who has a turn has somebody waiting), `CountsAreTrue` (counts are the numbers of queued calls) and
  `CallIsSound` (a result that is there was found in its own image, and none is there of an image that was not taken yet);
* `InFlight`: an image on the device is there once, its call was not replaced by a new one of the same
  connection, and its result is missing. So a result that comes after its call ended
  goes nowhere, and one that comes in time fills its own place: `AnswersAreOwn`;
* `Admission`: the connections with a reservation are within the limits. Since
  queued calls are among them (`CountsAreTrue`), one that has its payload finds room: `AdmittedIsQueued`;
* `TakesTurns`: if a batch is of several cameras, its first two images are of two. That is what is left of the
  camera turns in the finished batch, and what the next part needs;
* `RunIsSound` and `PoisonInv`: while one camera sends bad images and the provider works, a batch that has a good image has
  one among its first two, and either some image was recognized already or that one `Approaches`: it lies in the
  piece to be tried next, or right after the single bad image before it, and the attempts used plus the
  halvings its piece still needs (`Levels`) stay within the budget. So a batch is
  given up with nothing recognized only if all of it is bad, the failures that are confirmed name the bad
  camera only, and the provider's breaker, which counts the cameras of batches that failed as a whole, never
  collects a second camera: `PoisonIsContained`.

`FairTurns` is an action property of the batch that is taken. While `_pop_batch_locked` goes round,
`InOrder` relates the batch made so far and the line to the cameras that had a turn
when it began: nobody was served twice before all were served once, and those not served
yet stand before those who were. `PopBatchKeeps` carries it through the loop, and
`InOrderIsFair` reads the places in the line from it.

What the queue does with a call is written as recursive functions (`Without`, `PopBatch`, `BitLength`). That such
a function exists and satisfies its equation is proved from well-foundedness: approximations defined up to n
agree and extend, so that there is no least n without one (`PartialExists`,
`SuccessionExists`).

### Only model-checked

Every liveness property, and only those: TLAPS has no ENABLED, so fairness is
out of its reach. The type
invariants of CameraSupervisor and VehicleIdentities are proved as conjuncts of the invariants above
(`Shape`, `IdentityTypeOK`) and not listed. Type invariants do not appear in the configurations where the
other properties are the ones that say something.

## 6. What each property is sensitive to

For every property of a passing run, a slip in the code that TLC finds with that
property, under the run's own configuration. The slip replaces the definition in
the second column.

| Property | Run | Definition | Slip |
| --- | --- | --- | --- |
| `EffectsWithinBudget` | `Services` | `MarkedAttempts` (ActionExecution) | every failure, not only a deferral, gives its attempt back (`BugRefundAnyFailure`) |
| `ResultsAreDurable` | `Services` | `Skippable` (ActionExecution) | a denied worker skips on any FAILED document (`BugTerminalIsFailed`) |
| `LiveJobsAreAttended` | `Services` | `Saved` (ModelTraining) | a save does not ask whether the writer saw the current version (`BugSaved`) |
| `OneActsAtATime` | `Services` | `ClaimWrite` (ActionExecution) | a reclaim does not renew updatedAt (`BugClaimKeepsAge`) |
| `AbandonedIsRetried` | `Services` | `Reclaimable` (ActionExecution) | stale RUNNING documents are not reclaimed (`BugReclaimFailedOnly`) |
| `OnlyCancellationOrphans` | `Services` | `Failed` (CircuitBreaker) | failed() does not clear probe_in_flight (`BugFailedKeepsProbe`) |
| `OpenIsProbedUnlessOrphaned` | `Services` | `Reject` (CircuitBreaker) | a rejected call renews opened_at (`BugReject`) |
| `ExpiredAreDeleted` | `Services` | `LeaseReclaimable` (Retention) | only failed removals are claimed again, not leases that went stale (`BugLeaseReclaimable`) |
| `SubmissionsEnd` | `Services` | `Interrupted` (ModelTraining) | a restart fails queued runs only, not those in submission (`BugInterrupted`) |
| `AcceptedIsKept` | `Delivery` | `Synced` (FinalizationOutbox) | no fsync of the directory after the rename (`BugNoDirectorySync`) |
| `GapsAreHonest` | `Delivery` | `MarkGap` (RealtimeHub) | a second overflow forgets the count of the first (`BugMarkGap`) |
| `NoOvertaking` | `Delivery` | `Oldest` (FinalizationOutbox) | entries are delivered newest first (`BugNewestFirst`) |
| `AcceptedIsPublished` | `Delivery` | `Deferred` (FinalizationOutbox) | a failed delivery ends the task instead of waiting (`BugDeferStopsTask`) |
| `EverythingSettles` | `Delivery` | `NextCursor` (EventWorker) | the claim cursor does not return to the start (`BugCursorNeverWraps`) |
| `SubscriptionsEnd` | `Delivery` | `ShutClient` (RealtimeHub) | the sentinel is only put into a queue that is not empty (`BugShutClient`) |
| `EvidenceIsOwned` | `Records` | `Linkable` (VehicleIdentities) | an event is linked whatever its vehicleId is (`BugLinkable`) |
| `SettledIsHandled` | `Records` | `Acknowledged` (EventWorker) | the whole batch is acknowledged (`BugAckBatch`) |
| `BatchKeepsCameraOrder` | `Records` | `Group` (EventWorker) | a failure skips the message only and goes on with its camera (`BugFailedMessageOnly`) |
| `NoOrphanObjects` | `Records` | `MediaReady` (Retention) | an event is ready to be deleted while a removal is under way (`BugMediaReady`) |
| `PinnedEventStays` | `Records` | `EventPinned` (Retention) | samples whose export failed do not pin (`BugEventPinned`) |
| `ExportedIsInArtifact` | `Records` | `Markable` (Retention) | mark_exported does not ask whose claim the sample is under (`BugMarkable`) |
| `ReviewsAreAudited` | `Records` | `Undelivered` (DatasetReview) | only the latest revision's audit entry is loaded at start (`BugUndelivered`) |
| `CompletedIsOwn` | `Records` | `TargetIsFree` (DatasetReview) | only a RUNNING job blocks its target, a QUEUED one does not (`BugTargetIsFree`) |
| `RulesAreFresh` | `Records` | `Expiry` (EventPolicy) | the expiry is reckoned from after the load (`BugExpiry`) |
| `DeliverySpec` | `Records` | `Acknowledged` (EventWorker) | the whole batch is acknowledged (`BugAckBatch`) |
| `OneProcess` | `CameraSupervisor` | `Startable` (CameraSupervisor) | the start loop does not look whether the camera has a worker (`BugStartableAgain`) |
| `InferenceStartsAlone` | `CameraSupervisor` | `StopAll` (CameraSupervisor) | stop_all clears `_active` first and then stops what is in it (`BugStopAllForgotten`) |
| `StatusIsTrue` | `CameraSupervisor` | `AwaitStop` (CameraSupervisor) | stop() returns before the process is gone (`BugStopReturnsEarly`) |
| `BackoffStartsOver` | `CameraSupervisor` | `Stable` (CameraSupervisor) | a running worker clears its failure count at every pass (`BugAllAreStable`) |
| `EverythingSettles` | `CameraSupervisor` | `Outdated` (CameraSupervisor) | a worker is outdated only when the listed revision is higher (a deleted camera never is) (`BugOnlyNewer`) |
| `AnswersAreOwn` | `SharedInference` | `Found` (SharedInference) | results are told apart by their index in a call, not by the call (`BugFoundAnywhere`) |
| `AdmittedIsQueued` | `SharedInference` | `Finish` (SharedInference) | a call that ends leaves the count of its camera (`BugFinishKeepsCount`) |
| `PoisonIsContained` | `SharedInference` | `FailedCameras` (SharedInference) | images that were given up untried count against their camera (`BugAllFailedCameras`) |
| `FairTurns` | `SharedInference` | `MarkReady` (SharedInference) | a served camera goes to the head of the line (`BugMarkReadyFirst`) |
| `EveryCallEnds` | `SharedInference` | `Finish` (SharedInference) | a call that ends takes its camera's turn although others of it wait (`BugFinishDropsTurn`) |
| `HandedOverOnce` | `VideoPipeline` | `HandedOver` (VideoPipeline) | a track that was handed over is handed over again (`BugHandedOver`) |
| `NoSecondEvent` | `VideoPipeline` | `StillCompleted` (VideoPipeline) | completed ids are forgotten as soon as time moves (`BugStillCompleted`) |
| `EpochsNeverMix` | `VideoPipeline` | `Observed` (VideoPipeline) | a frame is taken for the current epoch instead of its own (`BugObserved`) |
| `CleanClose` | `VideoPipeline` | `DecoderEnds` (RtspSource) | the decoder ends without releasing its capture (`BugDecoderEndsOpen`) |
| `StopEndsRun` | `VideoPipeline` | `DecoderEnds` (RtspSource) | a decoder that ends does not set the stop flag (`BugDecoderEndsQuietly`) |

## 7. Limits of the models

* One document, one host, one camera directory, one stream and one supervisor:
  the instances do not share state in the code either. The lock that two
  processes of one camera would need in the outbox is not modelled because
  `OneProcess` excludes them under one supervisor.
* MongoDB is taken to be linearizable per document (majority writes, reads from the
  primary), Redis to keep what it acknowledged, the file system to keep what
  was flushed.
* Clocks of workers are compared with ages of documents as if synchronous; skew
  would add to `lag`.
* One source, one client, one circuit stand for all: instances do not meet in the code. One event stands
  for all in `Retention` too; events meet there in the bounded scans, which `world.crowded` stands for. What
  pins the older events is left out, so a scan becomes crowded or clear at any time.
* MongoDB transactions are single steps. Where the code also runs without them, `Retention` models both
  modes and `VehicleIdentities` only the one with transactions.
* `PoisonIsContained` is stated for one camera that sends bad images. Several of them in one
  batch can use up the attempts before the good image is tried: with two bad cameras and one good
  one, a batch of four with the good image third is given up after five attempts with nothing recognized. That counts
  as a failure of the provider seen by three cameras, and repeated it opens the provider's breaker.
* Numeric code (inference, scoring, voting) and the wording of payloads are
  left out.
* The models cover the protocols, not the bulk of the repository: half of its lines are
  offline dataset tools, configuration, HTTP handlers and serialization, which have
  no interleavings to check.

## 8. What could come next

In the order of what it would add:

1. `EventWorker` composed with `ActionExecution` and `VehicleIdentities`, so that `refused` is derived from
   their states (section 4) instead of being a choice.
2. `VehicleIdentities` in the mode without transactions.
3. Credential rotation with the supervisor's restart of the rotated cameras.
