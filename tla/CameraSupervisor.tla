--------------------------- MODULE CameraSupervisor ---------------------------
(***************************************************************************)
(* The camera supervisor: it reads the enabled cameras, keeps one worker   *)
(* process for each and the shared inference service before them, and      *)
(* retries what exits.  Operators create, update and delete cameras and    *)
(* worker processes exit and report health while a pass is under way.      *)
(*                                                                         *)
(* A pass awaits MongoDB, the processes and the launcher; what it does     *)
(* between two awaits is one step.  Times are relative to the present:     *)
(* lag is the age of the `now` the pass read, restartAfter what is left of *)
(* a backoff.  The death of the supervisor itself is left to its service   *)
(* manager, which ends its children too.                                   *)
(***************************************************************************)
EXTENDS Integers, Sequences, FiniteSets

CONSTANTS
    Cameras,        \* camera ids
    Rank,           \* the position of an id in sorted order
    Capacities,     \* values maximum_active_workers may have
    MaxStarts,      \* maximum_starts_per_reconcile
    Backoff,        \* restart_backoff_seconds, in ticks
    BackoffMax,     \* restart_backoff_max_seconds
    Stability,      \* restart_stability_seconds
    MaxFailures,    \* bound: failures are counted until BackoffMax is reached
    MaxLag,         \* bound: ticks a pass can take after it read its clock
    MaxEdits,       \* bound: changes operators make
    MaxFaults       \* bound: failures of any kind

ASSUME CamerasAssumption == IsFiniteSet(Cameras)
ASSUME RankAssumption ==
    /\ Rank \in [Cameras -> Nat]
    /\ \A c, d \in Cameras : Rank[c] = Rank[d] => c = d
ASSUME LimitsAssumption ==
    /\ Capacities \subseteq Nat \ {0}
    /\ MaxStarts \in Nat \ {0}
    /\ MaxLag \in Nat /\ MaxEdits \in Nat /\ MaxFaults \in Nat
ASSUME TimesAssumption ==
    /\ Backoff \in Nat \ {0}
    /\ BackoffMax \in Nat /\ BackoffMax >= Backoff
    /\ Stability \in Nat \ {0}
ASSUME FailuresAssumption ==
    /\ MaxFailures \in Nat \ {0}
    /\ Backoff * 2^(MaxFailures - 1) >= BackoffMax

VARIABLES
    capacity,       \* maximum_active_workers
    doc,            \* cameras collection
    health,         \* status in camera_health
    workers,        \* live processes of each camera: the edition each runs
    inference,      \* the shared service: none, running or exited
    active,         \* _active: the revision and age of each managed worker
    restartAfter,   \* _restart_after
    failures,       \* _failure_counts
    service,        \* backoff, failures and age of the inference service
    step,           \* where the supervisor is
    todo,           \* cameras the current loop has still to come to
    desired,        \* the enabled cameras as the pass read them
    writing,        \* status writes under way
    left,           \* starts_remaining
    lag,            \* age of the pass's `now`
    edits,          \* changes so far, of MaxEdits; names editions
    faults          \* failures so far, of MaxFaults

config == <<capacity, doc, edits>>
world == <<config, inference, faults>>
books == <<active, restartAfter, failures, service>>
place == <<step, todo, desired, left, lag>>
vars == <<world, health, workers, books, place, writing>>
------------------------------------------------------------------------------
Due == -MaxLag          \* a restart time that has come for every clock reading
NoRestart == Due - 1    \* no entry in _restart_after
NoWorker == [revision |-> 0, age |-> 0]
NoCamera == [revision |-> 0, edition |-> 0, enabled |-> FALSE]

(* What a configuration contains is its edition; revision counts the changes *)
(* since its document was created, with revision 1.                          *)
Document == [revision : 0..(MaxEdits + 1), edition : 0..MaxEdits, enabled : BOOLEAN]

(* cams: whose status is being written (or, before that, whose document is   *)
(* read).  back: where the pass goes on.  renew: an enabled camera's worker  *)
(* was stopped, it starts again with clean books.                            *)
NoWrite == [cams |-> {}, status |-> "none", back |-> "waiting", renew |-> FALSE]

Steps == {"waiting", "listing", "checking", "stopped", "forgetting", "starting",
          "writing", "stopping", "closing", "down"}

TypeOK ==
    /\ capacity \in Capacities
    /\ doc \in [Cameras -> Document]
    /\ health \in [Cameras -> {"none", "CONNECTING", "ONLINE", "OFFLINE", "STOPPED"}]
    /\ workers \in [Cameras -> Seq(0..MaxEdits)]
    /\ inference \in {"none", "running", "exited"}
    /\ active \in [Cameras -> [revision : 0..(MaxEdits + 1), age : 0..(Stability + MaxLag)]]
    /\ restartAfter \in [Cameras -> NoRestart..BackoffMax]
    /\ failures \in [Cameras -> 0..MaxFailures]
    /\ service \in [restart : 0..BackoffMax, failures : 0..MaxFailures, age : 0..Stability]
    /\ step \in Steps
    /\ todo \subseteq Cameras
    /\ desired \in [Cameras -> Document]
    /\ writing \in [cams : SUBSET Cameras, status : {"none", "CONNECTING", "OFFLINE", "STOPPED"},
                    back : {"waiting", "checking", "starting"}, renew : BOOLEAN]
    /\ left \in 0..MaxStarts
    /\ lag \in 0..MaxLag
    /\ edits \in 0..MaxEdits
    /\ faults \in 0..MaxFaults

Init ==
    /\ capacity \in Capacities
    /\ \E S \in SUBSET Cameras :
          doc = [c \in Cameras |-> IF c \in S THEN [revision |-> 1, edition |-> 0, enabled |-> TRUE]
                                             ELSE NoCamera]
    /\ health = [c \in Cameras |-> "none"]
    /\ workers = [c \in Cameras |-> <<>>]
    /\ inference = "none"
    /\ active = [c \in Cameras |-> NoWorker]
    /\ restartAfter = [c \in Cameras |-> NoRestart]
    /\ failures = [c \in Cameras |-> 0]
    /\ service = [restart |-> 0, failures |-> 0, age |-> 0]
    /\ step = "waiting"
    /\ todo = {}
    /\ desired = [c \in Cameras |-> NoCamera]
    /\ writing = NoWrite
    /\ left = 0
    /\ lag = 0
    /\ edits = 0
    /\ faults = 0

Fault ==
    /\ faults < MaxFaults
    /\ faults' = faults + 1

Lesser(m, n) == IF m < n THEN m ELSE n

Managed == {c \in Cameras : active[c] # NoWorker}

Running(c) == workers[c] # <<>>

Enabled(d) == IF d.enabled THEN d ELSE NoCamera

Delay(n) == Lesser(Backoff * 2^(n - 1), BackoffMax)
------------------------------------------------------------------------------
(* Variants of the definitions below that a slip in the code would give.     *)
BugOnlyNewer(c) == desired[c].revision > active[c].revision

BugStopReturnsEarly(c) == UNCHANGED <<workers, health>>

BugAllAreStable(c) == TRUE

BugStartableAgain == {c \in todo : restartAfter[c] <= -lag}

BugStopAllForgotten(next) ==
    /\ active' = [c \in Cameras |-> NoWorker]
    /\ step' = next
    /\ todo' = {}
    /\ UNCHANGED <<world, health, workers, failures, service, desired, left, lag, writing>>

(* camera is None or camera.revision != managed.revision                     *)
Outdated(c) == desired[c].revision # active[c].revision

(* The worker has run for the stability interval when the pass began.        *)
Stable(c) == active[c].age - lag >= Stability
------------------------------------------------------------------------------
(* Operators and worker processes.                                           *)

Edit(c, d) ==
    /\ edits < MaxEdits
    /\ edits' = edits + 1
    /\ doc' = [doc EXCEPT ![c] = d]
    /\ UNCHANGED <<capacity, inference, faults, workers, books, place, writing>>

(* A camera is created with revision 1, also one that had been deleted.      *)
Create(c) ==
    /\ doc[c] = NoCamera
    /\ \E on \in BOOLEAN : Edit(c, [revision |-> 1, edition |-> edits + 1, enabled |-> on])
    /\ UNCHANGED health

(* update and set_enabled, once replace has found the expected revision.     *)
Update(c) ==
    /\ doc[c] # NoCamera
    /\ \E on \in BOOLEAN :
          Edit(c, [revision |-> doc[c].revision + 1, edition |-> edits + 1, enabled |-> on])
    /\ UNCHANGED health

(* delete removes the document, then the health document, which can fail;    *)
(* as no decision is taken on the health document the two are one step.      *)
Delete(c) ==
    /\ doc[c] # NoCamera
    /\ Edit(c, NoCamera)
    /\ \/ health' = [health EXCEPT ![c] = "none"]
       \/ health' = health

(* A running worker writes its own health: ONLINE stands for what it sees.   *)
WorkerReports(c) ==
    /\ Running(c)
    /\ health[c] # "ONLINE"
    /\ health' = [health EXCEPT ![c] = "ONLINE"]
    /\ UNCHANGED <<world, workers, books, place, writing>>

(* The process of c ends.  One that can closes its source and writes a last  *)
(* STOPPED, one that is killed does not.                                     *)
Ends(c) ==
    /\ workers' = [workers EXCEPT ![c] = <<>>]
    /\ \/ health' = health
       \/ Running(c) /\ health' = [health EXCEPT ![c] = "STOPPED"]

WorkerExits(c) ==
    /\ Running(c)
    /\ Fault
    /\ Ends(c)
    /\ UNCHANGED <<config, inference, books, place, writing>>

InferenceExits ==
    /\ inference = "running"
    /\ Fault
    /\ inference' = "exited"
    /\ UNCHANGED <<config, health, workers, books, place, writing>>

Passing == step \notin {"waiting", "listing", "stopping", "closing", "down"}

Tick ==
    /\ step # "down"
    /\ Passing => lag < MaxLag
    /\ lag' = IF Passing THEN lag + 1 ELSE 0
    /\ restartAfter' = [c \in Cameras |-> IF restartAfter[c] > Due THEN restartAfter[c] - 1
                                                                 ELSE restartAfter[c]]
    /\ active' = [c \in Cameras |->
                     IF c \in Managed
                     THEN [active[c] EXCEPT !.age = Lesser(@ + 1, Stability + MaxLag)]
                     ELSE NoWorker]
    /\ service' = [service EXCEPT !.restart = IF @ > 0 THEN @ - 1 ELSE 0,
                                  !.age = Lesser(@ + 1, Stability)]
    /\ UNCHANGED <<world, health, workers, failures, step, todo, desired, left, writing>>
------------------------------------------------------------------------------
(* _schedule_failure, with the pass's own `now`.                             *)
ScheduleFailure(c) ==
    LET n == Lesser(failures[c] + 1, MaxFailures)
    IN  /\ failures' = [failures EXCEPT ![c] = n]
        /\ restartAfter' = [restartAfter EXCEPT ![c] = Delay(n) - lag]

ServiceFailed ==
    LET n == Lesser(service.failures + 1, MaxFailures)
    IN  service' = [restart |-> Delay(n), failures |-> n, age |-> 0]

(* The pass is over or has failed; the next one starts from the beginning.   *)
EndPass ==
    /\ step' = "waiting"
    /\ todo' = {}
    /\ desired' = [c \in Cameras |-> NoCamera]
    /\ left' = 0
    /\ lag' = 0
    /\ writing' = NoWrite

(* handle.stop(): terminates, after a while kills, and waits for the end.    *)
AwaitStop(c) == Ends(c)

(* _ensure_inference_service: the service runs.                              *)
InferenceRuns ==
    /\ step = "waiting"
    /\ inference = "running"
    /\ service' = [service EXCEPT !.failures = IF service.age >= Stability THEN 0 ELSE @]
    /\ step' = "listing"
    /\ UNCHANGED <<world, health, workers, active, restartAfter, failures, todo, desired, left,
                   lag, writing>>

(* stop_all forgets every worker, then stops them.                           *)
StopAll(next) ==
    /\ active' = [c \in Cameras |-> NoWorker]
    /\ step' = next
    /\ todo' = Managed
    /\ UNCHANGED <<world, health, workers, failures, service, desired, left, lag, writing>>

(* _ensure_inference_service: the service has exited, its clients go too.    *)
InferenceLost ==
    /\ step = "waiting"
    /\ inference = "exited"
    /\ StopAll("stopping")
    /\ restartAfter' = [c \in Cameras |-> IF c \in Managed THEN Due ELSE restartAfter[c]]

StartInference ==
    /\ step = "waiting"
    /\ inference = "none"
    /\ service.restart = 0
    /\ \/ /\ inference' = "running"
          /\ service' = [service EXCEPT !.age = 0]
          /\ step' = "listing"
          /\ faults' = faults
       \/ /\ Fault
          /\ ServiceFailed
          /\ UNCHANGED <<inference, step>>
    /\ UNCHANGED <<config, health, workers, active, restartAfter, failures, todo, desired,
                   left, lag, writing>>

(* The workers stop side by side; each writes its status when it has.        *)
StopOne(c) ==
    /\ step \in {"stopping", "closing"}
    /\ c \in todo
    /\ AwaitStop(c)
    /\ todo' = todo \ {c}
    /\ writing' = [writing EXCEPT !.cams = @ \cup {c}, !.status = "STOPPED"]
    /\ UNCHANGED <<world, books, step, desired, left, lag>>

(* _write_status of one of them; a failure is logged.                        *)
WriteStoppedOne(c) ==
    /\ step \in {"stopping", "closing"}
    /\ c \in writing.cams
    /\ \/ health' = [health EXCEPT ![c] = "STOPPED"] /\ faults' = faults
       \/ health' = health /\ Fault
    /\ writing' = [writing EXCEPT !.cams = @ \ {c}]
    /\ UNCHANGED <<config, inference, workers, books, place>>

InferenceCleanup ==
    /\ step = "stopping"
    /\ todo = {} /\ writing.cams = {}
    /\ inference' = "none"
    /\ ServiceFailed
    /\ EndPass
    /\ UNCHANGED <<config, faults, health, workers, active, restartAfter, failures>>

(* The stop event: run() ends with stop_all and close.                       *)
Shutdown ==
    /\ step = "waiting"
    /\ StopAll("closing")
    /\ UNCHANGED restartAfter

Close ==
    /\ step = "closing"
    /\ todo = {} /\ writing.cams = {}
    /\ inference' = "none"
    /\ step' = "down"
    /\ writing' = NoWrite
    /\ UNCHANGED <<config, faults, health, workers, books, todo, desired, left, lag>>
------------------------------------------------------------------------------
(* reconcile_once                                                            *)

(* Cameras that are not desired any more lose their backoff.                 *)
List ==
    /\ step = "listing"
    /\ desired' = [c \in Cameras |-> Enabled(doc[c])]
    /\ LET forgotten == {c \in Cameras : restartAfter[c] # NoRestart /\ desired'[c] = NoCamera}
       IN  /\ restartAfter' = [c \in Cameras |->
                                  IF c \in forgotten THEN NoRestart ELSE restartAfter[c]]
           /\ failures' = [c \in Cameras |-> IF c \in forgotten THEN 0 ELSE failures[c]]
    /\ step' = "checking"
    /\ todo' = Managed
    /\ lag' = 0
    /\ UNCHANGED <<world, health, workers, active, service, left, writing>>

Check(c) ==
    /\ step = "checking"
    /\ c \in todo
    /\ todo' = todo \ {c}
    /\ UNCHANGED <<world, service, desired, left, lag>>

(* Awaits the end of the process, then reads the document again.             *)
StopOutdated(c) ==
    /\ Check(c)
    /\ Outdated(c)
    /\ AwaitStop(c)
    /\ active' = [active EXCEPT ![c] = NoWorker]
    /\ step' = "stopped"
    /\ writing' = [NoWrite EXCEPT !.cams = {c}, !.back = "checking"]
    /\ UNCHANGED <<restartAfter, failures>>

FoundExited(c) ==
    /\ Check(c)
    /\ ~Outdated(c)
    /\ ~Running(c)
    /\ active' = [active EXCEPT ![c] = NoWorker]
    /\ ScheduleFailure(c)
    /\ step' = "writing"
    /\ writing' = [NoWrite EXCEPT !.cams = {c}, !.status = "OFFLINE", !.back = "checking"]
    /\ UNCHANGED <<health, workers>>

FoundRunning(c) ==
    /\ Check(c)
    /\ ~Outdated(c)
    /\ Running(c)
    /\ failures' = IF Stable(c) THEN [failures EXCEPT ![c] = 0] ELSE failures
    /\ UNCHANGED <<health, workers, active, restartAfter, step, writing>>

(* persisted = await self._cameras.get(camera_id)                            *)
ReadPersisted(c) ==
    /\ step = "stopped"
    /\ c \in writing.cams
    /\ IF doc[c] = NoCamera THEN /\ step' = "forgetting"
                                 /\ writing' = writing
       ELSE /\ step' = "writing"
            /\ writing' = [writing EXCEPT !.status = "STOPPED", !.renew = doc[c].enabled]
    /\ UNCHANGED <<world, health, workers, books, todo, desired, left, lag>>

Forget(c) ==
    /\ step = "forgetting"
    /\ c \in writing.cams
    /\ health' = [health EXCEPT ![c] = "none"]
    /\ restartAfter' = [restartAfter EXCEPT ![c] = NoRestart]
    /\ failures' = [failures EXCEPT ![c] = 0]
    /\ step' = "checking"
    /\ writing' = NoWrite
    /\ UNCHANGED <<world, workers, active, service, todo, desired, left, lag>>

(* _write_status: the document is read and replaced, or created.             *)
WriteStatus(c) ==
    /\ step = "writing"
    /\ c \in writing.cams
    /\ health' = [health EXCEPT ![c] = writing.status]
    /\ IF writing.renew
       THEN /\ restartAfter' = [restartAfter EXCEPT ![c] = Due]
            /\ failures' = [failures EXCEPT ![c] = 0]
       ELSE UNCHANGED <<restartAfter, failures>>
    /\ step' = writing.back
    /\ writing' = NoWrite
    /\ UNCHANGED <<world, workers, active, service, todo, desired, left, lag>>

StartsRemaining ==
    LET room == capacity - Cardinality(Managed)
    IN  Lesser(MaxStarts, IF room > 0 THEN room ELSE 0)

BeginStarts ==
    /\ step = "checking"
    /\ todo = {}
    /\ left' = StartsRemaining
    /\ todo' = {c \in Cameras : desired[c] # NoCamera}
    /\ step' = "starting"
    /\ UNCHANGED <<world, health, workers, books, desired, lag, writing>>

Startable == {c \in todo \ Managed : restartAfter[c] <= -lag}

Start(c) ==
    /\ step = "starting"
    /\ left > 0
    /\ c \in Startable
    /\ \A d \in Startable : Rank[c] <= Rank[d]
    /\ todo' = {d \in todo : Rank[c] < Rank[d]}
    /\ step' = "writing"

(* The worker is given the document the pass has listed.                     *)
StartWorker(c) ==
    /\ Start(c)
    /\ workers' = [workers EXCEPT ![c] = Append(@, desired[c].edition)]
    /\ active' = [active EXCEPT ![c] = [revision |-> desired[c].revision, age |-> lag]]
    /\ restartAfter' = [restartAfter EXCEPT ![c] = NoRestart]
    /\ left' = left - 1
    /\ writing' = [NoWrite EXCEPT !.cams = {c}, !.status = "CONNECTING", !.back = "starting"]
    /\ UNCHANGED <<world, health, failures, service, desired, lag>>

StartFails(c) ==
    /\ Start(c)
    /\ Fault
    /\ ScheduleFailure(c)
    /\ writing' = [NoWrite EXCEPT !.cams = {c}, !.status = "OFFLINE", !.back = "starting"]
    /\ UNCHANGED <<config, inference, health, workers, active, service, desired, left, lag>>

Finish ==
    /\ step = "starting"
    /\ left = 0 \/ Startable = {}
    /\ EndPass
    /\ UNCHANGED <<world, health, workers, books>>

(* MongoDB fails an await of the pass: PersistenceError leaves it.  A write  *)
(* may have been applied.                                                    *)
PassFails ==
    /\ step \in {"listing", "stopped", "forgetting", "writing"}
    /\ Fault
    /\ \/ health' = health
       \/ \E c \in writing.cams :
             \/ step = "writing" /\ health' = [health EXCEPT ![c] = writing.status]
             \/ step = "forgetting" /\ health' = [health EXCEPT ![c] = "none"]
    /\ EndPass
    /\ UNCHANGED <<config, inference, workers, books>>
------------------------------------------------------------------------------
Supervise(c) ==
    \/ StopOne(c)
    \/ WriteStoppedOne(c)
    \/ StopOutdated(c)
    \/ FoundExited(c)
    \/ FoundRunning(c)
    \/ ReadPersisted(c)
    \/ Forget(c)
    \/ WriteStatus(c)
    \/ StartWorker(c)

Pass ==
    \/ InferenceRuns
    \/ InferenceLost
    \/ StartInference
    \/ InferenceCleanup
    \/ Close
    \/ List
    \/ BeginStarts
    \/ Finish
    \/ \E c \in Cameras : Supervise(c)

Next ==
    \/ Pass
    \/ Shutdown
    \/ PassFails
    \/ Tick
    \/ InferenceExits
    \/ \E c \in Cameras : \/ StartFails(c)
                          \/ Create(c)
                          \/ Update(c)
                          \/ Delete(c)
                          \/ WorkerReports(c)
                          \/ WorkerExits(c)

Spec == Init /\ [][Next]_vars

(* The loop goes on after every failure, awaits return and time passes.      *)
(* Edits and failures are bounded; nobody has to stop the supervisor.        *)
FairSpec == Spec /\ WF_vars(Pass) /\ WF_vars(Tick)
------------------------------------------------------------------------------
(* Two workers of one camera would share its outbox and its health document: *)
(* whatever exits, changes or fails in the middle of a pass, a worker is     *)
(* started only when the last one of its camera is gone.                     *)
OneProcess == \A c \in Cameras : Len(workers[c]) <= 1

(* A dead inference service is replaced only when its clients are gone       *)
(* (CAMERA_PIPELINE.md: stops dependent workers, restarts the daemon, and    *)
(* only then recreates workers).                                             *)
InferenceStartsAlone ==
    [][(inference # "running" /\ inference' = "running")
          => \A c \in Cameras : ~Running(c)]_vars

(* OFFLINE and STOPPED are written when the camera has no process: no later  *)
(* report of a worker that is still running contradicts them.                *)
StatusIsTrue ==
    [][\A c \in Cameras :
           (health'[c] # health[c] /\ health'[c] \in {"OFFLINE", "STOPPED"})
               => workers'[c] = <<>>]_vars

(* The pass has stopped the worker of c, whose configuration has changed.    *)
Replaced(c) == c \in writing.cams /\ writing.status # "OFFLINE"

(* A crash loop cannot run at the shortest delay: the backoff of a camera    *)
(* starts over only when its worker has been up for the stability interval,  *)
(* or when the camera is disabled, deleted or changed.                       *)
BackoffStartsOver ==
    [][\A c \in Cameras : failures'[c] < failures[c] =>
           \/ Running(c) /\ active[c].age >= Stability
           \/ ~doc[c].enabled
           \/ Replaced(c)]_vars

(* Once operators and failures leave the system alone it settles: a camera   *)
(* has a worker exactly when it is enabled, with its revision, unless the    *)
(* capacity is taken.                                                        *)
Settled(c) ==
    IF ~doc[c].enabled THEN ~Running(c)
    ELSE \/ Running(c) /\ active[c].revision = doc[c].revision
         \/ Cardinality(Managed) = capacity

EverythingSettles == <>[](step = "down" \/ \A c \in Cameras : Settled(c))

(* CAMERA_PIPELINE.md: delete stops the child, an update restarts it: in the *)
(* end no worker runs a configuration that is gone.  A camera that is        *)
(* deleted and created again between two passes has the same revision.       *)
RunsWhatIsConfigured ==
    <>[](\A c \in Cameras : Running(c) => /\ doc[c] # NoCamera
                                         /\ Head(workers[c]) = doc[c].edition)
==============================================================================
