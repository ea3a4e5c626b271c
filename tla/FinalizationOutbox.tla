-------------------------- MODULE FinalizationOutbox --------------------------
(***************************************************************************)
(* The durable outbox of one camera worker: TrackEventFinalizer stages a   *)
(* finalized track, the filesystem outbox keeps it in a directory and its  *)
(* background task delivers media and event and removes the entry.         *)
(*                                                                         *)
(* Files are modelled by what a crash leaves of them.  dir is the          *)
(* directory as the process sees it; disk is what the last directory       *)
(* fsync made safe from a power failure.  An entry's bytes are the boot    *)
(* that encoded them: a process encodes an event once (_pending_outbox     *)
(* keeps the unit for retries) and another process, replaying the same     *)
(* video, encodes it again with another createdAt.                         *)
(***************************************************************************)
EXTENDS Integers, FiniteSets

CONSTANTS
    Events,             \* ids of the events the camera can produce
    NoEvent,            \* no path
    OccurredAt,         \* their occurredAt, with the digest as tie-break
    Capacities,         \* values finalization_outbox.maximum_entries may have
    MaxBoots,           \* bound: starts of the camera worker
    MaxOutboxFaults     \* bound: failures of any kind

ASSUME EventsAreFinite == IsFiniteSet(Events)
ASSUME NoEventAssumption == NoEvent \notin Events
ASSUME OrderAssumption ==
    /\ OccurredAt \in [Events -> Nat]
    /\ \A e, f \in Events : OccurredAt[e] = OccurredAt[f] => e = f
ASSUME BoundsAssumption ==
    /\ Capacities \subseteq Nat \ {0}
    /\ MaxBoots \in Nat \ {0}
    /\ MaxOutboxFaults \in Nat

VARIABLES
    dir,        \* entry files the process can see
    disk,       \* entry files a power failure cannot take back
    boot,       \* number of the running (or last) process
    capacity,   \* maximum_entries, as configured
    mode,       \* what the process is doing, see Modes
    fatal,      \* _fatal_error is set
    task,       \* the delivery task: where it is, and the pass it is in
    late,       \* removals whose caller gave up but whose thread still runs
    tracks,     \* the camera's tracks, seen from the finalizer
    accepted,   \* events whose stage() returned: their tracks are FINALIZED
    media,      \* events whose JPEGs are stored
    published,  \* events handed to the publisher at least once
    unflushed,  \* events whose directory fsync failed while staging
    outboxFaults    \* failures so far, of MaxOutboxFaults

files == <<dir, disk>>
outside == <<media, published>>
outboxVars == <<dir, disk, boot, capacity, mode, fatal, task, late, tracks, accepted,
          media, published, unflushed, outboxFaults>>
------------------------------------------------------------------------------
Absent == 0
Bad == -1       \* bytes that fail the integrity checks

Bytes == {Absent, Bad} \cup 1..MaxBoots

(* "run": frames are processed.  "cancelled": the pipeline was cancelled     *)
(* while a stage was in flight, which is shielded.  "finalizing": the source *)
(* ended or the cancellation got through, _finalize_all stages what is left. *)
(* "closing": a stage failed, nothing is staged any more.  "drain": close()  *)
(* runs its last pass.  "exit": the process only waits for its threads.      *)
Modes == {"down", "run", "cancelled", "finalizing", "closing", "drain", "exit"}

TaskPC == {"waiting", "scanning", "loading", "storing", "publishing", "removing", "dead"}

(* todo and cur: what is left of the paths of this pass; pass: all of them.  *)
IdleTask == [pc |-> "waiting", todo |-> {}, pass |-> {}, cur |-> NoEvent, loaded |-> Absent]

OutboxTypeOK ==
    /\ dir \in [Events -> Bytes]
    /\ disk \in [Events -> Bytes]
    /\ boot \in 0..MaxBoots
    /\ capacity \in Capacities
    /\ mode \in Modes
    /\ fatal \in BOOLEAN
    /\ task \in [pc : TaskPC, todo : SUBSET Events, pass : SUBSET Events,
                 cur : Events \cup {NoEvent}, loaded : Bytes]
    /\ late \subseteq Events \X Bytes
    /\ tracks \in [Events -> {"active", "staging", "replaced", "finalized"}]
    /\ accepted \subseteq Events
    /\ media \subseteq Events
    /\ published \subseteq Events
    /\ unflushed \subseteq Events
    /\ outboxFaults \in 0..MaxOutboxFaults

OutboxInit ==
    /\ dir = [e \in Events |-> Absent]
    /\ disk = [e \in Events |-> Absent]
    /\ boot = 0
    /\ capacity \in Capacities
    /\ mode = "down"
    /\ fatal = FALSE
    /\ task = IdleTask
    /\ late = {}
    /\ tracks = [e \in Events |-> "active"]
    /\ accepted = {}
    /\ media = {}
    /\ published = {}
    /\ unflushed = {}
    /\ outboxFaults = 0

Entries == {e \in Events : dir[e] # Absent}

Staging == {e \in Events : tracks[e] \in {"staging", "replaced"}}

(* .lock is held by the stage that is between its scan and its last fsync;   *)
(* a scan or a removal is one step under the same lock.                      *)
Unlocked == \A e \in Events : tracks[e] # "replaced"

OutboxFault ==
    /\ outboxFaults < MaxOutboxFaults
    /\ outboxFaults' = outboxFaults + 1
------------------------------------------------------------------------------
(* Variants of the definitions below that a slip in the code would give.     *)
BugNewestFirst(S) == CHOOSE e \in S : \A f \in S : OccurredAt[e] >= OccurredAt[f]

BugNoDirectorySync(d) == disk

BugDeferStopsTask == [IdleTask EXCEPT !.pc = "dead"]

Oldest(S) == CHOOSE e \in S : \A f \in S : OccurredAt[e] <= OccurredAt[f]

(* _fsync_directory: what is on disk once it returned.                       *)
Synced(d) == d
------------------------------------------------------------------------------
(* The process: start, the end of the pipeline, close, and the ways to die.  *)

OverCapacity == Cardinality(Entries) > capacity

(* _initialize_sync flushes the directory, then refuses to start over the    *)
(* capacity or on a bad entry.                                               *)
Initializes ==
    /\ mode = "down"
    /\ boot < MaxBoots
    /\ disk' = Synced(dir)

Startable == ~OverCapacity /\ \A e \in Events : dir[e] # Bad

Start ==
    /\ Initializes
    /\ Startable
    /\ boot' = boot + 1
    /\ mode' = "run"
    /\ fatal' = FALSE
    /\ task' = IdleTask
    /\ tracks' = [e \in Events |-> "active"]
    /\ UNCHANGED <<dir, capacity, late, accepted, outside, unflushed, outboxFaults>>

StartRefused ==
    /\ Initializes
    /\ ~Startable
    /\ UNCHANGED <<dir, boot, capacity, mode, fatal, task, late, tracks, accepted, outside,
                   unflushed, outboxFaults>>

(* An operator changes maximum_entries: the next process starts with it.     *)
Reconfigure ==
    /\ mode = "down"
    /\ capacity' \in Capacities
    /\ UNCHANGED <<files, boot, mode, fatal, task, late, tracks, accepted, outside, unflushed,
                   outboxFaults>>

(* The source ends, or the worker is cancelled: frames() is left and         *)
(* _finalize_all runs, at once or after the shielded stage.                  *)
Stop ==
    /\ mode = "run"
    /\ mode' = IF Staging = {} THEN "finalizing" ELSE "cancelled"
    /\ UNCHANGED <<files, boot, capacity, fatal, task, late, tracks, accepted, outside,
                   unflushed, outboxFaults>>

(* Whoever gives up on a removal that has reached its thread leaves the      *)
(* thread running.                                                           *)
Abandon ==
    \/ late' = late
    \/ /\ task.pc = "removing"
       /\ late' = late \cup {<<task.cur, task.loaded>>}

(* close(): the delivery task is cancelled, then one pass more is tried.     *)
Close ==
    /\ mode \in {"finalizing", "closing"}
    /\ Staging = {}
    /\ Abandon
    /\ IF fatal THEN /\ mode' = "exit"
                     /\ task' = IdleTask
       ELSE /\ mode' = "drain"
            /\ task' = [IdleTask EXCEPT !.pc = "scanning"]
    /\ UNCHANGED <<files, boot, capacity, fatal, tracks, accepted, outside, unflushed, outboxFaults>>

DrainDeadline ==
    /\ mode = "drain"
    /\ Abandon
    /\ mode' = "exit"
    /\ task' = IdleTask
    /\ UNCHANGED <<files, boot, capacity, fatal, tracks, accepted, outside, unflushed, outboxFaults>>

Exit ==
    /\ mode = "exit"
    /\ late = {}
    /\ mode' = "down"
    /\ UNCHANGED <<files, boot, capacity, fatal, task, late, tracks, accepted, outside,
                   unflushed, outboxFaults>>

Die ==
    /\ mode' = "down"
    /\ fatal' = FALSE
    /\ task' = IdleTask
    /\ late' = {}
    /\ tracks' = [e \in Events |-> "active"]
    /\ UNCHANGED <<boot, capacity, accepted, outside, unflushed>>

OutboxCrash ==
    /\ mode # "down"
    /\ OutboxFault
    /\ Die
    /\ UNCHANGED files

(* The node loses power: each entry is as on disk or as last written.        *)
PowerLoss ==
    /\ OutboxFault
    /\ Die
    /\ \E S \in SUBSET Events :
          dir' = [e \in Events |-> IF e \in S THEN dir[e] ELSE disk[e]]
    /\ disk' = dir'

(* An entry's bytes change without the outbox writing them.                  *)
Tamper(e) ==
    /\ dir[e] \notin {Absent, Bad}
    /\ OutboxFault
    /\ dir' = [dir EXCEPT ![e] = Bad]
    /\ disk' = [disk EXCEPT ![e] = Bad]
    /\ UNCHANGED <<boot, capacity, mode, fatal, task, late, tracks, accepted, outside, unflushed>>
------------------------------------------------------------------------------
(* The finalizer and stage().                                                *)

StageBegin(e) ==
    /\ mode \in {"run", "finalizing"}
    /\ tracks[e] = "active"
    /\ Staging = {}
    /\ ~fatal
    /\ tracks' = [tracks EXCEPT ![e] = "staging"]
    /\ UNCHANGED <<files, boot, capacity, mode, fatal, task, late, accepted, outside,
                   unflushed, outboxFaults>>

(* The track of a stage that fails stays active.  The exception ends the     *)
(* pipeline without _finalize_all, unless the cancellation that came during  *)
(* the stage takes its place.                                                *)
StageFailed(e) ==
    /\ tracks' = [tracks EXCEPT ![e] = "active"]
    /\ mode' = IF mode = "cancelled" THEN "finalizing" ELSE "closing"
    /\ UNCHANGED <<boot, capacity, fatal, task, late, accepted, outside>>

(* mark_finalized() follows stage() even when the caller is cancelled.       *)
StageAccepted(e) ==
    /\ tracks' = [tracks EXCEPT ![e] = "finalized"]
    /\ accepted' = accepted \cup {e}
    /\ mode' = IF mode = "cancelled" THEN "finalizing" ELSE mode
    /\ UNCHANGED <<dir, boot, capacity, fatal, task, late, outside, unflushed, outboxFaults>>

(* stage() looks at _fatal_error first.                                      *)
StageRefused(e) ==
    /\ mode \in {"run", "finalizing"}
    /\ tracks[e] = "active"
    /\ Staging = {}
    /\ fatal
    /\ StageFailed(e)
    /\ UNCHANGED <<files, unflushed, outboxFaults>>

(* The same bytes are there already, from a stage that failed after its      *)
(* rename: success.                                                          *)
StageExisting(e) ==
    /\ tracks[e] = "staging"
    /\ dir[e] = boot
    /\ StageAccepted(e)
    /\ UNCHANGED disk

(* Other bytes are there, or the capacity is reached, or a write fails.      *)
StageConflict(e) ==
    /\ tracks[e] = "staging"
    /\ dir[e] \notin {Absent, boot}
    /\ StageFailed(e)
    /\ UNCHANGED <<files, unflushed, outboxFaults>>

StageFull(e) ==
    /\ tracks[e] = "staging"
    /\ dir[e] = Absent
    /\ Cardinality(Entries) >= capacity
    /\ StageFailed(e)
    /\ UNCHANGED <<files, unflushed, outboxFaults>>

StageError(e) ==
    /\ tracks[e] = "staging"
    /\ OutboxFault
    /\ StageFailed(e)
    /\ UNCHANGED <<files, unflushed>>

(* The temporary file is written, flushed and renamed.                       *)
StageReplace(e) ==
    /\ tracks[e] = "staging"
    /\ dir[e] = Absent
    /\ Cardinality(Entries) < capacity
    /\ dir' = [dir EXCEPT ![e] = boot]
    /\ tracks' = [tracks EXCEPT ![e] = "replaced"]
    /\ UNCHANGED <<disk, boot, capacity, mode, fatal, task, late, accepted, outside,
                   unflushed, outboxFaults>>

StageFlush(e) ==
    /\ tracks[e] = "replaced"
    /\ StageAccepted(e)
    /\ disk' = Synced(dir)

StageFlushError(e) ==
    /\ tracks[e] = "replaced"
    /\ OutboxFault
    /\ StageFailed(e)
    /\ unflushed' = unflushed \cup {e}
    /\ UNCHANGED files
------------------------------------------------------------------------------
(* The delivery task: _run, replay_once, _deliver.                           *)

Delivering == mode \notin {"down", "exit"}

taskOnly == <<boot, capacity, tracks, accepted, unflushed>>

(* The pass ends: _run waits for the next one, close() has had its last.     *)
EndPass ==
    /\ task' = IdleTask
    /\ mode' = IF mode = "drain" THEN "exit" ELSE mode

(* FinalizationOutboxCorruptionError: _run stops for good.                   *)
Corrupted ==
    /\ IF mode = "drain" THEN EndPass /\ fatal' = fatal
       ELSE /\ task' = [IdleTask EXCEPT !.pc = "dead"]
            /\ mode' = mode
            /\ fatal' = TRUE

(* A retryable error or the delivery timeout breaks off the pass.            *)
Deferred == IdleTask

Defer ==
    /\ task' = Deferred
    /\ mode' = IF mode = "drain" THEN "exit" ELSE mode

LoadNext(rest) ==
    /\ task' = [task EXCEPT !.pc = "loading", !.todo = rest, !.cur = Oldest(rest),
                            !.loaded = Absent]
    /\ mode' = mode

Wake ==
    /\ Delivering
    /\ task.pc = "waiting"
    /\ task' = [task EXCEPT !.pc = "scanning"]
    /\ UNCHANGED <<files, mode, fatal, late, outside, outboxFaults, taskOnly>>

(* The paths of the pass, in the order of their names.                       *)
Scan ==
    /\ Delivering
    /\ task.pc = "scanning"
    /\ Unlocked
    /\ IF Entries = {} THEN EndPass
       ELSE /\ task' = [task EXCEPT !.pc = "loading", !.todo = Entries,
                                    !.pass = Entries, !.cur = Oldest(Entries)]
            /\ mode' = mode
    /\ UNCHANGED <<files, fatal, late, outside, outboxFaults, taskOnly>>

(* Reads the file without the lock; a file that is gone is an OSError.       *)
Load ==
    /\ Delivering
    /\ task.pc = "loading"
    /\ dir[task.cur] \notin {Absent, Bad}
    /\ task' = [task EXCEPT !.pc = "storing", !.loaded = dir[task.cur]]
    /\ UNCHANGED <<files, mode, fatal, late, outside, outboxFaults, taskOnly>>

LoadGone ==
    /\ Delivering
    /\ task.pc = "loading"
    /\ dir[task.cur] = Absent
    /\ Defer
    /\ UNCHANGED <<files, fatal, late, outside, outboxFaults, taskOnly>>

LoadCorrupt ==
    /\ Delivering
    /\ task.pc = "loading"
    /\ dir[task.cur] = Bad
    /\ Corrupted
    /\ UNCHANGED <<files, late, outside, outboxFaults, taskOnly>>

PutMedia ==
    /\ Delivering
    /\ task.pc = "storing"
    /\ media' = media \cup {task.cur}
    /\ task' = [task EXCEPT !.pc = "publishing"]
    /\ UNCHANGED <<files, mode, fatal, late, published, outboxFaults, taskOnly>>

PublishEvent ==
    /\ Delivering
    /\ task.pc = "publishing"
    /\ published' = published \cup {task.cur}
    /\ task' = [task EXCEPT !.pc = "removing"]
    /\ UNCHANGED <<files, mode, fatal, late, media, outboxFaults, taskOnly>>

(* A scan, load, put or publish fails or times out, the latter two possibly  *)
(* after they took effect.                                                   *)
DeliveryError ==
    /\ Delivering
    /\ task.pc \in {"scanning", "loading", "storing", "publishing"}
    /\ OutboxFault
    /\ \/ UNCHANGED outside
       \/ /\ task.pc = "storing"
          /\ media' = media \cup {task.cur}
          /\ UNCHANGED published
       \/ /\ task.pc = "publishing"
          /\ published' = published \cup {task.cur}
          /\ UNCHANGED media
    /\ Defer
    /\ UNCHANGED <<files, fatal, late, taskOnly>>

(* _remove_entry_sync unlinks only the bytes it has delivered.               *)
Removable(e, bytes) == dir[e] = bytes

RemoveEntry ==
    /\ Delivering
    /\ task.pc = "removing"
    /\ Unlocked
    /\ dir[task.cur] = Absent \/ Removable(task.cur, task.loaded)
    /\ IF dir[task.cur] = Absent THEN UNCHANGED files
       ELSE /\ dir' = [dir EXCEPT ![task.cur] = Absent]
            /\ disk' = Synced(dir')
    /\ LET rest == task.todo \ {task.cur}
       IN  IF rest = {} THEN EndPass ELSE LoadNext(rest)
    /\ UNCHANGED <<fatal, late, outside, outboxFaults, taskOnly>>

RemoveCorrupt ==
    /\ Delivering
    /\ task.pc = "removing"
    /\ Unlocked
    /\ dir[task.cur] # Absent
    /\ ~Removable(task.cur, task.loaded)
    /\ Corrupted
    /\ UNCHANGED <<files, late, outside, outboxFaults, taskOnly>>

(* The unlink succeeds and the flush after it fails.                         *)
RemoveUnflushed ==
    /\ Delivering
    /\ task.pc = "removing"
    /\ Unlocked
    /\ Removable(task.cur, task.loaded)
    /\ OutboxFault
    /\ dir' = [dir EXCEPT ![task.cur] = Absent]
    /\ Defer
    /\ UNCHANGED <<disk, fatal, late, outside, taskOnly>>

(* The delivery timeout ends the wait, not the thread.                       *)
RemoveTimeout ==
    /\ Delivering
    /\ task.pc = "removing"
    /\ OutboxFault
    /\ late' = late \cup {<<task.cur, task.loaded>>}
    /\ Defer
    /\ UNCHANGED <<files, fatal, outside, taskOnly>>

LateRemove ==
    /\ mode # "down"
    /\ Unlocked
    /\ \E r \in late :
          /\ late' = late \ {r}
          /\ IF Removable(r[1], r[2])
             THEN /\ dir' = [dir EXCEPT ![r[1]] = Absent]
                  /\ disk' = Synced(dir')
             ELSE UNCHANGED files
    /\ UNCHANGED <<mode, fatal, task, outside, outboxFaults, taskOnly>>
------------------------------------------------------------------------------
Deliver ==
    \/ Wake
    \/ Scan
    \/ Load
    \/ LoadGone
    \/ LoadCorrupt
    \/ PutMedia
    \/ PublishEvent
    \/ RemoveEntry
    \/ RemoveCorrupt

Stage(e) ==
    \/ StageExisting(e)
    \/ StageConflict(e)
    \/ StageFull(e)
    \/ StageReplace(e)
    \/ StageFlush(e)

OutboxNext ==
    \/ Start
    \/ StartRefused
    \/ Reconfigure
    \/ Stop
    \/ Close
    \/ DrainDeadline
    \/ Exit
    \/ OutboxCrash
    \/ PowerLoss
    \/ \E e \in Events : \/ Tamper(e)
                         \/ StageBegin(e)
                         \/ StageRefused(e)
                         \/ Stage(e)
                         \/ StageError(e)
                         \/ StageFlushError(e)
    \/ Deliver
    \/ DeliveryError
    \/ RemoveUnflushed
    \/ RemoveTimeout
    \/ LateRemove

OutboxSpec == OutboxInit /\ [][OutboxNext]_outboxVars

(* Threads and tasks that can go on do; the supervisor starts a dead worker; *)
(* close() is bounded by its deadline.  Failures are bounded by              *)
(* MaxOutboxFaults: an outage ends.  Nobody need raise a capacity again.     *)
OutboxFairness ==
    /\ WF_outboxVars(Start)
    /\ WF_outboxVars(Close)
    /\ WF_outboxVars(Exit)
    /\ WF_outboxVars(Deliver)
    /\ WF_outboxVars(LateRemove)
    /\ WF_outboxVars(\E e \in Events : Stage(e))

FairOutboxSpec == OutboxSpec /\ OutboxFairness
------------------------------------------------------------------------------
(* A track that is FINALIZED is never lost: its images are stored and its    *)
(* event was published, or its entry is in the directory, across process     *)
(* deaths, power losses, late removals and retries.  The exception is an     *)
(* entry whose directory flush failed, see AcceptedIsDurable.                *)
AcceptedIsKept ==
    \A e \in accepted :
       e \in published \cap media \/ dir[e] # Absent \/ e \in unflushed

(* The same on disk: "its directory is flushed before the track is marked    *)
(* finalized" (docs/CAMERA_PIPELINE.md).  A stage that is retried after its  *)
(* rename finds the entry, does not flush again and succeeds.                *)
AcceptedIsDurable ==
    \A e \in accepted : e \in published \/ disk[e] # Absent

(* Head-of-line order: an event is published after every older event that    *)
(* was in the directory when its pass began.                                 *)
NoOvertaking ==
    [][\A e \in published' \ published, f \in task.pass :
           OccurredAt[f] < OccurredAt[e] => f \in published]_outboxVars

(* What keeps an accepted event from its delivery for good: an integrity     *)
(* failure, a failed flush, a capacity set below what the directory holds,   *)
(* with which no process starts, or (a bound) the last process is gone.      *)
Blocked(e) ==
    \/ fatal
    \/ \E f \in Events : dir[f] = Bad
    \/ e \in unflushed
    \/ mode = "down" /\ (OverCapacity \/ boot = MaxBoots)

(* Every accepted event is published in the end, unless it is blocked.       *)
AcceptedIsPublished ==
    []<>(\A e \in accepted : e \in published \/ Blocked(e))
==============================================================================
