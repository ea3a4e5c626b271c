------------------------------- MODULE Retention -------------------------------
(***************************************************************************)
(* What happens to one event's document and images after it is old: the    *)
(* retention workers that lease, remove and mark its media and delete it,  *)
(* the reviewers who correct its plate and turn the plate crop into a      *)
(* dataset sample, and the exports that carry samples into artifacts.  All *)
(* of them meet in MongoDB and the object store only.                      *)
(*                                                                         *)
(* Each MongoDB command is one step; reads that a later command re-checks  *)
(* are part of that command.                                               *)
(*                                                                         *)
(* Other events are seen where they meet this one: a pass reads a bounded  *)
(* number of candidates, oldest first, and drops those that samples pin    *)
(* afterwards, so older pinned events can fill its scan (world.crowded).   *)
(***************************************************************************)
EXTENDS Integers, FiniteSets

CONSTANTS
    RetentionWorkers,   \* retention workers
    Kinds,              \* media kinds of the event
    PlateCrop,          \* the kind that dataset samples reference
    Reviewers,          \* people who review the plate
    Exports,            \* export ids, one exporter each
    Nobody,             \* no worker, reviewer or export
    MaxRevision,        \* bound: accepted reviews of the event
    MaxRetentionFaults  \* bound: failed commands, removals and dead processes

ASSUME PlateCropAssumption == PlateCrop \in Kinds
ASSUME NobodyAssumption == Nobody \notin RetentionWorkers \cup Reviewers \cup Exports
ASSUME RetentionBoundsAssumption == MaxRevision \in Nat /\ MaxRetentionFaults \in Nat

VARIABLES
    event,      \* its document: see Document
    objects,    \* the kinds whose object is in the store
    samples,    \* the dataset samples, one per review revision
    artifacts,  \* the installed export directories: their samples
    passes,     \* the retention workers
    reviews,    \* the reviewers' requests
    exporters,  \* the exports
    world       \* transactions_enabled, the crowded scans, the failures so far

retentionVars == <<event, objects, samples, artifacts, passes, reviews, exporters, world>>

Revisions == 1..MaxRevision

LeaseStates == {"none", "DELETING", "FAILED", "DELETED"}

SampleStates == {"none", "READY", "EXPORTING", "EXPORT_FAILED", "EXPORTED"}

(* age: 1, older than the media windows; 2, than the window of events too.   *)
(* media: the public key and retention.media of a kind.                      *)
Document == [there : BOOLEAN, age : 0..2, revision : 0..MaxRevision,
             author : Reviewers \cup {Nobody},
             media : [Kinds -> [key : BOOLEAN, state : LeaseStates,
                                lease : RetentionWorkers \cup {Nobody}, stale : BOOLEAN]]]

(* The scans of a pass that drop pinned candidates after their limit:        *)
(* plate crops (limit * 4) and events (limit * 2).                           *)
Scans == {"media", "events"}

IdlePass == [pc |-> "idle", kind |-> PlateCrop, skipped |-> FALSE]

RetentionTypeOK ==
    /\ event \in Document
    /\ objects \subseteq Kinds
    /\ samples \in [Revisions -> [status : SampleStates, late : BOOLEAN,
                                  export : Exports \cup {Nobody}]]
    /\ artifacts \in [Exports -> SUBSET Revisions]
    /\ passes \in [RetentionWorkers -> [pc : {"idle", "claiming", "removing", "removed", "failed",
                                     "events", "deleting"},
                               kind : Kinds, skipped : BOOLEAN]]
    /\ reviews \in [Reviewers -> [pc : {"idle", "saved", "checked"}, revision : 0..MaxRevision]]
    /\ exporters \in [Exports -> [pc : {"idle", "preparing", "marking", "resuming"},
                                  batch : SUBSET Revisions]]
    /\ world \in [transactions : BOOLEAN, crowded : SUBSET Scans, faults : 0..MaxRetentionFaults]

RetentionInit ==
    /\ event = [there |-> TRUE, age |-> 0, revision |-> 0, author |-> Nobody,
                media |-> [k \in Kinds |-> [key |-> TRUE, state |-> "none",
                                            lease |-> Nobody, stale |-> FALSE]]]
    /\ objects = Kinds
    /\ samples = [r \in Revisions |-> [status |-> "none", late |-> FALSE, export |-> Nobody]]
    /\ artifacts = [x \in Exports |-> {}]
    /\ passes = [w \in RetentionWorkers |-> IdlePass]
    /\ reviews = [v \in Reviewers |-> [pc |-> "idle", revision |-> 0]]
    /\ exporters = [x \in Exports |-> [pc |-> "idle", batch |-> {}]]
    /\ world \in [transactions : BOOLEAN, crowded : {{}}, faults : {0}]

RetentionFault ==
    /\ world.faults < MaxRetentionFaults
    /\ world' = [world EXCEPT !.faults = @ + 1]

Pinning == {"READY", "EXPORTING", "EXPORT_FAILED"}

Pinned == \E r \in Revisions : samples[r].status \in Pinning
------------------------------------------------------------------------------
(* Variants of the definitions below that a slip in the code would give.     *)
BugMediaReady == \A k \in Kinds : ~event.media[k].key

BugEventPinned == \E r \in Revisions : samples[r].status \in {"READY", "EXPORTING"}

BugLeaseReclaimable(k) ==
    /\ event.there
    /\ event.media[k].state = "FAILED"

BugMarkable(r, x) == samples[r].status \in {"EXPORTING", "EXPORTED"}
------------------------------------------------------------------------------
(* A pass of a retention worker: run_once.                                   *)

others == <<samples, artifacts, reviews, exporters>>

Goto(w, pc) == passes' = [passes EXCEPT ![w].pc = pc]

SetMedia(k, m) == event' = [event EXCEPT !.media[k] = m]

Expired == event.there /\ event.age >= 1

(* claim_media reads the oldest candidates and the pins among them.  Only    *)
(* plate crops can be pinned and so crowd the scan ...                       *)
ReadPins(w, k) ==
    /\ passes[w].pc = "idle"
    /\ Expired
    /\ passes' = [passes EXCEPT ![w] = [pc |-> "claiming", kind |-> k,
                                        skipped |-> /\ k = PlateCrop
                                                    /\ Pinned \/ "media" \in world.crowded]]
    /\ UNCHANGED <<event, objects, world, others>>

Claimable(k) ==
    /\ Expired
    /\ event.media[k].key
    /\ event.media[k].state \in {"none", "FAILED"}

LeaseReclaimable(k) ==
    /\ Expired
    /\ event.media[k].state = "DELETING"
    /\ event.media[k].stale

Leased(w) == [key |-> FALSE, state |-> "DELETING", lease |-> w, stale |-> FALSE]

(* ... claims those that are there and not pinned, then stale leases.        *)
ClaimMedia(w) ==
    /\ passes[w].pc = "claiming"
    /\ LET k == passes[w].kind
       IN IF (Claimable(k) /\ ~passes[w].skipped) \/ LeaseReclaimable(k)
          THEN SetMedia(k, Leased(w)) /\ Goto(w, "removing")
          ELSE UNCHANGED event /\ Goto(w, "events")
    /\ UNCHANGED <<objects, world, others>>

(* The object store removes the object, or fails: before or after it did.    *)
RemoveMedia(w) ==
    /\ passes[w].pc = "removing"
    /\ \/ /\ objects' = objects \ {passes[w].kind}
          /\ Goto(w, "removed")
          /\ UNCHANGED world
       \/ /\ RetentionFault
          /\ objects' \in {objects, objects \ {passes[w].kind}}
          /\ Goto(w, "failed")
    /\ UNCHANGED <<event, others>>

Owned(w) ==
    LET m == event.media[passes[w].kind]
    IN  event.there /\ m.lease = w /\ m.state = "DELETING"

(* mark_media_deleted and mark_media_failed; a lost lease ends the pass.     *)
MarkMedia(w) ==
    /\ passes[w].pc \in {"removed", "failed"}
    /\ LET failed == passes[w].pc = "failed"
       IN IF Owned(w)
          THEN /\ SetMedia(passes[w].kind,
                           [key |-> failed, state |-> IF failed THEN "FAILED" ELSE "DELETED",
                            lease |-> Nobody, stale |-> FALSE])
               /\ Goto(w, "events")
          ELSE /\ UNCHANGED event
               /\ passes' = [passes EXCEPT ![w] = IdlePass]
    /\ UNCHANGED <<objects, world, others>>

MediaReady == \A k \in Kinds : ~event.media[k].key /\ event.media[k].state # "DELETING"

EventPinned == Pinned

(* delete_expired_events reads the oldest events that are ready and their    *)
(* pins ...                                                                  *)
FindExpired(w) ==
    /\ passes[w].pc = "events"
    /\ IF /\ event.there /\ event.age = 2 /\ MediaReady
          /\ "events" \notin world.crowded
          /\ ~EventPinned
       THEN Goto(w, "deleting")
       ELSE passes' = [passes EXCEPT ![w] = IdlePass]
    /\ UNCHANGED <<event, objects, world, others>>

(* ... and deletes by id alone.                                              *)
DeleteExpired(w) ==
    /\ passes[w].pc = "deleting"
    /\ event' = [event EXCEPT !.there = FALSE]
    /\ passes' = [passes EXCEPT ![w] = IdlePass]
    /\ UNCHANGED <<objects, world, others>>

(* MongoDB fails, or the worker dies.                                        *)
PassBreaks(w) ==
    /\ passes[w].pc # "idle"
    /\ RetentionFault
    /\ passes' = [passes EXCEPT ![w] = IdlePass]
    /\ UNCHANGED <<event, objects, others>>
------------------------------------------------------------------------------
(* A review.  Where transactions are enabled the update of the document and  *)
(* the sample are one step: nobody else can write the document until both    *)
(* are committed.  A repeated request writes no document and is not.         *)

retentionOnly == <<objects, artifacts, passes, exporters>>

(* update_plate_review matches the revision the reviewer saw.                *)
UpdateReview(v) ==
    /\ event.there
    /\ event.revision < MaxRevision
    /\ event' = [event EXCEPT !.revision = @ + 1, !.author = v]

(* _persist_sample: an existing sample is left alone.                        *)
Sampled(r, late) ==
    IF samples[r].status # "none" THEN samples
    ELSE [samples EXCEPT ![r].status = "READY", ![r].late = late]

ReviewInTransaction(v) ==
    /\ world.transactions
    /\ reviews[v].pc = "idle"
    /\ UpdateReview(v)
    /\ samples' = IF event.media[PlateCrop].key /\ PlateCrop \in objects
                  THEN Sampled(event'.revision, FALSE) ELSE samples
    /\ UNCHANGED <<reviews, world, retentionOnly>>

(* The sample follows if the document that came back names a plate crop.     *)
CropFollows(v) ==
    reviews' = IF event.media[PlateCrop].key
               THEN [reviews EXCEPT ![v] = [pc |-> "saved", revision |-> event'.revision]]
               ELSE reviews

SaveReview(v) ==
    /\ ~world.transactions
    /\ reviews[v].pc = "idle"
    /\ UpdateReview(v)
    /\ CropFollows(v)
    /\ UNCHANGED <<samples, world, retentionOnly>>

(* The same reviewer repeats a request that was already carried out.         *)
RetryReview(v) ==
    /\ reviews[v].pc = "idle"
    /\ event.there /\ event.revision > 0 /\ event.author = v
    /\ UNCHANGED event
    /\ CropFollows(v)
    /\ UNCHANGED <<samples, world, retentionOnly>>

EndReview(v) == reviews' = [reviews EXCEPT ![v] = [pc |-> "idle", revision |-> 0]]

CheckCrop(v) ==
    /\ reviews[v].pc = "saved"
    /\ IF PlateCrop \in objects THEN reviews' = [reviews EXCEPT ![v].pc = "checked"]
       ELSE EndReview(v)
    /\ UNCHANGED <<event, samples, world, retentionOnly>>

CreateSample(v) ==
    /\ reviews[v].pc = "checked"
    /\ samples' = Sampled(reviews[v].revision, TRUE)
    /\ EndReview(v)
    /\ UNCHANGED <<event, world, retentionOnly>>

ReviewBreaks(v) ==
    /\ reviews[v].pc # "idle"
    /\ RetentionFault
    /\ EndReview(v)
    /\ UNCHANGED <<event, samples, retentionOnly>>
------------------------------------------------------------------------------
(* An export.                                                                *)

exportOnly == <<event, objects, passes, reviews>>

EndExport(x) == exporters' = [exporters EXCEPT ![x] = [pc |-> "idle", batch |-> {}]]

(* claim_for_export: its own samples again, new and failed ones, and those   *)
(* whose claim is stale, which it may be at any time.                        *)
ClaimSamples(x) ==
    /\ exporters[x].pc = "idle"
    /\ artifacts[x] = {}
    /\ \E taken \in SUBSET {r \in Revisions : samples[r].status \in Pinning} \ {{}} :
          /\ {r \in Revisions : samples[r].status \in {"READY", "EXPORT_FAILED"}} \subseteq taken
          /\ samples' = [r \in Revisions |->
                            IF r \in taken
                            THEN [samples[r] EXCEPT !.status = "EXPORTING", !.export = x]
                            ELSE samples[r]]
          /\ exporters' = [exporters EXCEPT ![x] = [pc |-> "preparing", batch |-> taken]]
    /\ UNCHANGED <<artifacts, world, exportOnly>>

(* Images are read and written to a temporary directory, which is installed. *)
Install(x) ==
    /\ exporters[x].pc = "preparing"
    /\ event.there /\ PlateCrop \in objects
    /\ artifacts' = [artifacts EXCEPT ![x] = exporters[x].batch]
    /\ exporters' = [exporters EXCEPT ![x].pc = "marking"]
    /\ UNCHANGED <<samples, world, exportOnly>>

(* mark_export_failed leaves samples alone that are another export's by now. *)
Abandoned(x) ==
    [r \in Revisions |->
        IF r \in exporters[x].batch /\ samples[r].export = x /\ samples[r].status = "EXPORTING"
        THEN [samples[r] EXCEPT !.status = "EXPORT_FAILED"] ELSE samples[r]]

CannotPrepare(x) ==
    /\ exporters[x].pc = "preparing"
    /\ \/ ~event.there /\ UNCHANGED world
       \/ PlateCrop \notin objects /\ UNCHANGED world
       \/ RetentionFault
    /\ samples' = Abandoned(x)
    /\ EndExport(x)
    /\ UNCHANGED <<artifacts, exportOnly>>

(* The directory is there already: only the states are reconciled.           *)
Resume(x) ==
    /\ exporters[x].pc = "idle"
    /\ artifacts[x] # {}
    /\ exporters' = [exporters EXCEPT ![x] = [pc |-> "resuming", batch |-> artifacts[x]]]
    /\ UNCHANGED <<samples, artifacts, world, exportOnly>>

Markable(r, x) ==
    samples[r].export = x /\ samples[r].status \in {"EXPORTING", "EXPORTED"}

(* mark_exported; samples that another export took over make it an error,    *)
(* which changes nothing more.                                               *)
MarkExported(x) ==
    /\ exporters[x].pc \in {"marking", "resuming"}
    /\ samples' = [r \in Revisions |-> IF r \in exporters[x].batch /\ Markable(r, x)
                                       THEN [samples[r] EXCEPT !.status = "EXPORTED"]
                                       ELSE samples[r]]
    /\ EndExport(x)
    /\ UNCHANGED <<artifacts, world, exportOnly>>

(* MongoDB fails in mark_exported: a build is taken for failed.              *)
MarkBreaks(x) ==
    /\ exporters[x].pc = "marking"
    /\ RetentionFault
    /\ samples' = Abandoned(x)
    /\ EndExport(x)
    /\ UNCHANGED <<artifacts, exportOnly>>

ExportDies(x) ==
    /\ exporters[x].pc # "idle"
    /\ RetentionFault
    /\ EndExport(x)
    /\ UNCHANGED <<samples, artifacts, exportOnly>>
------------------------------------------------------------------------------
(* Time passes: for the event, for a lease.  That a pass outlives its own    *)
(* lease is bounded like the failures.                                       *)
GetsOlder ==
    \/ /\ event.there /\ event.age < 2
       /\ event' = [event EXCEPT !.age = @ + 1]
       /\ UNCHANGED world
    \/ \E k \in Kinds :
          /\ event.media[k].state = "DELETING" /\ ~event.media[k].stale
          /\ event' = [event EXCEPT !.media[k].stale = TRUE]
          /\ IF passes[event.media[k].lease].pc \in {"removing", "removed", "failed"}
             THEN RetentionFault ELSE UNCHANGED world

Time ==
    /\ GetsOlder
    /\ UNCHANGED <<objects, samples, artifacts, passes, reviews, exporters>>

(* Older events become pinned, or lose their pins or go, until they fill a   *)
(* scan that could reach this event, or no longer do.                        *)
OthersCrowd ==
    /\ Expired
    /\ \E scan \in Scans :
          /\ scan = "events" => event.age = 2
          /\ world' = [world EXCEPT !.crowded = (@ \ {scan}) \cup ({scan} \ @)]
    /\ UNCHANGED <<event, objects, passes, others>>

PassSteps(w) ==
    ClaimMedia(w) \/ RemoveMedia(w) \/ MarkMedia(w) \/ FindExpired(w) \/ DeleteExpired(w)

RetentionNext ==
    \/ \E w \in RetentionWorkers : (\E k \in Kinds : ReadPins(w, k)) \/ PassSteps(w) \/ PassBreaks(w)
    \/ \E v \in Reviewers :
          \/ ReviewInTransaction(v)
          \/ SaveReview(v) \/ RetryReview(v) \/ CheckCrop(v) \/ CreateSample(v) \/ ReviewBreaks(v)
    \/ \E x \in Exports :
          \/ ClaimSamples(x) \/ Install(x) \/ CannotPrepare(x) \/ Resume(x)
          \/ MarkExported(x) \/ MarkBreaks(x) \/ ExportDies(x)
    \/ Time
    \/ OthersCrowd

(* A worker starts its passes on a timer and carries them on; the clock goes *)
(* on.  Reviews and exports need not happen, nor need a crowded scan clear.  *)
RetentionFairness ==
    /\ WF_retentionVars(Time)
    /\ \A w \in RetentionWorkers :
          /\ \A k \in Kinds : SF_retentionVars(ReadPins(w, k))
          /\ WF_retentionVars(PassSteps(w))

RetentionSpec == RetentionInit /\ [][RetentionNext]_retentionVars /\ RetentionFairness
------------------------------------------------------------------------------
(* Once an event's document is gone nothing else knows its objects: none may *)
(* be left in the store, whichever worker lost its lease, died or was        *)
(* overtaken on the way.                                                     *)
NoOrphanObjects == ~event.there => objects = {}

(* The source event of a sample that still has to be exported is not deleted *)
(* if the sample was created together with its review: the pins are read     *)
(* after the media of the event are gone, and without its plate crop no      *)
(* review adds a sample.  (A sample that a repeated or an untransacted       *)
(* request adds later can miss the event.)                                   *)
PinnedEventStays ==
    (\E r \in Revisions : samples[r].status \in Pinning /\ ~samples[r].late) => event.there

(* A sample that releases its pin is in the artifact it names, although      *)
(* exports take over one another's stale samples and are repeated.           *)
ExportedIsInArtifact ==
    \A r \in Revisions :
        samples[r].status = "EXPORTED" => r \in artifacts[samples[r].export]

(* Expired events go in the end, with all their media, unless a sample pins  *)
(* them: no lease of a dead worker and no failed removal keeps them.  That   *)
(* holds where the scans stop being crowded: behind enough older events that *)
(* stay pinned no pass ever reaches the event.                               *)
ExpiredAreDeleted == <>[](world.crowded = {}) => (event.age = 2 ~> (~event.there \/ Pinned))

(* docs/ARCHITECTURE.md: READY, EXPORTING and EXPORT_FAILED samples pin      *)
(* their media.  A sample created between a worker's look at the pins and    *)
(* its claim loses its image.                                                *)
PinnedMediaStays == Pinned => PlateCrop \in objects
==============================================================================
