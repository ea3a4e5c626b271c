----------------------------- MODULE DatasetReview -----------------------------
(***************************************************************************)
(* Human review of one detector source.  A decision is a revision file     *)
(* that is written once and never overwritten and carries its own audit    *)
(* entry; the request that saved it, and a relay, append the entry to the  *)
(* audit collection and then write a marker file.  A promotion copies the  *)
(* decisions it found into a new source, in a background task.             *)
(*                                                                         *)
(* Who holds the repository's write lock takes one step.  A job's file is  *)
(* replaced atomically and with memory.                                    *)
(***************************************************************************)
EXTENDS Integers

CONSTANTS
    Items,            \* samples in the review queue
    Labelers,         \* review requests in flight
    Promotions,       \* ids of promotion jobs, all of them to one target
    MaxDecisions,     \* bound: decisions on one item
    MaxReviewFaults,  \* bound: failed writes and calls, and dead processes
    FilesTear         \* a write that fails may leave a part of the file

ASSUME ReviewAssumption ==
    MaxDecisions \in Nat /\ MaxReviewFaults \in Nat /\ FilesTear \in BOOLEAN

VARIABLES
    decided,     \* revision files of each item
    torn,        \* the items whose next revision file is there in part
    markers,     \* the delivery markers
    auditLog,    \* the audit collection
    inexact,     \* entries whose time is not in whole milliseconds
    shown,       \* in memory: the revision of each item ...
    unsent,      \* ... and the audits that are pending
    desks,       \* the requests and the relay
    batch,       \* what is left of the relay's pass
    promotions,  \* the promotion jobs and their tasks
    target,      \* the decisions in the promoted source, once it is there
    review       \* the process, and the failures so far

workspace == <<decided, torn, markers>>
reviewMemory == <<shown, unsent>>
promoting == <<promotions, target>>
reviewVars == <<workspace, auditLog, inexact, reviewMemory, desks, batch, promoting, review>>

Decisions == Items \X (1..MaxDecisions)

Relay == "relay"

Desks == Labelers \cup {Relay}

AtRest == [pc |-> "idle"]

NoTarget == [i \in Items |-> 0]

Pending == {"QUEUED", "RUNNING"}

ReviewTypeOK ==
    /\ decided \in [Items -> 0..MaxDecisions]
    /\ torn \subseteq Items
    /\ markers \in [Decisions -> {"none", "torn", "whole"}]
    /\ auditLog \subseteq Decisions
    /\ inexact \subseteq Decisions
    /\ shown \in [Items -> 0..MaxDecisions]
    /\ unsent \subseteq Decisions
    /\ DOMAIN desks = Desks
    /\ \A d \in Desks :
          \/ desks[d] = AtRest
          \/ desks[d] \in [pc : {"prepared", "sending", "marking"}, entry : Decisions]
    /\ batch \subseteq Decisions
    /\ \A p \in Promotions :
          /\ promotions[p].status \in {"none", "COMPLETED", "FAILED"} \cup Pending
          /\ promotions[p].task \in {"none", "prepared", "queued", "building", "built", "failing"}
          /\ promotions[p].snapshot \in [Items -> 0..MaxDecisions]
    /\ target \in [Items -> 0..MaxDecisions]
    /\ review \in [up : BOOLEAN, faults : 0..MaxReviewFaults]

ReviewInit ==
    /\ decided = [i \in Items |-> 0]
    /\ torn = {}
    /\ markers = [e \in Decisions |-> "none"]
    /\ auditLog = {}
    /\ inexact = {}
    /\ shown = [i \in Items |-> 0]
    /\ unsent = {}
    /\ desks = [d \in Desks |-> AtRest]
    /\ batch = {}
    /\ promotions = [p \in Promotions |->
          [status |-> "none", task |-> "none", snapshot |-> [i \in Items |-> 0]]]
    /\ target = NoTarget
    /\ review = [up |-> TRUE, faults |-> 0]

ReviewFault ==
    /\ review.faults < MaxReviewFaults
    /\ review' = [review EXCEPT !.faults = @ + 1]

Sit(d, desk) == desks' = [desks EXCEPT ![d] = desk]
------------------------------------------------------------------------------
(* Variants of the definitions below that a slip in the code would give.     *)
BugUndelivered ==
    {e \in Decisions : e[2] = decided[e[1]] /\ markers[e] = "none"}

BugTargetIsFree == \A p \in Promotions : promotions[p].status # "RUNNING"
------------------------------------------------------------------------------
(* review_item: the decision and its audit entry are made from what the      *)
(* labeler saw, an old revision perhaps.                                     *)
PrepareReview(l) ==
    /\ review.up
    /\ desks[l].pc = "idle"
    /\ \E e \in Decisions :
          /\ e[2] - 1 <= shown[e[1]]
          /\ Sit(l, [pc |-> "prepared", entry |-> e])
    /\ UNCHANGED <<workspace, auditLog, inexact, reviewMemory, batch, promoting, review>>

(* The revision is not the next one, or its file is there already.           *)
Conflicts(e) ==
    \/ shown[e[1]] # e[2] - 1
    \/ decided[e[1]] >= e[2]
    \/ e[1] \in torn

SaveDecision(l) ==
    /\ desks[l].pc = "prepared"
    /\ ~Conflicts(desks[l].entry)
    /\ LET e == desks[l].entry
       IN /\ decided' = [decided EXCEPT ![e[1]] = e[2]]
          /\ shown' = [shown EXCEPT ![e[1]] = e[2]]
          /\ unsent' = unsent \cup {e}
          /\ inexact' \in {inexact, inexact \cup {e}}
          /\ Sit(l, [pc |-> "sending", entry |-> e])
    /\ UNCHANGED <<torn, markers, auditLog, batch, promoting, review>>

RefuseDecision(l) ==
    /\ desks[l].pc = "prepared"
    /\ Conflicts(desks[l].entry)
    /\ Sit(l, AtRest)
    /\ UNCHANGED <<workspace, auditLog, inexact, reviewMemory, batch, promoting, review>>

(* The write fails: before the file is opened, on the way, or after all of   *)
(* it is written.  What is in memory stays as it was.                        *)
SaveBreaks(l) ==
    /\ desks[l].pc = "prepared"
    /\ ~Conflicts(desks[l].entry)
    /\ ReviewFault
    /\ LET e == desks[l].entry
       IN \/ UNCHANGED <<decided, torn, inexact>>
          \/ /\ FilesTear
             /\ torn' = torn \cup {e[1]}
             /\ UNCHANGED <<decided, inexact>>
          \/ /\ decided' = [decided EXCEPT ![e[1]] = e[2]]
             /\ inexact' \in {inexact, inexact \cup {e}}
             /\ UNCHANGED torn
    /\ Sit(l, AtRest)
    /\ UNCHANGED <<markers, auditLog, reviewMemory, batch, promoting>>
------------------------------------------------------------------------------
(* flush_pending_audits goes through the audits that are pending, until one  *)
(* cannot be delivered.                                                      *)
TakePending ==
    /\ review.up
    /\ desks[Relay].pc = "idle" /\ batch = {}
    /\ unsent # {}
    /\ batch' = unsent
    /\ UNCHANGED <<workspace, auditLog, inexact, reviewMemory, desks, promoting, review>>

TakeNext ==
    /\ desks[Relay].pc = "idle"
    /\ \E e \in batch :
          /\ batch' = batch \ {e}
          /\ Sit(Relay, [pc |-> "sending", entry |-> e])
    /\ UNCHANGED <<workspace, auditLog, inexact, reviewMemory, promoting, review>>

Deferred(d) ==
    /\ Sit(d, AtRest)
    /\ batch' = IF d = Relay THEN {} ELSE batch

(* AuditService.persist: an entry that is there already counts as delivered  *)
(* if it equals this one.  The collection keeps whole milliseconds.          *)
Stored(e) == auditLog' = auditLog \cup {e}

IsDelivered(e) == e \notin auditLog \/ e \notin inexact

Persist(d) ==
    /\ desks[d].pc = "sending"
    /\ Stored(desks[d].entry)
    /\ IF IsDelivered(desks[d].entry)
       THEN Sit(d, [desks[d] EXCEPT !.pc = "marking"]) /\ UNCHANGED batch
       ELSE Deferred(d)
    /\ UNCHANGED <<workspace, inexact, reviewMemory, promoting, review>>

PersistBreaks(d) ==
    /\ desks[d].pc = "sending"
    /\ ReviewFault
    /\ UNCHANGED auditLog \/ Stored(desks[d].entry)
    /\ Deferred(d)
    /\ UNCHANGED <<workspace, inexact, reviewMemory, promoting>>

(* mark_audit_delivered: of an audit that is not pending any more, or that   *)
(* has a marker, the marker is checked.                                      *)
MarkDelivered(d) ==
    /\ desks[d].pc = "marking"
    /\ LET e == desks[d].entry
       IN IF markers[e] = "torn"
          THEN Deferred(d) /\ UNCHANGED <<markers, unsent>>
          ELSE /\ markers' = [markers EXCEPT ![e] = "whole"]
               /\ unsent' = unsent \ {e}
               /\ Sit(d, AtRest)
               /\ UNCHANGED batch
    /\ UNCHANGED <<decided, torn, auditLog, inexact, shown, promoting, review>>

MarkingBreaks(d) ==
    /\ desks[d].pc = "marking"
    /\ markers[desks[d].entry] = "none"
    /\ ReviewFault
    /\ \E m \in {"none", "whole"} \cup (IF FilesTear THEN {"torn"} ELSE {}) :
          markers' = [markers EXCEPT ![desks[d].entry] = m]
    /\ Deferred(d)
    /\ UNCHANGED <<decided, torn, auditLog, inexact, reviewMemory, promoting>>
------------------------------------------------------------------------------
(* A promotion: the request, then its task.                                  *)
audits == <<workspace, auditLog, inexact, reviewMemory, desks, batch>>

Become(p, status, task) ==
    promotions' = [promotions EXCEPT ![p].status = status, ![p].task = task]

TargetIsFree == \A p \in Promotions : promotions[p].status \notin Pending

CreatePromotion(p) ==
    /\ review.up
    /\ promotions[p].status = "none"
    /\ target = NoTarget /\ TargetIsFree
    /\ \E i \in Items : shown[i] > 0
    /\ promotions' = [promotions EXCEPT ![p] =
          [status |-> "QUEUED", task |-> "prepared", snapshot |-> shown]]
    /\ UNCHANGED <<audits, target, review>>

DispatchPromotion(p) ==
    /\ promotions[p].task = "prepared"
    /\ Become(p, "QUEUED", "queued")
    /\ UNCHANGED <<audits, target, review>>

(* Its audit record cannot be written; the job is failed if that can be.     *)
RefusePromotion(p) ==
    /\ promotions[p].task = "prepared"
    /\ ReviewFault
    /\ Become(p, "QUEUED", "none") \/ Become(p, "FAILED", "none")
    /\ UNCHANGED <<audits, target>>

StartPromotion(p) ==
    /\ promotions[p].task = "queued"
    /\ Become(p, "RUNNING", "building")
    /\ UNCHANGED <<audits, target, review>>

(* A torn revision file spoils the item's history.  A target that is there   *)
(* is used as it is; else it appears by one rename.                          *)
Readable(p) == \A i \in torn : promotions[p].snapshot[i] = 0

Promoted(p) == IF target = NoTarget THEN promotions[p].snapshot ELSE target

BuildPromotion(p) ==
    /\ promotions[p].task = "building"
    /\ IF Readable(p)
       THEN target' = Promoted(p) /\ Become(p, "RUNNING", "built")
       ELSE UNCHANGED target /\ Become(p, "RUNNING", "failing")
    /\ UNCHANGED <<audits, review>>

BuildBreaks(p) ==
    /\ promotions[p].task = "building"
    /\ ReviewFault
    /\ UNCHANGED target \/ (Readable(p) /\ target' = Promoted(p))
    /\ Become(p, "RUNNING", "failing")
    /\ UNCHANGED audits

EndPromotion(p) ==
    /\ \/ promotions[p].task = "built" /\ Become(p, "COMPLETED", "none")
       \/ promotions[p].task = "failing" /\ Become(p, "FAILED", "none")
    /\ UNCHANGED <<audits, target, review>>

(* The job cannot be written: its task ends and it stays as it is.           *)
PromotionBreaks(p) ==
    /\ promotions[p].task \in {"queued", "built", "failing"}
    /\ ReviewFault
    /\ Become(p, promotions[p].status, "none")
    /\ UNCHANGED <<audits, target>>
------------------------------------------------------------------------------
(* The process dies, and loads the workspace when it starts again, unless a  *)
(* file is torn.                                                             *)
ReviewCrash ==
    /\ review.up
    /\ review.faults < MaxReviewFaults
    /\ review' = [up |-> FALSE, faults |-> review.faults + 1]
    /\ shown' = [i \in Items |-> 0]
    /\ unsent' = {}
    /\ desks' = [d \in Desks |-> AtRest]
    /\ batch' = {}
    /\ promotions' = [p \in Promotions |-> [promotions[p] EXCEPT !.task = "none"]]
    /\ UNCHANGED <<workspace, auditLog, inexact, target>>

Undelivered == {e \in Decisions : e[2] <= decided[e[1]] /\ markers[e] = "none"}

(* _recover_interrupted_job                                                  *)
Recovered(job) ==
    IF job.status \notin Pending THEN job
    ELSE [job EXCEPT !.status = IF target = NoTarget THEN "FAILED" ELSE "COMPLETED"]

ReviewRestart ==
    /\ ~review.up
    /\ torn = {}
    /\ \A e \in Decisions : markers[e] # "torn"
    /\ review' = [review EXCEPT !.up = TRUE]
    /\ shown' = decided
    /\ unsent' = Undelivered
    /\ promotions' = [p \in Promotions |-> Recovered(promotions[p])]
    /\ UNCHANGED <<workspace, auditLog, inexact, desks, batch, target>>
------------------------------------------------------------------------------
ReviewNext ==
    \/ \E l \in Labelers : PrepareReview(l) \/ SaveDecision(l) \/ RefuseDecision(l) \/ SaveBreaks(l)
    \/ TakePending \/ TakeNext
    \/ \E d \in Desks : Persist(d) \/ PersistBreaks(d) \/ MarkDelivered(d) \/ MarkingBreaks(d)
    \/ \E p \in Promotions :
          \/ CreatePromotion(p) \/ DispatchPromotion(p) \/ RefusePromotion(p)
          \/ StartPromotion(p) \/ BuildPromotion(p) \/ BuildBreaks(p)
          \/ EndPromotion(p) \/ PromotionBreaks(p)
    \/ ReviewCrash \/ ReviewRestart

(* The event loop runs the relay, which sleeps between its passes, and the   *)
(* requests that deliver.                                                    *)
ReviewFairness ==
    /\ WF_reviewVars(TakePending) /\ WF_reviewVars(TakeNext)
    /\ \A d \in Desks : WF_reviewVars(Persist(d)) /\ WF_reviewVars(MarkDelivered(d))

ReviewSpec == ReviewInit /\ [][ReviewNext]_reviewVars /\ ReviewFairness
------------------------------------------------------------------------------
(* A decision that a running process shows is accounted for: its audit entry *)
(* is in the audit collection or still pending, and whatever has a marker is *)
(* in the collection (flush_pending_audits, _load_pending_audits).           *)
ReviewsAreAudited ==
    /\ review.up =>
          \A e \in Decisions : e[2] <= shown[e[1]] => e \in auditLog \cup unsent
    /\ \A e \in Decisions : markers[e] # "none" => e \in auditLog

(* A completed promotion's source holds the decisions the job was created    *)
(* with, not those of another job to the same target, although build() takes *)
(* a target that is there as it is and a restart completes any interrupted   *)
(* job that finds one (create_promotion_job, _recover_interrupted_job).      *)
CompletedIsOwn ==
    \A p \in Promotions :
       promotions[p].status = "COMPLETED" => target = promotions[p].snapshot

(* docs/SECURITY_AND_AUDIT.md: a background relay retries pending intents,   *)
(* and audit append retries are idempotent by audit id.  So no entry stays   *)
(* pending in a process that lives (AuditService.persist).                   *)
AuditsAreDelivered ==
    \A e \in Decisions : e \in unsent ~> e \notin unsent
==============================================================================
