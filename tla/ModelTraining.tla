----------------------------- MODULE ModelTraining -----------------------------
(***************************************************************************)
(* Runs of the model training service: the file repository that keeps them *)
(* and accepts a save only from who saw the latest version, the background *)
(* task that submits a run, the requests that refresh or cancel it, and    *)
(* the remote provider's Jobs, which cost money while they are live.       *)
(*                                                                         *)
(* A save changes memory and file together or neither.  No status comes    *)
(* back once it is left and saves that change nothing but a message are    *)
(* left out, so a status is as good as the updated_at it is compared by.   *)
(***************************************************************************)
EXTENDS Integers, FiniteSets

CONSTANTS
    Runs,               \* ids of the runs that are prepared
    Requests,           \* overlapping refresh and cancel requests
    MaxConcurrentRuns,  \* maximum_concurrent_runs
    MaxTrainingFaults   \* bound: failed writes and calls, and dead processes

ASSUME TrainingAssumption == MaxConcurrentRuns \in Nat \ {0} /\ MaxTrainingFaults \in Nat

VARIABLES
    runs,           \* what the repository holds
    tasks,          \* the submission of each run
    requests,       \* the requests in flight
    jobs,           \* the provider's Job of each run
    trainer         \* the API process, and the failures so far

trainingVars == <<runs, tasks, requests, jobs, trainer>>

Active == {"QUEUED", "SUBMITTING", "SCHEDULING", "RUNNING"}

TerminalRun == {"COMPLETED", "FAILED", "CANCELED"}

Live == {"SCHEDULING", "RUNNING"}

NoRequest == [pc |-> "idle", run |-> "none", seen |-> "none", remote |-> "none"]

(* job: remote_job_id is there.  unsaved: its failure could not be written.  *)
(* lost: the Job exists, but the process that knew its id could not save it. *)
TrainingTypeOK ==
    /\ runs \in [Runs -> [status : {"none"} \cup Active \cup TerminalRun, job : BOOLEAN]]
    /\ tasks \in [Runs -> {"none", "prepared", "queued", "submitting", "recording", "failing"}]
    /\ requests \in [Requests -> [pc : {"idle", "saving", "canceling"},
                                  run : Runs \cup {"none"},
                                  seen : {"none"} \cup Active, remote : {"none"} \cup Live \cup TerminalRun]]
    /\ jobs \in [Runs -> {"none"} \cup Live \cup TerminalRun]
    /\ trainer \in [up : BOOLEAN, faults : 0..MaxTrainingFaults,
                    lost : SUBSET Runs, unsaved : SUBSET Runs]

TrainingInit ==
    /\ runs = [r \in Runs |-> [status |-> "none", job |-> FALSE]]
    /\ tasks = [r \in Runs |-> "none"]
    /\ requests = [q \in Requests |-> NoRequest]
    /\ jobs = [r \in Runs |-> "none"]
    /\ trainer = [up |-> TRUE, faults |-> 0, lost |-> {}, unsaved |-> {}]

(* _ALLOWED_TRANSITIONS                                                      *)
Allowed(from, to) ==
    \/ from = "QUEUED" /\ to \in {"SUBMITTING", "FAILED", "CANCELED"}
    \/ from = "SUBMITTING" /\ to \in {"SCHEDULING", "RUNNING", "COMPLETED", "FAILED"}
    \/ from = "SCHEDULING" /\ to \in {"SCHEDULING", "RUNNING"} \cup TerminalRun
    \/ from = "RUNNING" /\ to \in {"RUNNING"} \cup TerminalRun

(* A failure of a write or of a call, or the death of the process.           *)
TrainingFault(lost, unsaved) ==
    /\ trainer.faults < MaxTrainingFaults
    /\ trainer' = [trainer EXCEPT !.faults = @ + 1, !.lost = @ \cup lost,
                                  !.unsaved = @ \cup unsaved]

ActiveRuns == {r \in Runs : runs[r].status \in Active}

Advance(r, task) == tasks' = [tasks EXCEPT ![r] = task]
------------------------------------------------------------------------------
(* Variants of the definitions below that a slip in the code would give.     *)
BugSaved(r, seen, to) == [runs EXCEPT ![r].status = to]

BugInterrupted(run) == run.status = "QUEUED"
------------------------------------------------------------------------------
(* save(): the caller must have seen the current version.                    *)
Accepted(r, seen, to) == runs[r].status = seen /\ Allowed(seen, to)

Saved(r, seen, to) ==
    IF Accepted(r, seen, to) THEN [runs EXCEPT ![r].status = to] ELSE runs

(* prepare_run and create(), for a dataset revision that passes the checks.  *)
PrepareRun(r) ==
    /\ trainer.up
    /\ runs[r].status = "none"
    /\ Cardinality(ActiveRuns) < MaxConcurrentRuns
    /\ runs' = [runs EXCEPT ![r].status = "QUEUED"]
    /\ Advance(r, "prepared")
    /\ UNCHANGED <<requests, jobs, trainer>>

(* The audit record is written and the task is started, or it is not and the *)
(* run is failed, unless that cannot be written either.                      *)
DispatchRun(r) ==
    /\ tasks[r] = "prepared"
    /\ Advance(r, "queued")
    /\ UNCHANGED <<runs, requests, jobs, trainer>>

FailPreparedRun(r) ==
    /\ tasks[r] = "prepared"
    /\ TrainingFault({}, {})
    /\ runs' \in {runs, Saved(r, "QUEUED", "FAILED")}
    /\ Advance(r, "none")
    /\ UNCHANGED <<requests, jobs>>

(* _submit: a run that is not queued any more is left alone.                 *)
BeginSubmission(r) ==
    /\ tasks[r] = "queued"
    /\ runs' = Saved(r, "QUEUED", "SUBMITTING")
    /\ Advance(r, IF Accepted(r, "QUEUED", "SUBMITTING") THEN "submitting" ELSE "none")
    /\ UNCHANGED <<requests, jobs, trainer>>

SubmitJob(r) ==
    /\ tasks[r] = "submitting"
    /\ \E status \in Live : jobs' = [jobs EXCEPT ![r] = status]
    /\ Advance(r, "recording")
    /\ UNCHANGED <<runs, requests, trainer>>

(* The provider's status is mapped to the run's and saved with the Job id.   *)
RecordJob(r) ==
    /\ tasks[r] = "recording"
    /\ \E status \in Live :
          runs' = [runs EXCEPT ![r] = [status |-> status, job |-> TRUE]]
    /\ Advance(r, "none")
    /\ UNCHANGED <<requests, jobs, trainer>>

(* A write fails, or the call does: before or after it created the Job.      *)
SubmissionFails(r) ==
    /\ tasks[r] \in {"queued", "submitting", "recording"}
    /\ \/ /\ tasks[r] = "submitting"
          /\ TrainingFault({r}, {})
          /\ jobs' = [jobs EXCEPT ![r] = "SCHEDULING"]
       \/ /\ TrainingFault(IF tasks[r] = "recording" THEN {r} ELSE {}, {})
          /\ UNCHANGED jobs
    /\ Advance(r, "failing")
    /\ UNCHANGED <<runs, requests>>

(* The handler fails what is still active, unless that cannot be written.    *)
FailSubmission(r) ==
    /\ tasks[r] = "failing"
    /\ \/ /\ runs' = Saved(r, runs[r].status, "FAILED")
          /\ UNCHANGED trainer
       \/ /\ TrainingFault({}, {r})
          /\ UNCHANGED runs
    /\ Advance(r, "none")
    /\ UNCHANGED <<requests, jobs>>
------------------------------------------------------------------------------
(* get_run refreshes a run that has a Job; the Job is inspected in a thread. *)
Refresh(q, r) ==
    /\ trainer.up
    /\ requests[q].pc = "idle"
    /\ runs[r].status \in Active /\ runs[r].job
    /\ jobs[r] # runs[r].status
    /\ requests' = [requests EXCEPT ![q] = [pc |-> "saving", run |-> r,
                                            seen |-> runs[r].status, remote |-> jobs[r]]]
    /\ UNCHANGED <<runs, tasks, jobs, trainer>>

(* cancel: a queued run is only marked, one with a Job is cancelled there.   *)
CancelRun(q, r) ==
    /\ trainer.up
    /\ requests[q].pc = "idle"
    /\ runs[r].status = "QUEUED" \/ (runs[r].status \in Active /\ runs[r].job)
    /\ requests' = [requests EXCEPT ![q] =
                       [pc |-> IF runs[r].job THEN "canceling" ELSE "saving", run |-> r,
                        seen |-> runs[r].status, remote |-> "CANCELED"]]
    /\ UNCHANGED <<runs, tasks, jobs, trainer>>

CancelJob(q) ==
    /\ requests[q].pc = "canceling"
    /\ jobs' = [jobs EXCEPT ![requests[q].run] = IF @ \in Live THEN "CANCELED" ELSE @]
    /\ requests' = [requests EXCEPT ![q].pc = "saving"]
    /\ UNCHANGED <<runs, tasks, trainer>>

(* The save of either; a conflict changes nothing.                           *)
SaveStatus(q) ==
    /\ requests[q].pc = "saving"
    /\ runs' = Saved(requests[q].run, requests[q].seen, requests[q].remote)
    /\ requests' = [requests EXCEPT ![q] = NoRequest]
    /\ UNCHANGED <<tasks, jobs, trainer>>

RequestFails(q) ==
    /\ requests[q].pc # "idle"
    /\ TrainingFault({}, {})
    /\ requests' = [requests EXCEPT ![q] = NoRequest]
    /\ UNCHANGED <<runs, tasks, jobs>>
------------------------------------------------------------------------------
(* The provider.                                                             *)
JobProgresses(r) ==
    /\ \/ jobs[r] = "SCHEDULING" /\ \E s \in {"RUNNING", "FAILED"} : jobs' = [jobs EXCEPT ![r] = s]
       \/ jobs[r] = "RUNNING" /\ \E s \in {"COMPLETED", "FAILED"} : jobs' = [jobs EXCEPT ![r] = s]
    /\ UNCHANGED <<runs, tasks, requests, trainer>>

ProcessDies ==
    /\ trainer.up
    /\ trainer.faults < MaxTrainingFaults
    /\ trainer' = [trainer EXCEPT !.up = FALSE, !.faults = @ + 1,
                      !.lost = @ \cup {r \in Runs : tasks[r] = "recording"}]
    /\ tasks' = [r \in Runs |-> "none"]
    /\ requests' = [q \in Requests |-> NoRequest]
    /\ UNCHANGED <<runs, jobs>>

(* _load_runs fails what was interrupted before a Job id was saved.          *)
Interrupted(run) == run.status \in {"QUEUED", "SUBMITTING"} /\ ~run.job

LoadRuns ==
    /\ ~trainer.up
    /\ trainer' = [trainer EXCEPT !.up = TRUE]
    /\ runs' = [r \in Runs |-> IF Interrupted(runs[r]) THEN [runs[r] EXCEPT !.status = "FAILED"]
                                                       ELSE runs[r]]
    /\ UNCHANGED <<tasks, requests, jobs>>

Submission(r) ==
    DispatchRun(r) \/ BeginSubmission(r) \/ SubmitJob(r) \/ RecordJob(r) \/ FailSubmission(r)

TrainingNext ==
    \/ \E r \in Runs :
          PrepareRun(r) \/ Submission(r) \/ FailPreparedRun(r) \/ SubmissionFails(r)
             \/ JobProgresses(r)
    \/ \E q \in Requests :
          \/ \E r \in Runs : Refresh(q, r) \/ CancelRun(q, r)
          \/ CancelJob(q) \/ SaveStatus(q) \/ RequestFails(q)
    \/ ProcessDies
    \/ LoadRuns

(* A submission that was begun goes on, and the API is started again.        *)
TrainingFairness == WF_trainingVars(LoadRuns) /\ \A r \in Runs : WF_trainingVars(Submission(r))

TrainingSpec == TrainingInit /\ [][TrainingNext]_trainingVars /\ TrainingFairness
------------------------------------------------------------------------------
(* Every live Job belongs to a run that is active, so that it can be seen,   *)
(* cancelled and counted against the limit, however its submission, the      *)
(* refreshes and the cancellations of the run overlap.  Only a Job whose id  *)
(* could not be saved (a failed write, a lost answer, a dead process) is not.*)
LiveJobsAreAttended ==
    LET live == {r \in Runs : jobs[r] \in Live} \ trainer.lost
    IN  live \subseteq ActiveRuns /\ Cardinality(live) <= MaxConcurrentRuns

(* No run stays SUBMITTING, where it can be neither cancelled nor refreshed  *)
(* and takes a place of the limit, unless its failure could not be written.  *)
SubmissionsEnd ==
    []<>(\A r \in Runs : runs[r].status = "SUBMITTING" => r \in trainer.unsaved)
==============================================================================
