--------------------------- MODULE Training_proofs ----------------------------
(* Proofs about ModelTraining and DatasetReview, for any number of runs,     *)
(* requests, items, labelers and promotions, any limit of concurrent runs    *)
(* and any bound on the decisions and failures.                              *)
EXTENDS ModelTraining, DatasetReview, FiniteSetTheorems, TLAPS

(* Training runs, their requests and remote Jobs.                           *)

RunState == [status : {"none"} \cup Active \cup TerminalRun, job : BOOLEAN]

RequestState ==
    [pc : {"idle", "saving", "canceling"}, run : Runs \cup {"none"},
     seen : {"none"} \cup Active, remote : {"none"} \cup Live \cup TerminalRun]

TrainerState ==
    [up : BOOLEAN, faults : 0..MaxTrainingFaults, lost : SUBSET Runs, unsaved : SUBSET Runs]

(* What is known of one run, its submission and its Job.                     *)
RunIsSound(r) ==
    /\ runs[r].status = "none" => tasks[r] = "none"
    /\ runs[r].job => tasks[r] = "none" /\ runs[r].status \in Live \cup TerminalRun
    /\ runs[r].status \in {"none", "QUEUED"} => jobs[r] = "none"
    /\ tasks[r] \in {"prepared", "queued", "submitting"} => jobs[r] = "none"
    /\ tasks[r] \in {"submitting", "recording"} => runs[r].status = "SUBMITTING"
    /\ tasks[r] = "failing" => jobs[r] \notin Live \/ r \in trainer.lost
    /\ jobs[r] \in Live =>
          \/ r \in trainer.lost
          \/ tasks[r] = "recording"
          \/ runs[r].status \in Live /\ runs[r].job

(* What a request saw is still true of the run's Job, which is over by the   *)
(* time a terminal status is saved.                                          *)
RequestIsSound(q) ==
    LET r == requests[q].run
    IN  requests[q].pc # "idle" =>
           /\ r \in Runs
           /\ \/ requests[q].seen = "QUEUED"
              \/ requests[q].seen \in Live /\ runs[r].job
           /\ requests[q].pc = "canceling" => requests[q].seen \in Live
           /\ (/\ requests[q].pc = "saving"
               /\ requests[q].seen \in Live
               /\ requests[q].remote \in TerminalRun) => jobs[r] \notin Live

WithinLimit == IsFiniteSet(ActiveRuns) /\ Cardinality(ActiveRuns) <= MaxConcurrentRuns

IInv ==
    /\ TrainingTypeOK
    /\ ~trainer.up => \A r \in Runs : tasks[r] = "none"
    /\ \A r \in Runs : RunIsSound(r)
    /\ \A q \in Requests : RequestIsSound(q)
    /\ WithinLimit
------------------------------------------------------------------------------
USE TrainingAssumption

LEMMA InitEstablishes == TrainingInit => IInv
<1> SUFFICES ASSUME TrainingInit PROVE IInv
  OBVIOUS
<1>1. TrainingTypeOK
  BY DEF TrainingInit, TrainingTypeOK, NoRequest
<1>2. \A r \in Runs : RunIsSound(r)
  BY DEF TrainingInit, RunIsSound, Live, TerminalRun
<1>3. \A q \in Requests : RequestIsSound(q)
  BY DEF TrainingInit, RequestIsSound, NoRequest
<1>4. ActiveRuns = {}
  BY DEF TrainingInit, ActiveRuns, Active
<1>5. WithinLimit
  BY <1>4, FS_EmptySet DEF WithinLimit
<1> QED
  BY <1>1, <1>2, <1>3, <1>5 DEF IInv, TrainingInit

(* The steps of the model, by what they write.                               *)
RunStep(r) ==
    \/ PrepareRun(r) \/ DispatchRun(r) \/ BeginSubmission(r) \/ SubmitJob(r) \/ RecordJob(r)
    \/ FailSubmission(r) \/ FailPreparedRun(r) \/ SubmissionFails(r) \/ JobProgresses(r)

RequestStep(q) ==
    \/ \E r \in Runs : Refresh(q, r) \/ CancelRun(q, r)
    \/ CancelJob(q) \/ SaveStatus(q) \/ RequestFails(q)

(* What the operations write are statuses and records of their kind.         *)
LEMMA SavedStatus ==
    ASSUME TrainingTypeOK, NEW r \in Runs, NEW seen, NEW to \in {"none"} \cup Active \cup TerminalRun
    PROVE  /\ Saved(r, seen, to) \in [Runs -> RunState]
           /\ \A s \in Runs \ {r} : Saved(r, seen, to)[s] = runs[s]
           /\ Saved(r, seen, to)[r].job = runs[r].job
           /\ Saved(r, seen, to)[r].status = IF Accepted(r, seen, to) THEN to ELSE runs[r].status
<1>1. runs \in [Runs -> RunState] /\ runs[r] \in RunState
  BY DEF TrainingTypeOK, RunState
<1>2. [runs[r] EXCEPT !.status = to] \in RunState
  BY <1>1 DEF RunState
<1>3. Saved(r, seen, to) = runs
        \/ (Accepted(r, seen, to)
              /\ Saved(r, seen, to) = [runs EXCEPT ![r] = [runs[r] EXCEPT !.status = to]])
  BY <1>1 DEF Saved
<1> QED
  BY <1>1, <1>2, <1>3 DEF Saved, RunState

LEMMA RequestWrites ==
    ASSUME TrainingTypeOK, NEW q \in Requests, NEW rec \in RequestState,
           requests' = [requests EXCEPT ![q] = rec]
    PROVE  /\ requests' \in [Requests -> RequestState]
           /\ requests'[q] = rec
           /\ \A p \in Requests \ {q} : requests'[p] = requests[p]
BY DEF TrainingTypeOK, RequestState

LEMMA FaultWrites ==
    ASSUME TrainingTypeOK, NEW lost \in SUBSET Runs, NEW unsaved \in SUBSET Runs,
           TrainingFault(lost, unsaved)
    PROVE  /\ trainer' \in TrainerState
           /\ trainer'.up = trainer.up
           /\ trainer'.lost = trainer.lost \cup lost
<1>1. trainer \in TrainerState
  BY DEF TrainingTypeOK, TrainerState
<1>2. trainer.faults + 1 \in 0..MaxTrainingFaults
  BY <1>1 DEF TrainingFault, TrainerState
<1>3. trainer' = [trainer EXCEPT !.faults = trainer.faults + 1, !.lost = trainer.lost \cup lost,
                                 !.unsaved = trainer.unsaved \cup unsaved]
  BY DEF TrainingFault
<1> QED
  BY <1>1, <1>2, <1>3 DEF TrainerState
------------------------------------------------------------------------------
(* A step of one run writes its own records only.                            *)
OnlyRun(r) ==
    /\ runs' \in [Runs -> RunState]
    /\ tasks' \in [Runs -> {"none", "prepared", "queued", "submitting", "recording", "failing"}]
    /\ jobs' \in [Runs -> {"none"} \cup Live \cup TerminalRun]
    /\ trainer' \in TrainerState
    /\ trainer'.up = trainer.up /\ trainer.lost \subseteq trainer'.lost
    /\ UNCHANGED requests
    /\ \A s \in Runs \ {r} : runs'[s] = runs[s] /\ tasks'[s] = tasks[s] /\ jobs'[s] = jobs[s]

LEMMA RunWrites ==
    ASSUME IInv, NEW r \in Runs, RunStep(r)
    PROVE  OnlyRun(r)
<1>0. TrainingTypeOK /\ runs \in [Runs -> RunState] /\ trainer \in TrainerState
  BY DEF IInv, TrainingTypeOK, RunState, TrainerState
<1>1. /\ tasks' \in [Runs -> {"none", "prepared", "queued", "submitting", "recording", "failing"}]
      /\ \A s \in Runs \ {r} : tasks'[s] = tasks[s]
  BY <1>0 DEF RunStep, PrepareRun, DispatchRun, BeginSubmission, SubmitJob, RecordJob, FailSubmission,
     FailPreparedRun, SubmissionFails, JobProgresses, Advance, TrainingTypeOK
<1>2. /\ jobs' \in [Runs -> {"none"} \cup Live \cup TerminalRun]
      /\ \A s \in Runs \ {r} : jobs'[s] = jobs[s]
  <2>1. PICK j \in Live \cup TerminalRun : jobs' = jobs \/ jobs' = [jobs EXCEPT ![r] = j]
    BY DEF RunStep, PrepareRun, DispatchRun, BeginSubmission, SubmitJob, RecordJob, FailSubmission,
     FailPreparedRun, SubmissionFails, JobProgresses, Live, TerminalRun
  <2> QED
    BY <1>0, <2>1 DEF TrainingTypeOK
<1>3. /\ runs' \in [Runs -> RunState]
      /\ \A s \in Runs \ {r} : runs'[s] = runs[s]
  <2>1. CASE \/ BeginSubmission(r) \/ FailSubmission(r) \/ FailPreparedRun(r)
    <3>1. PICK seen \in {"none"} \cup Active \cup TerminalRun, to \in Active \cup TerminalRun :
             runs' = runs \/ runs' = Saved(r, seen, to)
      BY <1>0, <2>1 DEF BeginSubmission, FailSubmission, FailPreparedRun, RunState, Active, TerminalRun
    <3>2. to \in {"none"} \cup Active \cup TerminalRun
      OBVIOUS
    <3>3. /\ Saved(r, seen, to) \in [Runs -> RunState]
          /\ \A s \in Runs \ {r} : Saved(r, seen, to)[s] = runs[s]
      BY <1>0, <3>2, SavedStatus
    <3> QED
      BY <1>0, <3>1, <3>3
  <2>2. CASE PrepareRun(r)
    <3>1. [runs[r] EXCEPT !.status = "QUEUED"] \in RunState
      BY <1>0 DEF RunState, Active
    <3>2. runs' = [runs EXCEPT ![r] = [runs[r] EXCEPT !.status = "QUEUED"]]
      BY <1>0, <2>2 DEF PrepareRun
    <3> QED
      BY <1>0, <3>1, <3>2
  <2>3. CASE RecordJob(r)
    <3>1. PICK s \in Live : runs' = [runs EXCEPT ![r] = [status |-> s, job |-> TRUE]]
      BY <2>3 DEF RecordJob
    <3>2. [status |-> s, job |-> TRUE] \in RunState
      BY DEF RunState, Live, Active
    <3> QED
      BY <1>0, <3>1, <3>2
  <2>4. CASE DispatchRun(r) \/ SubmitJob(r) \/ SubmissionFails(r) \/ JobProgresses(r)
    BY <1>0, <2>4 DEF DispatchRun, SubmitJob, SubmissionFails, JobProgresses
  <2> QED
    BY <2>1, <2>2, <2>3, <2>4 DEF RunStep
<1>4. /\ trainer' \in TrainerState
      /\ trainer'.up = trainer.up /\ trainer.lost \subseteq trainer'.lost
  <2>1. CASE UNCHANGED trainer
    BY <1>0, <2>1
  <2>2. CASE ~UNCHANGED trainer
    <3>1. PICK lost \in SUBSET Runs, unsaved \in SUBSET Runs : TrainingFault(lost, unsaved)
      BY <2>2 DEF RunStep, PrepareRun, DispatchRun, BeginSubmission, SubmitJob, RecordJob,
         FailSubmission, FailPreparedRun, SubmissionFails, JobProgresses
    <3> QED
      BY <1>0, <3>1, FaultWrites
  <2> QED
    BY <2>1, <2>2
<1>5. UNCHANGED requests
  BY DEF RunStep, PrepareRun, DispatchRun, BeginSubmission, SubmitJob, RecordJob, FailSubmission,
     FailPreparedRun, SubmissionFails, JobProgresses
<1> QED
  BY <1>1, <1>2, <1>3, <1>4, <1>5 DEF OnlyRun

(* The run itself: one case per step.                                        *)
LEMMA RunStaysSound ==
    ASSUME IInv, NEW r \in Runs, RunStep(r), OnlyRun(r)
    PROVE  /\ RunIsSound(r)'
           /\ runs[r].job => runs'[r].job
           /\ runs[r].job /\ jobs[r] \notin Live => jobs'[r] \notin Live
           /\ runs'[r].status \in Active => runs[r].status \in Active \/ PrepareRun(r)
           /\ tasks'[r] # "none" => trainer.up
<1>0. /\ TrainingTypeOK /\ RunIsSound(r) /\ runs[r] \in RunState /\ trainer \in TrainerState
      /\ tasks[r] # "none" => trainer.up
  BY DEF IInv, TrainingTypeOK, RunState, TrainerState
<1>1. CASE PrepareRun(r)
  <2>1. runs'[r].status = "QUEUED" /\ runs'[r].job = runs[r].job /\ tasks'[r] = "prepared" /\ jobs' = jobs
    BY <1>0, <1>1 DEF PrepareRun, Advance, TrainingTypeOK, RunState
  <2>2. runs[r].status = "none" /\ trainer.up
    BY <1>1 DEF PrepareRun
  <2> QED
    BY <1>0, <1>1, <2>1, <2>2 DEF RunIsSound, Live, TerminalRun, Active
<1>2. CASE DispatchRun(r)
  <2>1. runs' = runs /\ tasks'[r] = "queued" /\ jobs' = jobs /\ trainer' = trainer /\ tasks[r] = "prepared"
    BY <1>0, <1>2 DEF DispatchRun, Advance, TrainingTypeOK
  <2> QED
    BY <1>0, <2>1 DEF RunIsSound, Live
<1>3. CASE BeginSubmission(r)
  <2>1. /\ tasks[r] = "queued" /\ jobs' = jobs /\ trainer' = trainer /\ runs'[r].job = runs[r].job
        /\ \/ runs[r].status = "QUEUED" /\ runs'[r].status = "SUBMITTING" /\ tasks'[r] = "submitting"
           \/ runs'[r].status = runs[r].status /\ tasks'[r] = "none"
    BY <1>0, <1>3, SavedStatus DEF BeginSubmission, Advance, TrainingTypeOK, Accepted, Active
  <2> QED
    BY <1>0, <2>1 DEF RunIsSound, Live, TerminalRun, Active
<1>4. CASE SubmitJob(r)
  <2>1. /\ tasks[r] = "submitting" /\ jobs'[r] \in Live /\ trainer' = trainer /\ runs' = runs
        /\ tasks'[r] = "recording"
    BY <1>0, <1>4 DEF SubmitJob, Advance, TrainingTypeOK
  <2> QED
    BY <1>0, <2>1 DEF RunIsSound, Live, TerminalRun, Active
<1>5. CASE RecordJob(r)
  <2>1. /\ tasks[r] = "recording" /\ jobs' = jobs /\ trainer' = trainer /\ runs'[r].job
        /\ runs'[r].status \in Live /\ tasks'[r] = "none"
    BY <1>0, <1>5 DEF RecordJob, Advance, TrainingTypeOK
  <2> QED
    BY <1>0, <2>1 DEF RunIsSound, Live, TerminalRun, Active
<1>6. CASE FailSubmission(r)
  <2>1. /\ tasks[r] = "failing" /\ jobs' = jobs /\ trainer.lost \subseteq trainer'.lost
        /\ runs'[r].job = runs[r].job /\ tasks'[r] = "none"
        /\ runs'[r].status = runs[r].status
              \/ (runs'[r].status = "FAILED" /\ runs[r].status \in Active)
    BY <1>0, <1>6, SavedStatus DEF FailSubmission, Advance, TrainingTypeOK, OnlyRun, Accepted, Allowed,
       TerminalRun, Active
  <2> QED
    BY <1>0, <2>1 DEF RunIsSound, Live, TerminalRun, Active
<1>7. CASE FailPreparedRun(r)
  <2>1. /\ tasks[r] = "prepared" /\ jobs' = jobs /\ trainer.lost \subseteq trainer'.lost
        /\ runs'[r].job = runs[r].job /\ tasks'[r] = "none"
        /\ runs'[r].status = runs[r].status
              \/ (runs'[r].status = "FAILED" /\ runs[r].status \in Active)
    BY <1>0, <1>7, SavedStatus DEF FailPreparedRun, Advance, TrainingTypeOK, OnlyRun, Accepted, Allowed,
       TerminalRun, Active
  <2> QED
    BY <1>0, <2>1 DEF RunIsSound, Live, TerminalRun, Active
<1>8. CASE SubmissionFails(r)
  <2>1. /\ tasks[r] \in {"queued", "submitting", "recording"} /\ tasks'[r] = "failing" /\ runs' = runs
    BY <1>0, <1>8 DEF SubmissionFails, Advance, TrainingTypeOK
  <2>2. jobs'[r] \in Live => r \in trainer'.lost
    <3>1. CASE jobs' = jobs /\ TrainingFault(IF tasks[r] = "recording" THEN {r} ELSE {}, {})
      <4>1. trainer'.lost = trainer.lost \cup (IF tasks[r] = "recording" THEN {r} ELSE {})
        BY <1>0, <3>1, FaultWrites
      <4> QED
        BY <1>0, <2>1, <3>1, <4>1 DEF RunIsSound, Live, Active
    <3>2. CASE TrainingFault({r}, {})
      BY <1>0, <3>2, FaultWrites
    <3> QED
      BY <1>8, <3>1, <3>2 DEF SubmissionFails
  <2>3. tasks[r] = "queued" => jobs' = jobs
    BY <1>8 DEF SubmissionFails
  <2> QED
    BY <1>0, <2>1, <2>2, <2>3 DEF RunIsSound, Live, TerminalRun, Active
<1>9. CASE JobProgresses(r)
  <2>1. jobs[r] \in Live /\ jobs'[r] \in Live \cup TerminalRun /\ runs' = runs /\ tasks' = tasks /\ trainer' = trainer
    BY <1>0, <1>9 DEF JobProgresses, TrainingTypeOK, Live, TerminalRun
  <2> QED
    BY <1>0, <2>1 DEF RunIsSound, Live, TerminalRun, Active
<1> QED
  BY <1>1, <1>2, <1>3, <1>4, <1>5, <1>6, <1>7, <1>8, <1>9 DEF RunStep

(* The other runs, and the requests, which a run's step leaves alone.        *)
LEMMA OthersStaySound ==
    ASSUME IInv, NEW r \in Runs, RunStep(r)
    PROVE  /\ TrainingTypeOK'
           /\ \A s \in Runs : RunIsSound(s)'
           /\ \A q \in Requests : RequestIsSound(q)'
           /\ ~trainer'.up => \A s \in Runs : tasks'[s] = "none"
<1>0. OnlyRun(r)
  BY RunWrites
<1>1. /\ RunIsSound(r)'
      /\ runs[r].job => runs'[r].job
      /\ runs[r].job /\ jobs[r] \notin Live => jobs'[r] \notin Live
      /\ tasks'[r] # "none" => trainer.up
  BY <1>0, RunStaysSound
<1>2. TrainingTypeOK'
  BY <1>0 DEF IInv, OnlyRun, TrainingTypeOK, RunState, TrainerState
<1>3. ASSUME NEW s \in Runs PROVE RunIsSound(s)'
  <2>1. CASE s = r
    BY <1>1, <2>1
  <2>2. CASE s # r
    BY <1>0, <2>2 DEF IInv, OnlyRun, RunIsSound
  <2> QED
    BY <2>1, <2>2
<1>4. ASSUME NEW q \in Requests PROVE RequestIsSound(q)'
  <2>1. RequestIsSound(q) /\ requests' = requests
    BY <1>0 DEF IInv, OnlyRun
  <2>2. CASE requests[q].run = r
    BY <1>1, <2>1, <2>2 DEF RequestIsSound, Live
  <2>3. CASE requests[q].run # r
    BY <1>0, <2>1, <2>3 DEF RequestIsSound, OnlyRun
  <2> QED
    BY <2>2, <2>3
<1>5. ~trainer'.up => \A s \in Runs : tasks'[s] = "none"
  BY <1>0, <1>1 DEF IInv, OnlyRun
<1> QED
  BY <1>2, <1>3, <1>4, <1>5

(* The limit: a run becomes active when it is prepared, and only then.       *)
LEMMA LimitIsKept ==
    ASSUME WithinLimit, NEW r,
           \/ ActiveRuns' \subseteq ActiveRuns
           \/ ActiveRuns' \subseteq ActiveRuns \cup {r} /\ Cardinality(ActiveRuns) < MaxConcurrentRuns
    PROVE  WithinLimit'
<1>1. CASE ActiveRuns' \subseteq ActiveRuns
  BY <1>1, FS_Subset, FS_CardinalityType DEF WithinLimit
<1>2. CASE ActiveRuns' \subseteq ActiveRuns \cup {r} /\ Cardinality(ActiveRuns) < MaxConcurrentRuns
  <2>1. /\ IsFiniteSet(ActiveRuns \cup {r})
        /\ Cardinality(ActiveRuns \cup {r}) <= Cardinality(ActiveRuns) + 1
        /\ Cardinality(ActiveRuns) \in Nat
    BY FS_AddElement, FS_CardinalityType DEF WithinLimit
  <2>2. IsFiniteSet(ActiveRuns') /\ Cardinality(ActiveRuns') <= Cardinality(ActiveRuns \cup {r})
        /\ Cardinality(ActiveRuns') \in Nat /\ Cardinality(ActiveRuns \cup {r}) \in Nat
    BY <1>2, <2>1, FS_Subset, FS_CardinalityType
  <2> QED
    BY <1>2, <2>1, <2>2 DEF WithinLimit
<1> QED
  BY <1>1, <1>2

LEMMA RunKeepsInvariant ==
    ASSUME IInv, NEW r \in Runs, RunStep(r)
    PROVE  IInv'
<1>1. OnlyRun(r)
  BY RunWrites
<1>2. runs'[r].status \in Active => runs[r].status \in Active \/ PrepareRun(r)
  BY <1>1, RunStaysSound
<1>3. \/ ActiveRuns' \subseteq ActiveRuns
      \/ ActiveRuns' \subseteq ActiveRuns \cup {r} /\ Cardinality(ActiveRuns) < MaxConcurrentRuns
  BY <1>1, <1>2 DEF OnlyRun, ActiveRuns, PrepareRun
<1> QED
  BY <1>3, OthersStaySound, LimitIsKept DEF IInv
------------------------------------------------------------------------------
(* Requests.  A save by who saw an earlier status changes nothing; one that  *)
(* is accepted saves a terminal status only of a Job that is over.           *)
LEMMA RequestKeepsInvariant ==
    ASSUME IInv, NEW q \in Requests, RequestStep(q)
    PROVE  IInv'
<1>0. /\ TrainingTypeOK /\ RequestIsSound(q) /\ WithinLimit
      /\ runs \in [Runs -> RunState] /\ trainer \in TrainerState
      /\ requests \in [Requests -> RequestState] /\ requests[q] \in RequestState
  BY DEF IInv, TrainingTypeOK, RunState, TrainerState, RequestState
<1>1. ASSUME NEW r \in Runs, Refresh(q, r) \/ CancelRun(q, r)
      PROVE  IInv'
  <2>1. UNCHANGED <<runs, tasks, jobs, trainer>> /\ RunIsSound(r) /\ runs[r].status \in Active
        /\ runs[r] \in RunState /\ jobs[r] \in {"none"} \cup Live \cup TerminalRun
    BY <1>0, <1>1 DEF Refresh, CancelRun, IInv, Active, TrainingTypeOK
  <2>2. PICK rec \in RequestState :
           /\ requests' = [requests EXCEPT ![q] = rec] /\ rec.run = r /\ rec.seen = runs[r].status
           /\ rec.pc \in {"saving", "canceling"}
           /\ rec.pc = "canceling" => runs[r].job
           /\ runs[r].job \/ runs[r].status = "QUEUED"
           /\ rec.pc = "saving" /\ runs[r].job => rec.remote = jobs[r]
    <3>1. CASE Refresh(q, r)
      <4>1. [pc |-> "saving", run |-> r, seen |-> runs[r].status, remote |-> jobs[r]] \in RequestState
        BY <2>1 DEF RequestState, RunState
      <4> QED
        BY <3>1, <4>1 DEF Refresh
    <3>2. CASE CancelRun(q, r)
      <4>1. [pc |-> IF runs[r].job THEN "canceling" ELSE "saving", run |-> r,
             seen |-> runs[r].status, remote |-> "CANCELED"] \in RequestState
        BY <2>1 DEF RequestState, RunState, TerminalRun
      <4> QED
        BY <3>2, <4>1 DEF CancelRun
    <3> QED
      BY <1>1, <3>1, <3>2
  <2>3. requests' \in [Requests -> RequestState] /\ requests'[q] = rec
        /\ \A p \in Requests \ {q} : requests'[p] = requests[p]
    BY <1>0, <2>2, RequestWrites
  <2>4. ASSUME NEW p \in Requests PROVE RequestIsSound(p)'
    <3>1. CASE p = q
      <4>1. runs[r].job => runs[r].status \in Live
        BY <2>1 DEF RunIsSound, TerminalRun, Active
      <4>2. jobs[r] \in TerminalRun => jobs[r] \notin Live
        BY DEF TerminalRun, Live
      <4> QED
        BY <2>1, <2>2, <2>3, <3>1, <4>1, <4>2 DEF RequestIsSound, Live
    <3>2. CASE p # q
      BY <2>1, <2>3, <3>2 DEF IInv, RequestIsSound
    <3> QED
      BY <3>1, <3>2
  <2>5. TrainingTypeOK'
    BY <1>0, <2>1, <2>3 DEF TrainingTypeOK, RequestState
  <2>6. WithinLimit' /\ \A s \in Runs : RunIsSound(s)'
    BY <1>0, <2>1 DEF IInv, RunIsSound, WithinLimit, ActiveRuns
  <2> QED
    BY <2>1, <2>4, <2>5, <2>6 DEF IInv
<1>2. CASE CancelJob(q)
  <2> DEFINE r == requests[q].run
  <2>1. /\ requests[q].pc = "canceling" /\ r \in Runs /\ requests[q].seen \in Live /\ runs[r].job
        /\ UNCHANGED <<runs, tasks, trainer>>
    BY <1>0, <1>2 DEF CancelJob, RequestIsSound, Live
  <2>2. PICK j \in {"none"} \cup TerminalRun :
           jobs' = [jobs EXCEPT ![r] = j] /\ (jobs[r] \notin Live => j = jobs[r])
    <3>1. jobs[r] \in {"none"} \cup Live \cup TerminalRun
      BY <1>0, <2>1 DEF TrainingTypeOK
    <3> QED
      BY <1>0, <1>2, <2>1, <3>1 DEF CancelJob, TerminalRun, TrainingTypeOK
  <2>3. /\ jobs' \in [Runs -> {"none"} \cup Live \cup TerminalRun]
        /\ jobs'[r] \notin Live /\ (jobs[r] = "none" => jobs'[r] = "none")
        /\ \A s \in Runs \ {r} : jobs'[s] = jobs[s]
    BY <1>0, <2>1, <2>2 DEF TrainingTypeOK, Live, TerminalRun
  <2>4. PICK rec \in RequestState :
           /\ requests' = [requests EXCEPT ![q] = rec] /\ rec.run = r
           /\ rec.seen = requests[q].seen /\ rec.pc = "saving"
    <3>1. [requests[q] EXCEPT !.pc = "saving"] \in RequestState
      BY <1>0 DEF RequestState
    <3> QED
      BY <1>0, <1>2, <3>1 DEF CancelJob, RequestState
  <2>5. requests' \in [Requests -> RequestState] /\ requests'[q] = rec
        /\ \A p \in Requests \ {q} : requests'[p] = requests[p]
    BY <1>0, <2>4, RequestWrites
  <2>6. ASSUME NEW p \in Requests PROVE RequestIsSound(p)'
    <3>1. CASE p = q
      BY <2>1, <2>3, <2>4, <2>5, <3>1 DEF RequestIsSound
    <3>2. CASE p # q
      <4>1. RequestIsSound(p) /\ requests'[p] = requests[p]
        BY <2>5, <3>2 DEF IInv
      <4>2. CASE requests[p].run = r
        BY <2>1, <2>3, <4>1, <4>2 DEF RequestIsSound
      <4>3. CASE requests[p].run # r
        BY <2>1, <2>3, <4>1, <4>3 DEF RequestIsSound
      <4> QED
        BY <4>2, <4>3
    <3> QED
      BY <3>1, <3>2
  <2>7. ASSUME NEW s \in Runs PROVE RunIsSound(s)'
    <3>1. RunIsSound(s)
      BY DEF IInv
    <3>2. CASE s = r
      BY <2>1, <2>3, <3>1, <3>2 DEF RunIsSound
    <3>3. CASE s # r
      BY <2>1, <2>3, <3>1, <3>3 DEF RunIsSound
    <3> QED
      BY <3>2, <3>3
  <2>8. TrainingTypeOK' /\ WithinLimit'
    BY <1>0, <2>1, <2>3, <2>5 DEF TrainingTypeOK, RequestState, WithinLimit, ActiveRuns
  <2> QED
    BY <2>1, <2>6, <2>7, <2>8 DEF IInv
<1>3. CASE SaveStatus(q)
  <2>0. PICK r, seen, to : r = requests[q].run /\ seen = requests[q].seen /\ to = requests[q].remote
    OBVIOUS
  <2>1. /\ requests[q].pc = "saving" /\ r \in Runs /\ UNCHANGED <<tasks, jobs, trainer>>
        /\ runs' = Saved(r, seen, to)
        /\ to \in {"none"} \cup Active \cup TerminalRun
    BY <1>0, <1>3, <2>0 DEF SaveStatus, RequestIsSound, RequestState, Live, Active
  <2>2. /\ runs' \in [Runs -> RunState] /\ runs'[r].job = runs[r].job
        /\ \A s \in Runs \ {r} : runs'[s] = runs[s]
        /\ \/ runs'[r].status = runs[r].status
           \/ /\ runs'[r].status = to /\ runs[r].status = seen
              /\ Allowed(seen, to)
    <3>1. /\ Saved(r, seen, to) \in [Runs -> RunState]
          /\ \A s \in Runs \ {r} : Saved(r, seen, to)[s] = runs[s]
          /\ Saved(r, seen, to)[r].job = runs[r].job
          /\ Saved(r, seen, to)[r].status = IF Accepted(r, seen, to) THEN to ELSE runs[r].status
      BY <1>0, <2>1, SavedStatus
    <3> QED
      BY <2>1, <3>1 DEF Accepted
  <2>3. requests' \in [Requests -> RequestState] /\ requests'[q] = NoRequest
        /\ \A p \in Requests \ {q} : requests'[p] = requests[p]
    <3>1. NoRequest \in RequestState /\ requests' = [requests EXCEPT ![q] = NoRequest]
      BY <1>3 DEF SaveStatus, NoRequest, RequestState
    <3> QED
      BY <1>0, <3>1, RequestWrites
  <2>4. \A s \in Runs : runs'[s].job = runs[s].job
    BY <2>2
  <2>5. ASSUME NEW p \in Requests PROVE RequestIsSound(p)'
    <3>1. CASE p = q
      BY <2>3, <3>1 DEF RequestIsSound, NoRequest
    <3>2. CASE p # q
      BY <2>1, <2>3, <2>4, <3>2 DEF IInv, RequestIsSound
    <3> QED
      BY <3>1, <3>2
  <2>6. RunIsSound(r)'
    <3>0. RunIsSound(r) /\ runs'[r].job = runs[r].job /\ UNCHANGED <<tasks, jobs, trainer>>
      BY <2>1, <2>2 DEF IInv
    <3>1. CASE runs'[r].status = runs[r].status
      BY <3>0, <3>1 DEF RunIsSound
    <3>2. CASE /\ runs'[r].status = to /\ runs[r].status = "QUEUED"
               /\ seen = "QUEUED" /\ Allowed(seen, to)
      <4>1. jobs[r] = "none" /\ ~runs[r].job /\ runs'[r].status \notin {"none", "QUEUED"}
        BY <3>0, <3>2 DEF RunIsSound, Allowed, Live, TerminalRun
      <4>2. tasks[r] \notin {"submitting", "recording"}
        BY <3>0, <3>2 DEF RunIsSound
      <4> QED
        BY <3>0, <4>1, <4>2 DEF RunIsSound, Live
    <3>3. CASE /\ runs'[r].status = to /\ runs[r].status = seen
               /\ seen \in Live /\ runs[r].job
               /\ Allowed(seen, to)
      <4>1. runs'[r].status \in Live \cup TerminalRun
        BY <3>3 DEF Allowed, Live, TerminalRun
      <4>2. runs'[r].status \in TerminalRun => jobs[r] \notin Live
        BY <1>0, <2>0, <2>1, <3>3 DEF RequestIsSound
      <4>3. tasks[r] = "none"
        BY <3>0, <3>3 DEF RunIsSound
      <4> QED
        BY <3>0, <3>3, <4>1, <4>2, <4>3 DEF RunIsSound, Live, TerminalRun
    <3> QED
      BY <1>0, <2>0, <2>1, <2>2, <3>1, <3>2, <3>3 DEF RequestIsSound
  <2>7. ASSUME NEW s \in Runs PROVE RunIsSound(s)'
    <3>1. CASE s = r
      BY <2>6, <3>1
    <3>2. CASE s # r
      BY <2>1, <2>2, <3>2 DEF IInv, RunIsSound
    <3> QED
      BY <3>1, <3>2
  <2>8. ActiveRuns' \subseteq ActiveRuns
    BY <2>1, <2>2 DEF ActiveRuns, Allowed, Active
  <2>9. TrainingTypeOK' /\ WithinLimit'
    BY <1>0, <2>1, <2>2, <2>3, <2>8, LimitIsKept DEF TrainingTypeOK, RequestState, RunState
  <2> QED
    BY <2>1, <2>5, <2>7, <2>9 DEF IInv
<1>4. CASE RequestFails(q)
  <2>1. UNCHANGED <<runs, tasks, jobs>> /\ requests' = [requests EXCEPT ![q] = NoRequest]
    BY <1>4 DEF RequestFails
  <2>2. trainer' \in TrainerState /\ trainer'.up = trainer.up /\ trainer'.lost = trainer.lost
    <3>1. TrainingFault({}, {}) /\ {} \in SUBSET Runs
      BY <1>4 DEF RequestFails
    <3>2. /\ trainer' \in TrainerState /\ trainer'.up = trainer.up
          /\ trainer'.lost = trainer.lost \cup {}
      BY <1>0, <3>1, FaultWrites
    <3> QED
      BY <3>2
  <2>3. requests' \in [Requests -> RequestState] /\ requests'[q] = NoRequest
        /\ \A p \in Requests \ {q} : requests'[p] = requests[p]
    <3>1. NoRequest \in RequestState
      BY DEF NoRequest, RequestState
    <3> QED
      BY <1>0, <2>1, <3>1, RequestWrites
  <2>4. \A p \in Requests : RequestIsSound(p)'
    BY <2>1, <2>3 DEF IInv, RequestIsSound, NoRequest
  <2>5. \A s \in Runs : RunIsSound(s)'
    BY <2>1, <2>2 DEF IInv, RunIsSound
  <2>6. TrainingTypeOK' /\ WithinLimit'
    BY <1>0, <2>1, <2>2, <2>3 DEF TrainingTypeOK, RequestState, TrainerState, WithinLimit, ActiveRuns
  <2> QED
    BY <2>1, <2>2, <2>4, <2>5, <2>6 DEF IInv
<1> QED
  BY <1>1, <1>2, <1>3, <1>4 DEF RequestStep
------------------------------------------------------------------------------
LEMMA DeathKeepsInvariant == IInv /\ ProcessDies => IInv'
<1> SUFFICES ASSUME IInv, ProcessDies PROVE IInv'
  OBVIOUS
<1>0. TrainingTypeOK /\ trainer \in TrainerState /\ UNCHANGED <<runs, jobs>>
  BY DEF IInv, TrainingTypeOK, TrainerState, ProcessDies
<1>1. /\ trainer' \in TrainerState /\ ~trainer'.up
      /\ trainer'.lost = trainer.lost \cup {r \in Runs : tasks[r] = "recording"}
  <2>1. trainer.faults + 1 \in 0..MaxTrainingFaults
    BY <1>0 DEF ProcessDies, TrainerState
  <2>2. trainer' = [trainer EXCEPT !.up = FALSE, !.faults = trainer.faults + 1,
                       !.lost = trainer.lost \cup {r \in Runs : tasks[r] = "recording"}]
    BY DEF ProcessDies
  <2> QED
    BY <1>0, <2>1, <2>2 DEF TrainerState
<1>2. tasks' = [r \in Runs |-> "none"] /\ requests' = [q \in Requests |-> NoRequest]
  BY DEF ProcessDies
<1>3. TrainingTypeOK'
  BY <1>0, <1>1, <1>2 DEF TrainingTypeOK, TrainerState, NoRequest
<1>4. \A s \in Runs : RunIsSound(s)'
  BY <1>0, <1>1, <1>2 DEF IInv, RunIsSound
<1>5. \A q \in Requests : RequestIsSound(q)'
  BY <1>2 DEF RequestIsSound, NoRequest
<1>6. WithinLimit'
  BY <1>0 DEF IInv, WithinLimit, ActiveRuns
<1> QED
  BY <1>2, <1>3, <1>4, <1>5, <1>6 DEF IInv

(* What is failed at a start has no Job, or one whose id is lost.            *)
LEMMA StartKeepsInvariant == IInv /\ LoadRuns => IInv'
<1> SUFFICES ASSUME IInv, LoadRuns PROVE IInv'
  OBVIOUS
<1>0. TrainingTypeOK /\ trainer \in TrainerState /\ UNCHANGED <<tasks, requests, jobs>>
      /\ WithinLimit /\ \A r \in Runs : tasks[r] = "none"
  BY DEF IInv, TrainingTypeOK, TrainerState, LoadRuns
<1>1. trainer' \in TrainerState /\ trainer'.up /\ trainer'.lost = trainer.lost
  BY <1>0 DEF LoadRuns, TrainerState
<1>2. ASSUME NEW r \in Runs
      PROVE  /\ runs'[r] \in RunState /\ runs'[r].job = runs[r].job
             /\ IF Interrupted(runs[r]) THEN runs'[r].status = "FAILED"
                                        ELSE runs'[r].status = runs[r].status
  <2>1. runs[r] \in RunState /\ [runs[r] EXCEPT !.status = "FAILED"] \in RunState
    BY <1>0 DEF TrainingTypeOK, RunState, TerminalRun
  <2> QED
    BY <2>1 DEF LoadRuns, RunState
<1>3. TrainingTypeOK'
  BY <1>0, <1>1, <1>2 DEF TrainingTypeOK, TrainerState, RunState, LoadRuns
<1>4. ASSUME NEW r \in Runs PROVE RunIsSound(r)'
  <2>1. RunIsSound(r)
    BY DEF IInv
  <2> QED
    BY <1>0, <1>1, <1>2, <2>1 DEF RunIsSound, Interrupted, Live, TerminalRun
<1>5. \A q \in Requests : RequestIsSound(q)'
  BY <1>0, <1>2 DEF IInv, RequestIsSound
<1>6. ActiveRuns' \subseteq ActiveRuns
  BY <1>2 DEF ActiveRuns, Active
<1> QED
  BY <1>0, <1>1, <1>3, <1>4, <1>5, <1>6, LimitIsKept DEF IInv

LEMMA Inductive == IInv /\ [TrainingNext]_trainingVars => IInv'
<1> SUFFICES ASSUME IInv, [TrainingNext]_trainingVars PROVE IInv'
  OBVIOUS
<1>1. CASE UNCHANGED trainingVars
  BY <1>1 DEF IInv, TrainingTypeOK, RunIsSound, RequestIsSound, WithinLimit, ActiveRuns, trainingVars
<1>2. CASE TrainingNext
  BY <1>2, RunKeepsInvariant, RequestKeepsInvariant, DeathKeepsInvariant, StartKeepsInvariant
     DEF TrainingNext, Submission, RunStep, RequestStep
<1> QED
  BY <1>1, <1>2

LEMMA InvariantHolds == TrainingSpec => []IInv
BY InitEstablishes, Inductive, PTL DEF TrainingSpec

(* Every run, submission and request is well formed, for any number of each. *)
THEOREM TrainingTypeCorrect == TrainingSpec => []TrainingTypeOK
<1>1. IInv => TrainingTypeOK
  BY DEF IInv
<1> QED
  BY <1>1, InvariantHolds, PTL

(* A Job that is live and was not lost belongs to an active run, and there   *)
(* are no more of them than the limit, for any number of runs, however       *)
(* submissions, refreshes and cancellations overlap (_submit, get_run,       *)
(* cancel, save, _load_runs).                                                *)
THEOREM JobsAreAttended == TrainingSpec => []LiveJobsAreAttended
<1>1. ASSUME IInv PROVE LiveJobsAreAttended
  <2> DEFINE live == {r \in Runs : jobs[r] \in Live} \ trainer.lost
  <2>1. live \subseteq ActiveRuns
    BY <1>1 DEF IInv, RunIsSound, ActiveRuns, Active, Live
  <2>2. Cardinality(live) <= MaxConcurrentRuns
    BY <1>1, <2>1, FS_Subset, FS_CardinalityType DEF IInv, WithinLimit
  <2> QED
    BY <2>1, <2>2 DEF LiveJobsAreAttended
<1> QED
  BY <1>1, InvariantHolds, PTL
------------------------------------------------------------------------------
(* The review of dataset items and the promotions of a dataset.             *)

DeskState ==
    {AtRest} \cup [pc : {"prepared", "sending", "marking"}, entry : Decisions]

JobState ==
    [status : {"none", "COMPLETED", "FAILED"} \cup Pending,
     task : {"none", "prepared", "queued", "building", "built", "failing"},
     snapshot : [Items -> 0..MaxDecisions]]

(* ReviewTypeOK, with the desks and the jobs as sets of functions.           *)
Shape ==
    /\ decided \in [Items -> 0..MaxDecisions]
    /\ markers \in [Decisions -> {"none", "torn", "whole"}]
    /\ shown \in [Items -> 0..MaxDecisions]
    /\ desks \in [Desks -> DeskState]
    /\ batch \subseteq Decisions
    /\ unsent \subseteq Decisions
    /\ promotions \in [Promotions -> JobState]
    /\ target \in [Items -> 0..MaxDecisions]
    /\ review \in [up : BOOLEAN, faults : 0..MaxReviewFaults]

(* What a desk marks as delivered is in the collection.                      *)
MarkingIsSent == \A d \in Desks : desks[d].pc = "marking" => desks[d].entry \in auditLog

(* While the process is down, nobody is at work.                             *)
DownIsQuiet ==
    ~review.up => /\ \A d \in Desks : desks[d] = AtRest
                  /\ batch = {}
                  /\ \A p \in Promotions : promotions[p].task = "none"

AuditInv == Shape /\ MarkingIsSent /\ DownIsQuiet /\ ReviewsAreAudited
------------------------------------------------------------------------------
USE ReviewAssumption

DeskStep(d) == Persist(d) \/ PersistBreaks(d) \/ MarkDelivered(d) \/ MarkingBreaks(d)

LabelerStep(l) == PrepareReview(l) \/ SaveDecision(l) \/ RefuseDecision(l) \/ SaveBreaks(l)

JobStep(p) ==
    \/ CreatePromotion(p) \/ DispatchPromotion(p) \/ RefusePromotion(p)
    \/ StartPromotion(p) \/ BuildPromotion(p) \/ BuildBreaks(p)
    \/ EndPromotion(p) \/ PromotionBreaks(p)

(* A desk that is at work has an entry.                                      *)
LEMMA BusyDesk ==
    ASSUME Shape, NEW d \in Desks, desks[d].pc \in {"prepared", "sending", "marking"}
    PROVE  desks[d].entry \in Decisions
<1>1. desks[d] \in DeskState /\ AtRest.pc = "idle"
  BY DEF Shape, AtRest
<1> QED
  BY <1>1 DEF DeskState

Written == {AtRest} \cup [pc : {"prepared", "sending"}, entry : Decisions]

(* What a step of a desk, the relay or a labeler writes at the desk.         *)
LEMMA DeskWrites ==
    ASSUME Shape, NEW d \in Desks,
           NEW desk \in Written,
           desks' = [desks EXCEPT ![d] = desk]
    PROVE  /\ desks' \in [Desks -> DeskState]
           /\ MarkingIsSent /\ auditLog \subseteq auditLog' => MarkingIsSent'
<1>1. desk \in DeskState
  BY DEF DeskState, Written
<1>2. desks' \in [Desks -> DeskState]
  BY <1>1 DEF Shape
<1>3. desk.pc # "marking"
  BY DEF AtRest, Written
<1> QED
  BY <1>2, <1>3 DEF Shape, MarkingIsSent

LEMMA JobWrites ==
    ASSUME Shape, NEW p \in Promotions, NEW s, NEW t, Become(p, s, t),
           s \in {"none", "COMPLETED", "FAILED"} \cup Pending,
           t \in {"none", "prepared", "queued", "building", "built", "failing"}
    PROVE  /\ promotions' \in [Promotions -> JobState]
           /\ promotions'[p].status = s /\ promotions'[p].task = t
           /\ promotions'[p].snapshot = promotions[p].snapshot
           /\ \A q \in Promotions \ {p} : promotions'[q] = promotions[q]
<1>1. promotions[p] \in JobState
  BY DEF Shape
<1>2. [promotions[p] EXCEPT !.status = s, !.task = t] \in JobState
  BY <1>1 DEF JobState
<1>3. promotions' = [promotions EXCEPT ![p] = [promotions[p] EXCEPT !.status = s, !.task = t]]
  BY DEF Become, Shape
<1> QED
  BY <1>1, <1>2, <1>3 DEF Shape, JobState
------------------------------------------------------------------------------
LEMMA ReviewInitEstablishes == ReviewInit => AuditInv
<1> SUFFICES ASSUME ReviewInit PROVE AuditInv
  OBVIOUS
<1>1. Shape
  BY DEF ReviewInit, Shape, DeskState, JobState, NoTarget, Decisions
<1>2. MarkingIsSent /\ DownIsQuiet
  BY DEF ReviewInit, MarkingIsSent, DownIsQuiet, AtRest
<1>3. ReviewsAreAudited
  <2>1. ASSUME NEW e \in Decisions PROVE ~(e[2] <= shown[e[1]]) /\ markers[e] = "none"
    <3>1. PICK i \in Items, n \in 1..MaxDecisions : e = <<i, n>>
      BY DEF Decisions
    <3> QED
      BY <3>1 DEF ReviewInit
  <2> QED
    BY <2>1 DEF ReviewsAreAudited
<1> QED
  BY <1>1, <1>2, <1>3 DEF AuditInv

(* The steps of a labeler: only a saved decision is shown, and it is pending. *)
LEMMA LabelerKeepsAudits ==
    ASSUME AuditInv, NEW l \in Labelers, LabelerStep(l)
    PROVE  AuditInv'
<1>0. Shape /\ MarkingIsSent /\ l \in Desks
  BY DEF AuditInv, Desks
<1>1. CASE PrepareReview(l) \/ RefuseDecision(l)
  <2>1. PICK desk \in Written :
           desks' = [desks EXCEPT ![l] = desk]
    BY <1>1 DEF PrepareReview, RefuseDecision, Sit, Written
  <2>2. desks' \in [Desks -> DeskState] /\ MarkingIsSent'
    BY <1>0, <1>1, <2>1, DeskWrites DEF PrepareReview, RefuseDecision
  <2>3. Shape'
    BY <1>0, <1>1, <2>2 DEF PrepareReview, RefuseDecision, Shape, workspace, reviewMemory, promoting
  <2>4. DownIsQuiet'
    BY <1>0, <1>1 DEF AuditInv, PrepareReview, RefuseDecision, DownIsQuiet, AtRest
  <2>5. ReviewsAreAudited'
    BY <1>1 DEF AuditInv, PrepareReview, RefuseDecision, ReviewsAreAudited, workspace, reviewMemory
  <2> QED
    BY <2>2, <2>3, <2>4, <2>5 DEF AuditInv
<1>2. CASE SaveDecision(l)
  <2> DEFINE e == desks[l].entry
  <2>1. e \in Decisions
    BY <1>0, <1>2, BusyDesk DEF SaveDecision
  <2>2. PICK i \in Items, n \in 1..MaxDecisions : e = <<i, n>>
    BY <2>1 DEF Decisions
  <2>3. /\ decided' = [decided EXCEPT ![i] = n] /\ shown' = [shown EXCEPT ![i] = n]
        /\ unsent' = unsent \cup {e} /\ shown[i] = n - 1
    BY <1>2, <2>2 DEF SaveDecision, Conflicts
  <2>4. PICK desk \in Written :
           desks' = [desks EXCEPT ![l] = desk]
    BY <1>2, <2>1 DEF SaveDecision, Sit, Written
  <2>5. desks' \in [Desks -> DeskState] /\ MarkingIsSent'
    BY <1>0, <1>2, <2>4, DeskWrites DEF SaveDecision
  <2>6. Shape'
    BY <1>0, <1>2, <2>1, <2>3, <2>5 DEF SaveDecision, Shape, promoting
  <2>7. DownIsQuiet'
    BY <1>0, <1>2 DEF AuditInv, SaveDecision, DownIsQuiet, AtRest
  <2>8. ReviewsAreAudited'
    <3>1. review' = review /\ markers' = markers /\ auditLog' = auditLog
      BY <1>2 DEF SaveDecision
    <3>2. ASSUME NEW d \in Decisions, d[2] <= shown'[d[1]], review.up
          PROVE  d \in auditLog \cup unsent \cup {e}
      <4>1. PICK j \in Items, k \in 1..MaxDecisions : d = <<j, k>>
        BY DEF Decisions
      <4>2. shown[i] \in Nat /\ shown[j] \in Nat
        BY <1>0 DEF Shape
      <4>3. CASE j = i /\ k = n
        BY <2>2, <4>1, <4>3
      <4>4. CASE ~(j = i /\ k = n)
        <5>1. k <= shown[j]
          BY <1>0, <2>3, <3>2, <4>1, <4>2, <4>4 DEF Shape
        <5> QED
          BY <3>2, <4>1, <5>1 DEF AuditInv, ReviewsAreAudited
      <4> QED
        BY <4>3, <4>4
    <3> QED
      BY <2>3, <3>1, <3>2 DEF AuditInv, ReviewsAreAudited
  <2> QED
    BY <2>5, <2>6, <2>7, <2>8 DEF AuditInv
<1>3. CASE SaveBreaks(l)
  <2>1. desks[l].entry \in Decisions
    BY <1>0, <1>3, BusyDesk DEF SaveBreaks
  <2>2. AtRest \in Written /\ desks' = [desks EXCEPT ![l] = AtRest]
    BY <1>3 DEF SaveBreaks, Sit, Written
  <2>3. desks' \in [Desks -> DeskState] /\ MarkingIsSent'
    BY <1>0, <1>3, <2>2, DeskWrites DEF SaveBreaks
  <2>4. decided' \in [Items -> 0..MaxDecisions]
    <3>1. PICK i \in Items, n \in 1..MaxDecisions : desks[l].entry = <<i, n>>
      BY <2>1 DEF Decisions
    <3>2. decided' = decided \/ decided' = [decided EXCEPT ![i] = n]
      BY <1>3, <3>1 DEF SaveBreaks
    <3> QED
      BY <1>0, <3>2 DEF Shape
  <2>5. Shape'
    BY <1>0, <1>3, <2>3, <2>4 DEF SaveBreaks, ReviewFault, Shape, promoting, reviewMemory
  <2>6. DownIsQuiet'
    BY <1>0, <1>3 DEF AuditInv, SaveBreaks, DownIsQuiet, AtRest, ReviewFault, promoting
  <2>7. ReviewsAreAudited'
    <3>1. UNCHANGED <<markers, auditLog, shown, unsent>> /\ (review'.up => review.up)
      BY <1>0, <1>3 DEF Shape, SaveBreaks, ReviewFault, reviewMemory
    <3> QED
      BY <3>1 DEF AuditInv, ReviewsAreAudited
  <2> QED
    BY <2>3, <2>5, <2>6, <2>7 DEF AuditInv
<1> QED
  BY <1>1, <1>2, <1>3 DEF LabelerStep

(* The steps of a delivery: an entry leaves the pending ones when it is in    *)
(* the collection, and its marker is written no sooner.                      *)
LEMMA DeskKeepsAudits ==
    ASSUME AuditInv, NEW d \in Desks, DeskStep(d)
    PROVE  AuditInv'
<1>0. Shape /\ MarkingIsSent /\ DownIsQuiet /\ ReviewsAreAudited
  BY DEF AuditInv
<1>1. desks[d].pc \in {"sending", "marking"}
  BY DEF DeskStep, Persist, PersistBreaks, MarkDelivered, MarkingBreaks
<1>2. desks[d].entry \in Decisions /\ desks[d] \in DeskState /\ review.up
  BY <1>0, <1>1, BusyDesk DEF Shape, DownIsQuiet, AtRest
<1>3. UNCHANGED <<decided, shown, promotions, target>> /\ (review'.up <=> review.up)
  BY <1>0 DEF DeskStep, Persist, PersistBreaks, MarkDelivered, MarkingBreaks, ReviewFault, Shape,
     workspace, reviewMemory, promoting
<1>4. review' \in [up : BOOLEAN, faults : 0..MaxReviewFaults] /\ batch' \subseteq Decisions
  BY <1>0 DEF DeskStep, Persist, PersistBreaks, MarkDelivered, MarkingBreaks, ReviewFault, Shape,
     Deferred
<1>5. auditLog \subseteq auditLog'
  BY DEF DeskStep, Persist, PersistBreaks, MarkDelivered, MarkingBreaks, Stored
<1>6. CASE Persist(d) \/ PersistBreaks(d)
  <2>1. UNCHANGED <<markers, unsent>>
    BY <1>6 DEF Persist, PersistBreaks, workspace, reviewMemory
  <2>2. desks' \in [Desks -> DeskState] /\ MarkingIsSent'
    <3>1. CASE desks' = [desks EXCEPT ![d] = AtRest]
      <4>1. AtRest \in Written
        BY DEF Written
      <4> QED
        BY <1>0, <1>5, <3>1, <4>1, DeskWrites
    <3>2. CASE /\ desks' = [desks EXCEPT ![d] = [desks[d] EXCEPT !.pc = "marking"]]
               /\ desks[d].entry \in auditLog'
      <4>1. desks[d] \in [pc : {"prepared", "sending", "marking"}, entry : Decisions]
        BY <1>1, <1>2 DEF DeskState, AtRest
      <4>2. PICK desk \in DeskState : desks' = [desks EXCEPT ![d] = desk] /\ desk.entry = desks[d].entry
        <5>1. [desks[d] EXCEPT !.pc = "marking"] \in DeskState
          BY <4>1 DEF DeskState
        <5>2. [desks[d] EXCEPT !.pc = "marking"].entry = desks[d].entry
          BY <4>1
        <5> QED
          BY <3>2, <5>1, <5>2
      <4>3. desks' \in [Desks -> DeskState]
        BY <1>0, <4>2 DEF Shape
      <4>4. ASSUME NEW c \in Desks, desks'[c].pc = "marking" PROVE desks'[c].entry \in auditLog'
        BY <1>0, <1>5, <3>2, <4>2, <4>4 DEF Shape, MarkingIsSent
      <4> QED
        BY <4>3, <4>4 DEF MarkingIsSent
    <3> QED
      BY <1>6, <3>1, <3>2 DEF Persist, PersistBreaks, Deferred, Sit, Stored
  <2>3. Shape'
    BY <1>0, <1>3, <1>4, <2>1, <2>2 DEF Shape
  <2>4. ReviewsAreAudited'
    BY <1>0, <1>3, <1>5, <2>1 DEF ReviewsAreAudited
  <2> QED
    BY <1>2, <1>3, <2>2, <2>3, <2>4 DEF AuditInv, DownIsQuiet
<1>7. CASE MarkDelivered(d) \/ MarkingBreaks(d)
  <2>1. desks' = [desks EXCEPT ![d] = AtRest] /\ AtRest \in Written
    BY <1>7 DEF MarkDelivered, MarkingBreaks, Deferred, Sit, Written
  <2>2. desks' \in [Desks -> DeskState] /\ MarkingIsSent'
    BY <1>0, <1>5, <2>1, DeskWrites
  <2>3. PICK m \in {"none", "torn", "whole"} : markers' = [markers EXCEPT ![desks[d].entry] = m]
    BY <1>0, <1>2, <1>7 DEF MarkDelivered, MarkingBreaks, Shape
  <2>4. unsent' \subseteq unsent /\ unsent \subseteq unsent' \cup {desks[d].entry}
    BY <1>7 DEF MarkDelivered, MarkingBreaks, reviewMemory
  <2>5. desks[d].entry \in auditLog'
    BY <1>0, <1>5, <1>7 DEF MarkDelivered, MarkingBreaks, MarkingIsSent
  <2>6. Shape'
    BY <1>0, <1>2, <1>3, <1>4, <2>2, <2>3, <2>4 DEF Shape
  <2>7. ReviewsAreAudited'
    <3>1. ASSUME NEW e \in Decisions, markers'[e] # "none" PROVE e \in auditLog'
      BY <1>0, <1>2, <1>5, <2>3, <2>5, <3>1 DEF Shape, ReviewsAreAudited
    <3>2. ASSUME NEW e \in Decisions, review'.up, e[2] <= shown'[e[1]]
          PROVE  e \in auditLog' \cup unsent'
      BY <1>0, <1>3, <1>5, <2>4, <2>5, <3>2 DEF ReviewsAreAudited
    <3> QED
      BY <3>1, <3>2 DEF ReviewsAreAudited
  <2> QED
    BY <1>2, <1>3, <2>2, <2>6, <2>7 DEF AuditInv, DownIsQuiet
<1> QED
  BY <1>6, <1>7 DEF DeskStep

(* The relay takes entries to deliver, and changes no record of them.        *)
LEMMA RelayKeepsAudits ==
    ASSUME AuditInv, TakePending \/ TakeNext
    PROVE  AuditInv'
<1>0. Shape /\ MarkingIsSent /\ DownIsQuiet /\ ReviewsAreAudited
  BY DEF AuditInv
<1>1. UNCHANGED <<workspace, auditLog, inexact, reviewMemory, promoting, review>>
  BY DEF TakePending, TakeNext
<1>2. ReviewsAreAudited'
  BY <1>0, <1>1 DEF ReviewsAreAudited, workspace, reviewMemory
<1>3. CASE TakePending
  BY <1>0, <1>1, <1>2, <1>3 DEF TakePending, AuditInv, Shape, MarkingIsSent, DownIsQuiet, workspace,
     reviewMemory, promoting
<1>4. CASE TakeNext
  <2>1. PICK e \in batch : batch' = batch \ {e} /\ Sit(Relay, [pc |-> "sending", entry |-> e])
    BY <1>4 DEF TakeNext
  <2>2. Relay \in Desks /\ [pc |-> "sending", entry |-> e] \in Written
    BY <1>0, <2>1 DEF Desks, Written, Shape
  <2>3. desks' \in [Desks -> DeskState] /\ MarkingIsSent'
    BY <1>0, <1>1, <2>1, <2>2, DeskWrites DEF Sit
  <2>4. Shape'
    BY <1>0, <1>1, <2>1, <2>3 DEF Shape, workspace, reviewMemory, promoting
  <2>5. DownIsQuiet'
    BY <1>0, <1>1, <2>1 DEF DownIsQuiet
  <2> QED
    BY <1>2, <2>3, <2>4, <2>5 DEF AuditInv
<1> QED
  BY <1>3, <1>4

(* A promotion copies decisions and changes none of their records.           *)
LEMMA JobShape ==
    ASSUME AuditInv, NEW p \in Promotions, JobStep(p)
    PROVE  /\ promotions' \in [Promotions -> JobState]
           /\ target' \in [Items -> 0..MaxDecisions]
           /\ review' \in [up : BOOLEAN, faults : 0..MaxReviewFaults]
           /\ review.up
           /\ review'.up
           /\ UNCHANGED audits
<1>0. Shape /\ DownIsQuiet /\ promotions[p] \in JobState
  BY DEF AuditInv, Shape
<1>1. promotions[p].status \in {"none", "COMPLETED", "FAILED"} \cup Pending
      /\ promotions[p].snapshot \in [Items -> 0..MaxDecisions]
  BY <1>0 DEF JobState
<1>2. promotions' \in [Promotions -> JobState]
  <2>1. CASE CreatePromotion(p)
    <3>1. [status |-> "QUEUED", task |-> "prepared", snapshot |-> shown] \in JobState
      BY <1>0 DEF JobState, Shape, Pending
    <3> QED
      BY <1>0, <2>1, <3>1 DEF CreatePromotion, Shape
  <2>2. CASE ~CreatePromotion(p)
    <3>1. PICK s \in {"none", "COMPLETED", "FAILED"} \cup Pending,
               t \in {"none", "prepared", "queued", "building", "built", "failing"} :
             Become(p, s, t)
      BY <1>1, <2>2 DEF JobStep, DispatchPromotion, RefusePromotion, StartPromotion, BuildPromotion,
         BuildBreaks, EndPromotion, PromotionBreaks, Pending
    <3> QED
      BY <1>0, <3>1, JobWrites
  <2> QED
    BY <2>1, <2>2
<1>3. target' \in [Items -> 0..MaxDecisions]
  BY <1>0, <1>1 DEF JobStep, CreatePromotion, DispatchPromotion, RefusePromotion, StartPromotion,
     BuildPromotion, BuildBreaks, EndPromotion, PromotionBreaks, Promoted, Shape
<1>4. review' \in [up : BOOLEAN, faults : 0..MaxReviewFaults] /\ review'.up = review.up
  BY <1>0 DEF JobStep, CreatePromotion, DispatchPromotion, RefusePromotion, StartPromotion,
     BuildPromotion, BuildBreaks, EndPromotion, PromotionBreaks, ReviewFault, Shape
<1>5. UNCHANGED audits
  BY DEF JobStep, CreatePromotion, DispatchPromotion, RefusePromotion, StartPromotion,
     BuildPromotion, BuildBreaks, EndPromotion, PromotionBreaks
<1>6. review.up
  BY <1>0 DEF JobStep, CreatePromotion, DispatchPromotion, RefusePromotion, StartPromotion,
     BuildPromotion, BuildBreaks, EndPromotion, PromotionBreaks, DownIsQuiet
<1> QED
  BY <1>2, <1>3, <1>4, <1>5, <1>6

LEMMA JobKeepsAudits ==
    ASSUME AuditInv, NEW p \in Promotions, JobStep(p)
    PROVE  AuditInv'
<1>1. Shape'
  BY JobShape DEF AuditInv, Shape, audits, workspace, reviewMemory
<1>2. MarkingIsSent' /\ DownIsQuiet' /\ ReviewsAreAudited'
  BY JobShape DEF AuditInv, MarkingIsSent, DownIsQuiet, ReviewsAreAudited, audits, workspace,
     reviewMemory
<1> QED
  BY <1>1, <1>2 DEF AuditInv
------------------------------------------------------------------------------
LEMMA CrashKeepsAudits == AuditInv /\ ReviewCrash => AuditInv'
<1> SUFFICES ASSUME AuditInv, ReviewCrash PROVE AuditInv'
  OBVIOUS
<1>0. Shape /\ ReviewsAreAudited
  BY DEF AuditInv
<1>1. promotions' \in [Promotions -> JobState]
  <2>1. ASSUME NEW p \in Promotions PROVE [promotions[p] EXCEPT !.task = "none"] \in JobState
    <3>1. promotions[p] \in JobState
      BY <1>0 DEF Shape
    <3> QED
      BY <3>1 DEF JobState
  <2> QED
    BY <2>1 DEF ReviewCrash
<1>2. Shape'
  BY <1>0, <1>1 DEF ReviewCrash, Shape, DeskState, workspace
<1>3. ASSUME NEW p \in Promotions PROVE promotions'[p].task = "none"
  BY <1>0 DEF ReviewCrash, Shape, JobState
<1>4. MarkingIsSent' /\ DownIsQuiet'
  BY <1>3 DEF ReviewCrash, MarkingIsSent, DownIsQuiet, AtRest
<1>5. ~review'.up /\ UNCHANGED <<markers, auditLog>>
  BY DEF ReviewCrash, workspace
<1>6. ReviewsAreAudited'
  BY <1>0, <1>5 DEF ReviewsAreAudited
<1> QED
  BY <1>2, <1>4, <1>6 DEF AuditInv

(* A decision without a marker is pending again, one with a marker is in the *)
(* collection.                                                               *)
LEMMA RestartKeepsAudits == AuditInv /\ ReviewRestart => AuditInv'
<1> SUFFICES ASSUME AuditInv, ReviewRestart PROVE AuditInv'
  OBVIOUS
<1>0. Shape /\ DownIsQuiet /\ ReviewsAreAudited
  BY DEF AuditInv
<1>1. UNCHANGED <<decided, markers, auditLog, desks, batch, target>> /\ shown' = decided
      /\ unsent' = Undelivered
  BY DEF ReviewRestart, workspace
<1>2. promotions' \in [Promotions -> JobState]
  <2>1. ASSUME NEW p \in Promotions PROVE Recovered(promotions[p]) \in JobState
    BY <1>0 DEF Shape, JobState, Recovered
  <2> QED
    BY <2>1 DEF ReviewRestart
<1>3. Shape'
  BY <1>0, <1>1, <1>2 DEF ReviewRestart, Shape, Undelivered
<1>4. MarkingIsSent' /\ DownIsQuiet'
  BY <1>0, <1>1 DEF ReviewRestart, MarkingIsSent, DownIsQuiet, AtRest, Shape
<1>5. ASSUME NEW e \in Decisions, e[2] <= decided[e[1]] PROVE e \in auditLog \cup Undelivered
  BY <1>0, <1>5 DEF ReviewsAreAudited, Undelivered
<1>6. ReviewsAreAudited'
  BY <1>0, <1>1, <1>5 DEF ReviewsAreAudited
<1> QED
  BY <1>3, <1>4, <1>6 DEF AuditInv

LEMMA AuditsStep == AuditInv /\ [ReviewNext]_reviewVars => AuditInv'
<1> SUFFICES ASSUME AuditInv, [ReviewNext]_reviewVars PROVE AuditInv'
  OBVIOUS
<1>1. CASE UNCHANGED reviewVars
  BY <1>1 DEF AuditInv, Shape, MarkingIsSent, DownIsQuiet, ReviewsAreAudited, reviewVars, workspace,
     reviewMemory, promoting
<1>2. CASE ReviewNext
  BY <1>2, LabelerKeepsAudits, DeskKeepsAudits, RelayKeepsAudits, JobKeepsAudits, CrashKeepsAudits,
     RestartKeepsAudits DEF ReviewNext, LabelerStep, DeskStep, JobStep
<1> QED
  BY <1>1, <1>2

LEMMA AuditsHold == ReviewSpec => []AuditInv
BY ReviewInitEstablishes, AuditsStep, PTL DEF ReviewSpec

(* No decision that is shown goes without its audit entry, in the collection *)
(* or pending, and no marker is written before the entry is there, for any   *)
(* number of items, requests and failures (review_item, flush_pending_audits,*)
(* _load_pending_audits).                                                    *)
THEOREM DecisionsAreAudited == ReviewSpec => []ReviewsAreAudited
<1>1. AuditInv => ReviewsAreAudited
  BY DEF AuditInv
<1> QED
  BY <1>1, AuditsHold, PTL
------------------------------------------------------------------------------
(* The promotions.  Of those to one target one is pending, and the target,   *)
(* once it is there, holds what that one or a completed one was created with.*)
JobIsSound(p) ==
    LET j == promotions[p]
    IN  /\ j.status = "none" => j.task = "none"
        /\ j.status # "none" => j.snapshot # NoTarget
        /\ j.task \in {"prepared", "queued"} => j.status = "QUEUED"
        /\ j.task \in {"building", "built", "failing"} => j.status = "RUNNING"
        /\ j.status \in Pending /\ target # NoTarget => target = j.snapshot
        /\ j.task = "built" => target # NoTarget
        /\ j.status = "COMPLETED" => target = j.snapshot

OneIsPending ==
    \A p, q \in Promotions :
       promotions[p].status \in Pending /\ promotions[q].status \in Pending => p = q

JobInv == AuditInv /\ OneIsPending /\ \A p \in Promotions : JobIsSound(p)

(* A step of one job that leaves its snapshot and the target alone.          *)
LEMMA JobMoves ==
    ASSUME JobInv, NEW p \in Promotions, NEW s, NEW t, Become(p, s, t),
           s \in {"COMPLETED", "FAILED"} \cup Pending,
           t \in {"none", "prepared", "queued", "building", "built", "failing"},
           promotions[p].status \in Pending,
           target' = target \/ (target = NoTarget /\ target' = promotions[p].snapshot),
           t \in {"prepared", "queued"} => s = "QUEUED",
           t \in {"building", "built", "failing"} => s = "RUNNING",
           t = "built" => target' # NoTarget,
           s = "COMPLETED" => target' # NoTarget
    PROVE  OneIsPending' /\ \A q \in Promotions : JobIsSound(q)'
<1>0. Shape
  BY DEF JobInv, AuditInv
<1>1. /\ promotions'[p].status = s /\ promotions'[p].task = t
      /\ promotions'[p].snapshot = promotions[p].snapshot
      /\ \A q \in Promotions \ {p} : promotions'[q] = promotions[q]
  BY <1>0, JobWrites
<1>2. JobIsSound(p) /\ OneIsPending
  BY DEF JobInv
<1>3. OneIsPending'
  BY <1>1, <1>2 DEF OneIsPending
<1>4. JobIsSound(p)'
  BY <1>1, <1>2 DEF JobIsSound, NoTarget, Pending
<1>5. ASSUME NEW q \in Promotions \ {p} PROVE JobIsSound(q)'
  <2>1. JobIsSound(q) /\ promotions[q].status \notin Pending /\ promotions'[q] = promotions[q]
    BY <1>1, <1>2 DEF JobInv, OneIsPending
  <2>2. promotions[q].status = "COMPLETED" => target' = target
    BY <2>1 DEF JobIsSound
  <2> QED
    BY <2>1, <2>2 DEF JobIsSound, NoTarget, Pending
<1> QED
  BY <1>3, <1>4, <1>5

LEMMA JobsStayOwn ==
    ASSUME JobInv, NEW p \in Promotions, JobStep(p)
    PROVE  OneIsPending' /\ \A q \in Promotions : JobIsSound(q)'
<1>0. Shape /\ JobIsSound(p) /\ OneIsPending /\ promotions[p] \in JobState
  BY DEF JobInv, AuditInv, Shape
<1>1. CASE CreatePromotion(p)
  <2>1. /\ promotions' = [promotions EXCEPT ![p] =
              [status |-> "QUEUED", task |-> "prepared", snapshot |-> shown]]
        /\ target = NoTarget /\ target' = target /\ TargetIsFree
    BY <1>1 DEF CreatePromotion
  <2>2. shown # NoTarget
    <3>1. PICK i \in Items : shown[i] > 0
      BY <1>1 DEF CreatePromotion
    <3> QED
      BY <3>1 DEF NoTarget
  <2>3. promotions'[p] = [status |-> "QUEUED", task |-> "prepared", snapshot |-> shown]
        /\ \A q \in Promotions \ {p} : promotions'[q] = promotions[q]
    BY <1>0, <2>1 DEF Shape
  <2>4. OneIsPending'
    BY <2>1, <2>3 DEF OneIsPending, TargetIsFree
  <2>5. ASSUME NEW q \in Promotions PROVE JobIsSound(q)'
    <3>1. CASE q = p
      BY <2>1, <2>2, <2>3, <3>1 DEF JobIsSound, NoTarget, Pending
    <3>2. CASE q # p
      BY <2>1, <2>3, <3>2 DEF JobInv, JobIsSound, NoTarget, Pending
    <3> QED
      BY <3>1, <3>2
  <2> QED
    BY <2>4, <2>5
<1>2. CASE ~CreatePromotion(p)
  <2>1. promotions[p].status \in Pending
    BY <1>0, <1>2 DEF JobStep, DispatchPromotion, RefusePromotion, StartPromotion, BuildPromotion,
       BuildBreaks, EndPromotion, PromotionBreaks, JobIsSound, Pending
  <2>2. CASE DispatchPromotion(p) \/ RefusePromotion(p) \/ StartPromotion(p)
    <3>1. target' = target
      BY <2>2 DEF DispatchPromotion, RefusePromotion, StartPromotion
    <3>2. PICK s \in {"QUEUED", "FAILED", "RUNNING"}, t \in {"none", "queued", "building"} :
             Become(p, s, t) /\ (t = "queued" => s = "QUEUED") /\ (t = "building" => s = "RUNNING")
      BY <2>2 DEF DispatchPromotion, RefusePromotion, StartPromotion
    <3> QED
      BY <2>1, <3>1, <3>2, JobMoves DEF Pending
  <2>3. CASE BuildPromotion(p) \/ BuildBreaks(p)
    <3>1. target' = target \/ (target = NoTarget /\ target' = promotions[p].snapshot)
      <4>1. target' = target \/ target' = Promoted(p)
        BY <2>3 DEF BuildPromotion, BuildBreaks
      <4> QED
        BY <4>1 DEF Promoted
    <3>2. PICK t \in {"built", "failing"} : Become(p, "RUNNING", t) /\ (t = "built" => target' = Promoted(p))
      BY <2>3 DEF BuildPromotion, BuildBreaks
    <3>3. t = "built" => target' # NoTarget
      BY <1>0, <2>1, <3>2 DEF JobIsSound, Promoted, Pending
    <3> QED
      BY <2>1, <3>1, <3>2, <3>3, JobMoves DEF Pending
  <2>4. CASE EndPromotion(p) \/ PromotionBreaks(p)
    <3>1. target' = target
      BY <2>4 DEF EndPromotion, PromotionBreaks, audits
    <3>2. PICK s \in {"COMPLETED", "FAILED"} \cup Pending :
             Become(p, s, "none") /\ (s = "COMPLETED" => promotions[p].task = "built")
      BY <2>1, <2>4 DEF EndPromotion, PromotionBreaks, Pending
    <3>3. s = "COMPLETED" => target' # NoTarget
      BY <1>0, <3>1, <3>2 DEF JobIsSound
    <3> QED
      BY <2>1, <3>1, <3>2, <3>3, JobMoves
  <2> QED
    BY <1>2, <2>2, <2>3, <2>4 DEF JobStep
<1> QED
  BY <1>1, <1>2

(* Of the jobs the restart finds pending, one at most, the target is its own.*)
LEMMA ProcessKeepsJobs ==
    ASSUME JobInv, ReviewCrash \/ ReviewRestart
    PROVE  OneIsPending' /\ \A q \in Promotions : JobIsSound(q)'
<1>0. Shape /\ DownIsQuiet /\ OneIsPending /\ target' = target
  BY DEF JobInv, AuditInv, ReviewCrash, ReviewRestart
<1>1. CASE ReviewCrash
  <2>1. ASSUME NEW p \in Promotions
        PROVE  /\ promotions'[p].task = "none"
               /\ promotions'[p].status = promotions[p].status
               /\ promotions'[p].snapshot = promotions[p].snapshot
    BY <1>0, <1>1 DEF ReviewCrash, Shape, JobState
  <2> QED
    BY <1>0, <2>1 DEF JobInv, OneIsPending, JobIsSound, NoTarget, Pending
<1>2. CASE ReviewRestart
  <2>1. ASSUME NEW p \in Promotions
        PROVE  /\ promotions'[p].task = "none"
               /\ promotions'[p].snapshot = promotions[p].snapshot
               /\ promotions'[p].status \notin Pending
               /\ \/ promotions'[p].status = promotions[p].status
                  \/ /\ promotions[p].status \in Pending
                     /\ promotions'[p].status # "none"
                     /\ promotions'[p].status = "COMPLETED" => target # NoTarget
    <3>1. promotions[p] \in JobState /\ promotions'[p] = Recovered(promotions[p])
          /\ promotions[p].task = "none"
      BY <1>0, <1>2 DEF ReviewRestart, Shape, DownIsQuiet
    <3> QED
      BY <3>1 DEF Recovered, JobState, Pending
  <2> QED
    BY <1>0, <2>1 DEF JobInv, OneIsPending, JobIsSound, NoTarget, Pending
<1> QED
  BY <1>1, <1>2

LEMMA JobsStep == JobInv /\ [ReviewNext]_reviewVars => JobInv'
<1> SUFFICES ASSUME JobInv, [ReviewNext]_reviewVars PROVE JobInv'
  OBVIOUS
<1>1. AuditInv'
  BY AuditsStep DEF JobInv
<1>2. CASE UNCHANGED promoting
  <2>1. OneIsPending' /\ \A p \in Promotions : JobIsSound(p)'
    BY <1>2 DEF JobInv, promoting, OneIsPending, JobIsSound, NoTarget, Pending
  <2> QED
    BY <1>1, <2>1 DEF JobInv
<1>3. CASE ~UNCHANGED promoting
  <2>1. (\E p \in Promotions : JobStep(p)) \/ ReviewCrash \/ ReviewRestart
    BY <1>3 DEF ReviewNext, JobStep, PrepareReview, SaveDecision, RefuseDecision, SaveBreaks,
       TakePending, TakeNext, Persist, PersistBreaks, MarkDelivered, MarkingBreaks, reviewVars
  <2> QED
    BY <1>1, <2>1, JobsStayOwn, ProcessKeepsJobs DEF JobInv
<1> QED
  BY <1>1, <1>2, <1>3 DEF JobInv

(* A completed promotion's source holds the decisions its own job was        *)
(* created with, for any number of jobs to one target, interrupted, failed   *)
(* or recovered (create_promotion_job, _recover_interrupted_job).            *)
THEOREM CompletedJobsAreOwn == ReviewSpec => []CompletedIsOwn
<1>1. ReviewInit => JobInv
  <2> SUFFICES ASSUME ReviewInit PROVE OneIsPending /\ \A p \in Promotions : JobIsSound(p)
    BY ReviewInitEstablishes DEF JobInv
  <2> QED
    BY DEF ReviewInit, OneIsPending, JobIsSound, NoTarget, Pending
<1>2. JobInv => CompletedIsOwn
  BY DEF JobInv, JobIsSound, CompletedIsOwn
<1> QED
  BY <1>1, <1>2, JobsStep, PTL DEF ReviewSpec
===============================================================================
