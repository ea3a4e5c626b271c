------------------------------- MODULE MCServices -------------------------------
(* Services that share no state, checked in one run: each behaviour is one   *)
(* of the service that subject names, the others do not take a step.         *)
EXTENDS ActionExecution, CircuitBreaker, Retention, ModelTraining

VARIABLE subject

On(s) == subject = s

Services == {"actions", "breaker", "retention", "training"}

ServicesInit ==
    /\ subject \in Services
    /\ Init /\ BreakerInit /\ RetentionInit /\ TrainingInit
    /\ ~On("retention") => world.transactions

ServicesNext ==
    /\ UNCHANGED subject
    /\ IF On("actions") THEN Next ELSE UNCHANGED vars
    /\ IF On("breaker") THEN BreakerNext ELSE UNCHANGED breakerVars
    /\ IF On("retention") THEN RetentionNext ELSE UNCHANGED retentionVars
    /\ IF On("training") THEN TrainingNext ELSE UNCHANGED trainingVars

(* The fairness of each service, while it is the one that runs.             *)
ServicesFairness ==
    /\ WF_vars(On("actions") /\ Tick)
    /\ WF_vars(On("actions") /\ \E w \in Workers : pc[w] = "idle" /\ Begin(w))
    /\ \A w \in Workers :
          /\ WF_vars(On("actions") /\ Claim(w))
          /\ WF_vars(On("actions") /\ ClaimDenied(w))
          /\ WF_vars(On("actions") /\ ReadDenied(w))
          /\ WF_vars(On("actions") /\ Execute(w))
          /\ WF_vars(On("actions") /\ Mark(w))
    /\ WF_breakerVars(On("breaker") /\ RecoveryTick)
    /\ \A c \in Calls :
          /\ WF_breakerVars(On("breaker") /\ Ask(c))
          /\ WF_breakerVars(On("breaker") /\ (Admit(c) \/ AdmitProbe(c) \/ Reject(c)))
          /\ WF_breakerVars(On("breaker") /\ (Succeeded(c) \/ FailedCall(c) \/ Cancelled(c)))
    /\ WF_retentionVars(On("retention") /\ Time)
    /\ \A w \in RetentionWorkers :
          /\ \A k \in Kinds : SF_retentionVars(On("retention") /\ ReadPins(w, k))
          /\ WF_retentionVars(On("retention") /\ PassSteps(w))
    /\ WF_trainingVars(On("training") /\ LoadRuns)
    /\ \A r \in Runs : WF_trainingVars(On("training") /\ Submission(r))

ServicesSpec ==
    ServicesInit /\ [][ServicesNext]_<<subject, vars, breakerVars, retentionVars, trainingVars>>
        /\ ServicesFairness
================================================================================
