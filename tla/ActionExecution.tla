--------------------------- MODULE ActionExecution ---------------------------
(***************************************************************************)
(* The durable claim of one rule action: ActionEngine.execute and the      *)
(* MongoDB document it drives (action_executions).  A document is keyed by *)
(* (event, rule, action), documents never touch one another, so one        *)
(* document and the workers that compete for it are the whole protocol.    *)
(*                                                                         *)
(* A worker runs execute() once for every delivery of the event.  Each     *)
(* await is a step of its own: the worker reads its clock, claims, runs    *)
(* the handler and marks the result, and may be overtaken, crash or lose a *)
(* reply between any two of them.                                          *)
(*                                                                         *)
(* Time is kept as ages that saturate: doc.age is the time since updatedAt *)
(* and lag[w] the time since w read the `now` it claims with, for as long  *)
(* as w claims or works on that claim (0 otherwise).                       *)
(***************************************************************************)
EXTENDS Integers, FiniteSets

CONSTANTS
    Workers,        \* event workers that may receive the event
    MaxAttempts,    \* rule_engine.action_max_attempts
    StaleAfter,     \* rule_engine.action_claim_stale_seconds, in ticks
    MaxLag,         \* bound: ticks between reading `now` and the claim
    MaxFaults       \* bound: crashes and MongoDB errors, in all

ASSUME WorkersAssumption == IsFiniteSet(Workers)
ASSUME MaxAttemptsAssumption == MaxAttempts \in Nat \ {0}
ASSUME StaleAfterAssumption == StaleAfter \in Nat
ASSUME MaxLagAssumption == MaxLag \in Nat
ASSUME MaxFaultsAssumption == MaxFaults \in Nat

VARIABLES
    doc,        \* the action_executions document
    pc,         \* where each worker stands in execute()
    lag,        \* age of the `now` each worker claims or claimed with
    outcome,    \* what the handler of each worker came to
    effects,    \* times the handler acted on the outside world
    faults      \* crashes and MongoDB errors so far

vars == <<doc, pc, lag, outcome, effects, faults>>
------------------------------------------------------------------------------
AgeCap == StaleAfter + MaxLag + 1

Status == {"ABSENT", "RUNNING", "SUCCEEDED", "FAILED"}

Doc == [status : Status, attemptCount : 0..MaxAttempts, age : 0..AgeCap]

PC == {"idle", "claiming", "denied", "executing", "marking", "succeeded", "skipped"}

(* success: the handler returned.  retryable: ActionHandlerError with       *)
(* retryable=True, a timeout or any other exception.  terminal:             *)
(* retryable=False.  deferred: the circuit was open, consume_attempt=False. *)
Outcome == {"success", "retryable", "terminal", "deferred"}

TypeOK ==
    /\ doc \in Doc
    /\ pc \in [Workers -> PC]
    /\ lag \in [Workers -> 0..AgeCap]
    /\ outcome \in [Workers -> Outcome]
    /\ effects \in Nat
    /\ faults \in 0..MaxFaults

Init ==
    /\ doc = [status |-> "ABSENT", attemptCount |-> 0, age |-> 0]
    /\ pc = [w \in Workers |-> "idle"]
    /\ lag = [w \in Workers |-> 0]
    /\ outcome = [w \in Workers |-> "success"]
    /\ effects = 0
    /\ faults = 0
------------------------------------------------------------------------------
(* Variants of the definitions below that a slip in the code would give;    *)
(* the README names the property each of them breaks.                       *)
BugClaimKeepsAge(w) ==
    doc' = [status |-> "RUNNING", attemptCount |-> doc.attemptCount + 1,
            age |-> IF doc.status = "ABSENT" THEN lag[w] ELSE doc.age]

BugReclaimFailedOnly(w) == doc.attemptCount < MaxAttempts /\ doc.status = "FAILED"

BugRefundAnyFailure(o) ==
    CASE o = "terminal" -> MaxAttempts
      [] o = "success"  -> doc.attemptCount
      [] OTHER          -> doc.attemptCount - 1

BugTerminalIsFailed == doc.status \in {"SUCCEEDED", "FAILED"}

(* updatedAt < now - stale, with both instants seen as ages. *)
Stale(w) == doc.age - lag[w] > StaleAfter

(* The filter of the claim's find_one_and_update. *)
Reclaimable(w) ==
    /\ doc.attemptCount < MaxAttempts
    /\ \/ doc.status = "FAILED"
       \/ doc.status = "RUNNING" /\ Stale(w)

Granted(w) == doc.status = "ABSENT" \/ Reclaimable(w)

(* insert_one of a new document, or the reclaiming update of an old one. *)
ClaimWrite(w) ==
    doc' = [status |-> "RUNNING", attemptCount |-> doc.attemptCount + 1, age |-> lag[w]]

(* Effect of mark_succeeded / mark_failed on a RUNNING document.  Neither   *)
(* names the attempt that is reporting.                                     *)
MarkedAttempts(o) ==
    CASE o = "terminal" -> MaxAttempts
      [] o = "deferred" -> doc.attemptCount - 1
      [] OTHER          -> doc.attemptCount

MarkMatches == doc.status = "RUNNING"

MarkWrite(o) ==
    IF MarkMatches
    THEN doc' = [status |-> IF o = "success" THEN "SUCCEEDED" ELSE "FAILED",
                 attemptCount |-> MarkedAttempts(o),
                 age |-> 0]
    ELSE doc' = doc
------------------------------------------------------------------------------
Fault == faults < MaxFaults /\ faults' = faults + 1

(* The clock reading of w is of no more use to it. *)
Drop(w) == lag' = [lag EXCEPT ![w] = 0]

(* The event is delivered to w, which reads its clock. *)
Begin(w) ==
    /\ pc[w] \in {"idle", "succeeded", "skipped"}
    /\ pc' = [pc EXCEPT ![w] = "claiming"]
    /\ lag' = [lag EXCEPT ![w] = 0]
    /\ UNCHANGED <<doc, outcome, effects, faults>>

Claim(w) ==
    /\ pc[w] = "claiming"
    /\ Granted(w)
    /\ ClaimWrite(w)
    /\ pc' = [pc EXCEPT ![w] = "executing"]
    /\ UNCHANGED <<lag, outcome, effects, faults>>

ClaimDenied(w) ==
    /\ pc[w] = "claiming"
    /\ ~Granted(w)
    /\ pc' = [pc EXCEPT ![w] = "denied"]
    /\ Drop(w)
    /\ UNCHANGED <<doc, outcome, effects, faults>>

(* MongoDB fails the claim: the write may or may not have been applied. *)
ClaimError(w) ==
    /\ pc[w] = "claiming"
    /\ Fault
    /\ \/ doc' = doc
       \/ Granted(w) /\ ClaimWrite(w)
    /\ pc' = [pc EXCEPT ![w] = "idle"]
    /\ Drop(w)
    /\ UNCHANGED <<outcome, effects>>

(* The two durable skip decisions execute() knows. *)
Skippable ==
    \/ doc.status = "SUCCEEDED"
    \/ doc.status = "FAILED" /\ doc.attemptCount >= MaxAttempts

(* A denied worker reads the document again and either skips the action or  *)
(* raises ACTION_ALREADY_RUNNING, which leaves the message pending.         *)
ReadDenied(w) ==
    /\ pc[w] = "denied"
    /\ pc' = [pc EXCEPT ![w] = IF Skippable THEN "skipped" ELSE "idle"]
    /\ UNCHANGED <<doc, lag, outcome, effects, faults>>

ActsOutside(o, e) ==
    CASE o = "success"  -> e = 1
      [] o = "deferred" -> e = 0
      [] OTHER          -> e \in {0, 1}

(* The handler ends.  One that fails may have acted first: a timeout or a   *)
(* 5xx says nothing of what the receiver did.                               *)
Execute(w) ==
    /\ pc[w] = "executing"
    /\ \E o \in Outcome, e \in {0, 1} :
          /\ ActsOutside(o, e)
          /\ outcome' = [outcome EXCEPT ![w] = o]
          /\ effects' = effects + e
    /\ pc' = [pc EXCEPT ![w] = "marking"]
    /\ UNCHANGED <<doc, lag, faults>>

(* A mark that matches no RUNNING document raises PersistenceError. *)
Mark(w) ==
    /\ pc[w] = "marking"
    /\ MarkWrite(outcome[w])
    /\ pc' = [pc EXCEPT ![w] = IF outcome[w] = "success" /\ MarkMatches
                               THEN "succeeded" ELSE "idle"]
    /\ Drop(w)
    /\ UNCHANGED <<outcome, effects, faults>>

(* MongoDB fails the mark, applied or not. *)
MarkError(w) ==
    /\ pc[w] = "marking"
    /\ Fault
    /\ \/ doc' = doc
       \/ MarkWrite(outcome[w])
    /\ pc' = [pc EXCEPT ![w] = "idle"]
    /\ Drop(w)
    /\ UNCHANGED <<outcome, effects>>

(* The worker dies or is cancelled; what it had claimed stays claimed. *)
Crash(w) ==
    /\ pc[w] \in {"claiming", "denied", "executing", "marking"}
    /\ Fault
    /\ effects' = effects
    /\ pc' = [pc EXCEPT ![w] = "idle"]
    /\ Drop(w)
    /\ UNCHANGED <<doc, outcome>>

(* The worker dies after its handler acted. *)
CrashAfterEffect(w) ==
    /\ pc[w] = "executing"
    /\ Fault
    /\ effects' = effects + 1
    /\ pc' = [pc EXCEPT ![w] = "idle"]
    /\ Drop(w)
    /\ UNCHANGED <<doc, outcome>>

Older(age) == IF age < AgeCap THEN age + 1 ELSE AgeCap

(* The workers that hold a claim, as far as they know.                      *)
InFlight == {w \in Workers : pc[w] \in {"executing", "marking"}}

Tick ==
    /\ \A w \in Workers : pc[w] = "claiming" => lag[w] < MaxLag
    /\ doc' = [doc EXCEPT !.age = Older(doc.age)]
    /\ lag' = [w \in Workers |-> IF pc[w] = "claiming" \/ w \in InFlight
                                 THEN Older(lag[w]) ELSE lag[w]]
    /\ UNCHANGED <<pc, outcome, effects, faults>>

Next ==
    \/ \E w \in Workers :
          \/ Begin(w)
          \/ Claim(w)
          \/ ClaimDenied(w)
          \/ ClaimError(w)
          \/ ReadDenied(w)
          \/ Execute(w)
          \/ Mark(w)
          \/ MarkError(w)
          \/ Crash(w)
          \/ CrashAfterEffect(w)
    \/ Tick

Spec == Init /\ [][Next]_vars

(* Redis hands an unacknowledged event to some worker again and again, and  *)
(* execute() has no wait of its own, so a delivery once begun runs to its   *)
(* end.  Faults are not fair and, being bounded, stop.                      *)
Fairness ==
    /\ WF_vars(Tick)
    /\ WF_vars(\E w \in Workers : pc[w] = "idle" /\ Begin(w))
    /\ \A w \in Workers :
          /\ WF_vars(Claim(w))
          /\ WF_vars(ClaimDenied(w))
          /\ WF_vars(ReadDenied(w))
          /\ WF_vars(Execute(w))
          /\ WF_vars(Mark(w))

FairSpec == Spec /\ Fairness
------------------------------------------------------------------------------
(* Nothing more will be done: it succeeded, or failed with no attempt left. *)
Terminal ==
    /\ doc.status \in {"SUCCEEDED", "FAILED"}
    /\ doc.status = "FAILED" => doc.attemptCount = MaxAttempts

(* Claims that may still act, and deferrals whose refund is still to come.  *)
Reserved ==
    {w \in Workers : \/ pc[w] = "executing"
                     \/ pc[w] = "marking" /\ outcome[w] = "deferred"}

(* However workers crash, lose replies, reclaim from one another, report    *)
(* late or are refunded by an open circuit, the handler acts on the outside *)
(* world no more often than the document counts attempts, hence at most     *)
(* action_max_attempts times (RULES_AND_ALERTS.md: failures stop there).    *)
EffectsWithinBudget == effects <= doc.attemptCount /\ doc.attemptCount <= MaxAttempts

(* What execute() told the event worker outlives every later mark and       *)
(* claim: a True means SUCCEEDED for good and a False means a durable skip  *)
(* decision, so the message may be acknowledged.                            *)
ResultsAreDurable ==
    \A w \in Workers :
        /\ pc[w] = "succeeded" => doc.status = "SUCCEEDED"
        /\ pc[w] = "skipped" => Terminal

(* A succeeded or exhausted execution never changes again, although late    *)
(* reports of overtaken workers are not fenced (DOMAIN_MODEL.md, rule 15).  *)
TerminalIsFinal ==
    [][Terminal => /\ doc'.status = doc.status
                   /\ doc'.attemptCount = doc.attemptCount]_vars

(* No worker is still at work on a claim made longer than StaleAfter ago:   *)
(* action_timeout_seconds is configured well below the stale interval.      *)
NobodyOverstays == \A w \in InFlight : lag[w] <= StaleAfter

AtMostOneActs == \A v, w \in InFlight : v = w

(* As long as nobody overstays, no two workers act on one execution or      *)
(* report it at the same time, although claims work from old clock          *)
(* readings, reports name no attempt, and workers that died or lost a reply *)
(* leave a document behind that others take over (MONGODB_SCHEMA.md,        *)
(* action_executions: atomic insert/reclaim prevents concurrent consumers   *)
(* from owning the same attempt).                                           *)
OneActsAtATime == []NobodyOverstays => []AtMostOneActs

(* While attempts remain, an execution nobody is working on is taken up     *)
(* again: a crash or a retryable failure is recovered.  Only a claim whose  *)
(* reply was lost can use up the last attempt with nobody to act on it.     *)
AbandonedIsRetried ==
    (/\ doc.status \in {"RUNNING", "FAILED"}
     /\ doc.attemptCount < MaxAttempts
     /\ InFlight = {})
    ~> (InFlight # {} \/ Terminal \/ doc.attemptCount = MaxAttempts)

(* What the documents promise for every killed worker: the stale claim      *)
(* recovers and the message does not stay pending for ever.  The last       *)
(* attempt breaks it.                                                       *)
KilledClaimRecovers ==
    (doc.status = "RUNNING" /\ InFlight = {}) ~> (InFlight # {} \/ Terminal)
==============================================================================
