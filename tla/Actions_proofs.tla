---------------------------- MODULE Actions_proofs ----------------------------
(* Proofs about ActionExecution and CircuitBreaker, for any number of        *)
(* workers, attempts, faults, calls, any threshold and any recovery time.    *)
(* The inductive invariant of ActionExecution counts, beside the effects     *)
(* that have happened, the claims that may still cause one: every such claim *)
(* has an attempt of the document set aside for it.                          *)
EXTENDS ActionExecution, CircuitBreaker, FiniteSetTheorems, TLAPS

(* Action executions and their claims.                                      *)

(* An execution that was never inserted has no attempt. *)
AbsentIsUntouched == doc.status = "ABSENT" => doc.attemptCount = 0

(* Attempts cover the effects so far and the claims and refunds to come. *)
AttemptsAreReserved == effects + Cardinality(Reserved) <= doc.attemptCount

IInv ==
    /\ TypeOK
    /\ AbsentIsUntouched
    /\ AttemptsAreReserved
    /\ ResultsAreDurable
------------------------------------------------------------------------------
LEMMA ReservedIsFinite == IsFiniteSet(Reserved) /\ Cardinality(Reserved) \in Nat
BY WorkersAssumption, FS_Subset, FS_CardinalityType DEF Reserved

(* Ages start at zero and saturate. *)
LEMMA OlderIsAge ==
    0 \in 0..AgeCap /\ \A age \in 0..AgeCap : Older(age) \in 0..AgeCap
BY StaleAfterAssumption, MaxLagAssumption DEF Older, AgeCap

(* A step that reserves nothing new needs no more attempts than before. *)
LEMMA ReservedShrinks ==
    ASSUME Reserved' \subseteq Reserved
    PROVE  /\ Cardinality(Reserved') \in Nat
           /\ Cardinality(Reserved') <= Cardinality(Reserved)
BY ReservedIsFinite, FS_Subset, FS_CardinalityType

(* Taking one worker out of Reserved frees exactly one attempt. *)
LEMMA ReservedLosesOne ==
    ASSUME NEW w \in Reserved, Reserved' = Reserved \ {w}
    PROVE  /\ Cardinality(Reserved') \in Nat
           /\ Cardinality(Reserved') = Cardinality(Reserved) - 1
           /\ Cardinality(Reserved) >= 1
<1>1. /\ IsFiniteSet(Reserved \ {w})
      /\ Cardinality(Reserved \ {w}) = Cardinality(Reserved) - 1
  BY ReservedIsFinite, FS_RemoveElement
<1>2. Cardinality(Reserved \ {w}) \in Nat
  BY <1>1, FS_CardinalityType
<1> QED
  BY <1>1, <1>2, ReservedIsFinite

(* A granted claim sets aside at most one attempt more. *)
LEMMA ReservedGainsOne ==
    ASSUME NEW w, Reserved' \subseteq Reserved \cup {w}
    PROVE  /\ Cardinality(Reserved') \in Nat
           /\ Cardinality(Reserved') <= Cardinality(Reserved) + 1
<1>1. /\ IsFiniteSet(Reserved \cup {w})
      /\ Cardinality(Reserved \cup {w}) <= Cardinality(Reserved) + 1
  BY ReservedIsFinite, FS_AddElement
<1> QED
  BY <1>1, FS_Subset, FS_CardinalityType, ReservedIsFinite
------------------------------------------------------------------------------
(* The document a granted claim writes: one attempt more, within the limit. *)
LEMMA ClaimWriteFacts ==
    ASSUME IInv, NEW w \in Workers, Granted(w), ClaimWrite(w)
    PROVE  /\ doc' \in Doc
           /\ doc'.status = "RUNNING"
           /\ doc'.attemptCount = doc.attemptCount + 1
           /\ ~Terminal
<1> USE MaxAttemptsAssumption, StaleAfterAssumption, MaxLagAssumption
<1>1. doc.attemptCount + 1 \in 0..MaxAttempts
  BY DEF IInv, TypeOK, Doc, Status, AbsentIsUntouched, Granted, Reclaimable
<1>2. lag[w] \in 0..AgeCap
  BY DEF IInv, TypeOK, AgeCap
<1>3. ~Terminal
  BY DEF Granted, Reclaimable, Terminal, IInv, TypeOK, Doc
<1> QED
  BY <1>1, <1>2, <1>3 DEF ClaimWrite, Doc, Status

(* The document a mark writes, whichever worker reports. *)
LEMMA MarkWriteFacts ==
    ASSUME IInv, NEW o \in Outcome, MarkWrite(o),
           o = "deferred" => doc.attemptCount >= 1
    PROVE  /\ doc' \in Doc
           /\ doc'.status = "ABSENT" => doc' = doc
           /\ ~MarkMatches => doc' = doc
           /\ MarkMatches /\ o = "success" => doc'.status = "SUCCEEDED"
           /\ MarkMatches /\ o = "deferred" => doc'.attemptCount = doc.attemptCount - 1
           /\ o # "deferred" => doc'.attemptCount >= doc.attemptCount
           /\ doc'.attemptCount <= MaxAttempts
<1> USE MaxAttemptsAssumption, StaleAfterAssumption, MaxLagAssumption
<1>1. doc.attemptCount \in 0..MaxAttempts
  BY DEF IInv, TypeOK, Doc
<1>2. MarkedAttempts(o) \in 0..MaxAttempts
  BY <1>1 DEF MarkedAttempts, Outcome
<1>3. 0 \in 0..AgeCap
  BY DEF AgeCap
<1>4. CASE MarkMatches
  BY <1>1, <1>2, <1>3, <1>4 DEF MarkWrite, MarkedAttempts, Outcome, Doc, Status
<1>5. CASE ~MarkMatches
  BY <1>1, <1>5 DEF MarkWrite, IInv, TypeOK, Doc
<1> QED
  BY <1>4, <1>5
------------------------------------------------------------------------------
LEMMA InitEstablishes == Init => IInv
<1> SUFFICES ASSUME Init PROVE IInv
  OBVIOUS
<1> USE MaxAttemptsAssumption, StaleAfterAssumption, MaxLagAssumption,
        MaxFaultsAssumption
<1>1. TypeOK
  BY DEF Init, TypeOK, Doc, Status, PC, Outcome, AgeCap
<1>2. AbsentIsUntouched
  BY DEF Init, AbsentIsUntouched
<1>3. AttemptsAreReserved
  <2>1. Reserved = {}
    BY DEF Init, Reserved
  <2> QED
    BY <2>1, FS_EmptySet DEF Init, AttemptsAreReserved
<1>4. ResultsAreDurable
  BY DEF Init, ResultsAreDurable
<1> QED
  BY <1>1, <1>2, <1>3, <1>4 DEF IInv

(* What every action leaves alone or changes of the document, as far as     *)
(* Terminal goes: it is absorbing, whoever moves.                           *)
LEMMA TerminalStep ==
    ASSUME IInv, [Next]_vars, Terminal
    PROVE  /\ doc'.status = doc.status
           /\ doc'.attemptCount = doc.attemptCount
<1>1. doc \in Doc
  BY DEF IInv, TypeOK
<1>2. ~MarkMatches
  BY DEF Terminal, MarkMatches
<1>3. ASSUME NEW w \in Workers PROVE ~Granted(w)
  BY <1>1, MaxAttemptsAssumption DEF Granted, Reclaimable, Terminal, Doc
<1>4. ASSUME NEW o, MarkWrite(o) PROVE doc' = doc
  BY <1>2, <1>4 DEF MarkWrite
<1>5. ASSUME NEW w \in Workers,
             \/ Begin(w) \/ Claim(w) \/ ClaimDenied(w) \/ ClaimError(w)
             \/ ReadDenied(w) \/ Execute(w) \/ Mark(w) \/ MarkError(w)
             \/ Crash(w) \/ CrashAfterEffect(w)
      PROVE  doc' = doc
  BY <1>3, <1>4, <1>5
     DEF Begin, Claim, ClaimDenied, ClaimError, ReadDenied, Execute, Mark,
         MarkError, Crash, CrashAfterEffect
<1>6. CASE Tick
  BY <1>1, <1>6 DEF Tick, Doc
<1>7. CASE UNCHANGED vars
  BY <1>7 DEF vars
<1> QED
  BY <1>5, <1>6, <1>7 DEF Next
------------------------------------------------------------------------------
(* A worker that reports a deferral is one of those with a reservation. *)
LEMMA DeferralHasAttempt ==
    ASSUME IInv, NEW w \in Workers, pc[w] = "marking"
    PROVE  outcome[w] = "deferred" => doc.attemptCount >= 1
<1> SUFFICES ASSUME outcome[w] = "deferred" PROVE doc.attemptCount >= 1
  OBVIOUS
<1>1. w \in Reserved
  BY DEF Reserved
<1>2. Cardinality(Reserved) >= 1
  BY <1>1, ReservedIsFinite, FS_EmptySet
<1> QED
  BY <1>2, ReservedIsFinite DEF IInv, TypeOK, Doc, AttemptsAreReserved

(* The document and the worker's row after a mark, delivered or not. *)
LEMMA MarkKeepsBudget ==
    ASSUME IInv, NEW w \in Workers, pc[w] = "marking",
           doc' = doc \/ MarkWrite(outcome[w]),
           NEW p \in PC, p \notin {"executing", "marking"},
           pc' = [pc EXCEPT ![w] = p], outcome' = outcome, effects' = effects
    PROVE  /\ doc' \in Doc
           /\ AbsentIsUntouched'
           /\ AttemptsAreReserved'
<1>1. outcome[w] \in Outcome /\ doc \in Doc /\ effects \in Nat /\ pc \in [Workers -> PC]
  BY DEF IInv, TypeOK
<1>2. /\ doc' \in Doc
      /\ doc'.status = "ABSENT" => doc' = doc
      /\ outcome[w] # "deferred" => doc'.attemptCount >= doc.attemptCount
      /\ outcome[w] = "deferred" => doc'.attemptCount >= doc.attemptCount - 1
  <2>1. CASE doc' = doc
    BY <1>1, <2>1 DEF Doc
  <2>2. CASE MarkWrite(outcome[w])
    BY <1>1, <2>2, MarkWriteFacts, DeferralHasAttempt DEF Doc
  <2> QED
    BY <2>1, <2>2
<1>3. AbsentIsUntouched'
  BY <1>2 DEF IInv, AbsentIsUntouched
<1>4. AttemptsAreReserved'
  <2>1. Reserved' = Reserved \ {w}
    BY <1>1 DEF Reserved
  <2>2. CASE outcome[w] = "deferred"
    <3>1. w \in Reserved
      BY <2>2 DEF Reserved
    <3>2. /\ Cardinality(Reserved') \in Nat
          /\ Cardinality(Reserved') = Cardinality(Reserved) - 1
      BY <2>1, <3>1, ReservedLosesOne
    <3> QED
      BY <1>1, <1>2, <2>2, <3>2, ReservedIsFinite DEF IInv, AttemptsAreReserved, Doc
  <2>3. CASE outcome[w] # "deferred"
    BY <1>1, <1>2, <2>1, <2>3, ReservedShrinks, ReservedIsFinite
       DEF IInv, AttemptsAreReserved, Doc
  <2> QED
    BY <2>2, <2>3
<1> QED
  BY <1>2, <1>3, <1>4

(* The claim's document, with or without the worker that asked for it. *)
LEMMA ClaimKeepsBudget ==
    ASSUME IInv, NEW w \in Workers, pc[w] = "claiming", Granted(w), ClaimWrite(w),
           NEW p \in PC, pc' = [pc EXCEPT ![w] = p], p # "marking",
           outcome' = outcome, effects' = effects
    PROVE  /\ doc' \in Doc
           /\ AbsentIsUntouched'
           /\ AttemptsAreReserved'
<1>1. doc \in Doc /\ effects \in Nat /\ pc \in [Workers -> PC]
  BY DEF IInv, TypeOK
<1>2. Reserved' \subseteq Reserved \cup {w}
  BY <1>1 DEF Reserved
<1> QED
  BY <1>1, <1>2, ClaimWriteFacts, ReservedGainsOne, ReservedIsFinite
     DEF IInv, AbsentIsUntouched, AttemptsAreReserved, Doc

(* A step that keeps the document's attempts, adds no effect and reserves   *)
(* nothing new.                                                             *)
LEMMA QuietStep ==
    ASSUME IInv, Reserved' \subseteq Reserved, effects' = effects,
           doc'.status = doc.status, doc'.attemptCount = doc.attemptCount
    PROVE  AbsentIsUntouched' /\ AttemptsAreReserved'
BY ReservedShrinks, ReservedIsFinite
   DEF IInv, TypeOK, Doc, AbsentIsUntouched, AttemptsAreReserved
------------------------------------------------------------------------------
(* What execute() returned stays true: TerminalStep protects old results,   *)
(* and the two steps that produce one establish it.                         *)
LEMMA ResultsStep == IInv /\ [Next]_vars => ResultsAreDurable'
<1> SUFFICES ASSUME IInv, [Next]_vars, NEW w \in Workers
             PROVE  /\ pc'[w] = "succeeded" => doc'.status = "SUCCEEDED"
                    /\ pc'[w] = "skipped" => Terminal'
  BY DEF ResultsAreDurable
<1>1. /\ doc \in Doc /\ pc \in [Workers -> PC] /\ outcome \in [Workers -> Outcome]
      /\ pc[w] = "succeeded" => doc.status = "SUCCEEDED"
      /\ pc[w] = "skipped" => Terminal
  BY DEF IInv, TypeOK, ResultsAreDurable
<1>2. CASE pc'[w] = pc[w]
  BY <1>1, <1>2, TerminalStep DEF Terminal
<1>3. CASE pc'[w] # pc[w]
  <2>1. PICK v \in Workers :
            \/ Begin(v) \/ Claim(v) \/ ClaimDenied(v) \/ ClaimError(v)
            \/ ReadDenied(v) \/ Execute(v) \/ Mark(v) \/ MarkError(v)
            \/ Crash(v) \/ CrashAfterEffect(v)
    BY <1>3 DEF Next, Tick, vars
  <2>2. v = w
    BY <1>1, <1>3, <2>1 DEF Begin, Claim, ClaimDenied, ClaimError, ReadDenied,
       Execute, Mark, MarkError, Crash, CrashAfterEffect
  <2>3. CASE ReadDenied(w)
    BY <1>1, <2>3, MaxAttemptsAssumption DEF ReadDenied, Skippable, Terminal, Doc
  <2>4. CASE Mark(w)
    <3>1. MarkWrite(outcome[w]) /\ (outcome[w] = "deferred" => doc.attemptCount >= 1)
      BY <2>4, DeferralHasAttempt DEF Mark
    <3>2. MarkMatches /\ outcome[w] = "success" => doc'.status = "SUCCEEDED"
      BY <1>1, <3>1, MarkWriteFacts
    <3> QED
      BY <1>1, <2>4, <3>2 DEF Mark
  <2>5. CASE ~ReadDenied(w) /\ ~Mark(w)
    BY <1>1, <2>1, <2>2, <2>5 DEF Begin, Claim, ClaimDenied, ClaimError,
       Execute, MarkError, Crash, CrashAfterEffect
  <2> QED
    BY <2>3, <2>4, <2>5
<1> QED
  BY <1>2, <1>3

(* The document and its budget, one step per action. *)
LEMMA BudgetStep ==
    IInv /\ [Next]_vars => doc' \in Doc /\ AbsentIsUntouched' /\ AttemptsAreReserved'
<1> SUFFICES ASSUME IInv, [Next]_vars
             PROVE  doc' \in Doc /\ AbsentIsUntouched' /\ AttemptsAreReserved'
  OBVIOUS
<1>0. /\ doc \in Doc /\ pc \in [Workers -> PC] /\ effects \in Nat
      /\ outcome \in [Workers -> Outcome]
  BY DEF IInv, TypeOK
<1>1. ASSUME NEW w \in Workers, Begin(w) \/ ClaimDenied(w) \/ ReadDenied(w) \/ Crash(w)
      PROVE  doc' \in Doc /\ AbsentIsUntouched' /\ AttemptsAreReserved'
  <2>1. doc' = doc /\ effects' = effects /\ Reserved' \subseteq Reserved
    BY <1>0, <1>1 DEF Begin, ClaimDenied, ReadDenied, Crash, Reserved
  <2> QED
    BY <1>0, <2>1, QuietStep
<1>2. ASSUME NEW w \in Workers, Claim(w)
      PROVE  doc' \in Doc /\ AbsentIsUntouched' /\ AttemptsAreReserved'
  BY <1>2, ClaimKeepsBudget DEF Claim, PC
<1>3. ASSUME NEW w \in Workers, ClaimError(w)
      PROVE  doc' \in Doc /\ AbsentIsUntouched' /\ AttemptsAreReserved'
  <2>1. CASE doc' = doc
    <3>1. Reserved' \subseteq Reserved
      BY <1>0, <1>3 DEF ClaimError, Reserved
    <3> QED
      BY <1>0, <1>3, <2>1, <3>1, QuietStep DEF ClaimError
  <2>2. CASE Granted(w) /\ ClaimWrite(w)
    BY <1>3, <2>2, ClaimKeepsBudget DEF ClaimError, PC
  <2> QED
    BY <1>3, <2>1, <2>2 DEF ClaimError
<1>4. ASSUME NEW w \in Workers, Execute(w)
      PROVE  doc' \in Doc /\ AbsentIsUntouched' /\ AttemptsAreReserved'
  <2>1. PICK o \in Outcome, e \in {0, 1} :
            /\ ActsOutside(o, e)
            /\ outcome' = [outcome EXCEPT ![w] = o]
            /\ effects' = effects + e
    BY <1>4 DEF Execute
  <2>2. doc' = doc /\ w \in Reserved
    BY <1>4 DEF Execute, Reserved
  <2>3. CASE o = "deferred"
    <3>1. Reserved' \subseteq Reserved /\ effects' = effects
      BY <1>0, <1>4, <2>1, <2>3 DEF Execute, Reserved, ActsOutside
    <3> QED
      BY <1>0, <2>2, <3>1, QuietStep
  <2>4. CASE o # "deferred"
    <3>1. Reserved' = Reserved \ {w}
      BY <1>0, <1>4, <2>1, <2>4 DEF Execute, Reserved
    <3>2. /\ Cardinality(Reserved') \in Nat
          /\ Cardinality(Reserved') = Cardinality(Reserved) - 1
      BY <2>2, <3>1, ReservedLosesOne
    <3> QED
      BY <1>0, <2>1, <2>2, <3>2, ReservedIsFinite
         DEF IInv, AbsentIsUntouched, AttemptsAreReserved, Doc
  <2> QED
    BY <2>3, <2>4
<1>5. ASSUME NEW w \in Workers, Mark(w) \/ MarkError(w)
      PROVE  doc' \in Doc /\ AbsentIsUntouched' /\ AttemptsAreReserved'
  <2>1. PICK p \in {"succeeded", "idle"} : pc' = [pc EXCEPT ![w] = p]
    BY <1>5 DEF Mark, MarkError
  <2>2. /\ pc[w] = "marking" /\ outcome' = outcome /\ effects' = effects
        /\ doc' = doc \/ MarkWrite(outcome[w])
    BY <1>5 DEF Mark, MarkError
  <2> QED
    BY <2>1, <2>2, MarkKeepsBudget DEF PC
<1>6. ASSUME NEW w \in Workers, CrashAfterEffect(w)
      PROVE  doc' \in Doc /\ AbsentIsUntouched' /\ AttemptsAreReserved'
  <2>1. doc' = doc /\ effects' = effects + 1 /\ w \in Reserved /\ Reserved' = Reserved \ {w}
    BY <1>0, <1>6 DEF CrashAfterEffect, Reserved
  <2>2. /\ Cardinality(Reserved') \in Nat
        /\ Cardinality(Reserved') = Cardinality(Reserved) - 1
    BY <2>1, ReservedLosesOne
  <2> QED
    BY <1>0, <2>1, <2>2, ReservedIsFinite
       DEF IInv, AbsentIsUntouched, AttemptsAreReserved, Doc
<1>7. CASE Tick
  <2>1. /\ doc' \in Doc /\ doc'.status = doc.status
        /\ doc'.attemptCount = doc.attemptCount
    BY <1>0, <1>7, OlderIsAge DEF Tick, Doc
  <2>2. Reserved' = Reserved /\ effects' = effects
    BY <1>7 DEF Tick, Reserved
  <2> QED
    BY <2>1, <2>2, QuietStep
<1>8. CASE UNCHANGED vars
  BY <1>0, <1>8, QuietStep DEF vars, Reserved
<1> QED
  BY <1>1, <1>2, <1>3, <1>4, <1>5, <1>6, <1>7, <1>8 DEF Next
------------------------------------------------------------------------------
(* Everything of TypeOK but the document, which BudgetStep takes care of.   *)
LEMMA TypeStep == IInv /\ [Next]_vars => TypeOK'
<1> SUFFICES ASSUME IInv, [Next]_vars PROVE TypeOK'
  OBVIOUS
<1> USE MaxLagAssumption, MaxFaultsAssumption DEF TypeOK, PC
<1>0. TypeOK /\ doc' \in Doc
  BY BudgetStep DEF IInv
<1>1. ASSUME NEW w \in Workers, Begin(w) \/ ClaimDenied(w) \/ ReadDenied(w)
      PROVE  TypeOK'
  BY <1>0, <1>1, OlderIsAge DEF Begin, ClaimDenied, ReadDenied, Drop
<1>2. ASSUME NEW w \in Workers, Claim(w)
      PROVE  TypeOK'
  <2>1. doc.attemptCount + 1 \in 0..MaxAttempts
    BY <1>0, <1>2, ClaimWriteFacts DEF Claim, Doc
  <2> QED
    BY <1>0, <1>2, <2>1 DEF Claim
<1>3. ASSUME NEW w \in Workers, ClaimError(w) \/ MarkError(w) \/ Crash(w) \/ CrashAfterEffect(w)
      PROVE  TypeOK'
  BY <1>0, <1>3, OlderIsAge DEF ClaimError, MarkError, Crash, CrashAfterEffect, Fault, Drop
<1>4. ASSUME NEW w \in Workers, Execute(w)
      PROVE  TypeOK'
  BY <1>0, <1>4 DEF Execute
<1>5. ASSUME NEW w \in Workers, Mark(w)
      PROVE  TypeOK'
  BY <1>0, <1>5, OlderIsAge DEF Mark, Drop
<1>6. CASE Tick
  BY <1>0, <1>6, OlderIsAge DEF Tick
<1>7. CASE UNCHANGED vars
  BY <1>0, <1>7 DEF vars
<1> QED
  BY <1>1, <1>2, <1>3, <1>4, <1>5, <1>6, <1>7 DEF Next

LEMMA StepPreserves == IInv /\ [Next]_vars => IInv'
BY TypeStep, BudgetStep, ResultsStep DEF IInv

LEMMA Inductive == Spec => []IInv
<1> QED
  BY InitEstablishes, StepPreserves, PTL DEF Spec
------------------------------------------------------------------------------
(* Every reachable state is well typed; in particular no refund takes the   *)
(* attempt counter below zero and no claim takes it past its limit.         *)
THEOREM TypeCorrect == Spec => []TypeOK
<1>1. IInv => TypeOK
  BY DEF IInv
<1> QED
  BY <1>1, Inductive, PTL

(* The handler acts at most attemptCount, and so action_max_attempts, times *)
(* whatever the workers, the crashes and the lost replies.                  *)
THEOREM EffectsAreBounded == Spec => []EffectsWithinBudget
<1>1. IInv => EffectsWithinBudget
  BY ReservedIsFinite DEF IInv, TypeOK, Doc, AttemptsAreReserved, EffectsWithinBudget
<1> QED
  BY <1>1, Inductive, PTL

(* A result that execute() returned justifies acknowledging the message for *)
(* ever after.                                                              *)
THEOREM ResultsStayTrue == Spec => []ResultsAreDurable
<1>1. IInv => ResultsAreDurable
  BY DEF IInv
<1> QED
  BY <1>1, Inductive, PTL

(* Succeeded and exhausted executions are never reopened, by any worker.    *)
THEOREM TerminalStaysTerminal == Spec => TerminalIsFinal
<1>1. IInv /\ [Next]_vars =>
        [Terminal => /\ doc'.status = doc.status
                     /\ doc'.attemptCount = doc.attemptCount]_vars
  BY TerminalStep
<1> QED
  BY <1>1, Inductive, PTL DEF Spec, TerminalIsFinal

(* While nobody overstays, the document's updatedAt is the clock reading of  *)
(* the one worker that holds the claim, so nobody else is granted one.       *)
ClaimIsAlone ==
    /\ AtMostOneActs
    /\ \A w \in InFlight : doc.status = "RUNNING" /\ doc.age = lag[w]

LEMMA NothingIsGranted ==
    ASSUME IInv, NobodyOverstays, ClaimIsAlone, NEW v \in InFlight, NEW w \in Workers
    PROVE  ~Granted(w)
<1>1. /\ doc.status = "RUNNING" /\ doc.age = lag[v] /\ lag[v] <= StaleAfter
  BY DEF ClaimIsAlone, NobodyOverstays
<1>2. lag[w] \in Nat /\ doc.age \in Nat /\ StaleAfter \in Nat
  BY StaleAfterAssumption, MaxLagAssumption DEF IInv, TypeOK, Doc, AgeCap
<1>3. ~Stale(w)
  BY <1>1, <1>2 DEF Stale
<1> QED
  BY <1>1, <1>3 DEF Granted, Reclaimable

LEMMA ClaimStaysAlone ==
    IInv /\ NobodyOverstays /\ ClaimIsAlone /\ [Next]_vars => ClaimIsAlone'
<1> SUFFICES ASSUME IInv, NobodyOverstays, ClaimIsAlone, [Next]_vars PROVE ClaimIsAlone'
  OBVIOUS
<1>0. /\ doc \in Doc /\ pc \in [Workers -> PC] /\ lag \in [Workers -> 0..AgeCap]
  BY DEF IInv, TypeOK
<1>1. ASSUME NEW w \in Workers, Begin(w) \/ ClaimDenied(w) \/ ReadDenied(w) \/ Execute(w)
      PROVE  ClaimIsAlone'
  <2>1. InFlight' = InFlight /\ doc' = doc
    BY <1>0, <1>1 DEF Begin, ClaimDenied, ReadDenied, Execute, InFlight
  <2>2. \A v \in InFlight : lag'[v] = lag[v]
    BY <1>0, <1>1 DEF Begin, ClaimDenied, ReadDenied, Execute, Drop, InFlight
  <2> QED
    BY <2>1, <2>2 DEF ClaimIsAlone, AtMostOneActs
<1>2. ASSUME NEW w \in Workers, Claim(w)
      PROVE  ClaimIsAlone'
  <2>1. InFlight = {} /\ lag' = lag
    BY <1>2, NothingIsGranted DEF Claim
  <2>2. InFlight' = {w}
    BY <1>0, <1>2, <2>1 DEF Claim, InFlight
  <2>3. doc'.status = "RUNNING" /\ doc'.age = lag[w]
    BY <1>2 DEF Claim, ClaimWrite
  <2> QED
    BY <2>1, <2>2, <2>3 DEF ClaimIsAlone, AtMostOneActs
<1>3. ASSUME NEW w \in Workers, ClaimError(w)
      PROVE  ClaimIsAlone'
  <2>1. InFlight' = InFlight /\ \A v \in InFlight : lag'[v] = lag[v]
    BY <1>0, <1>3 DEF ClaimError, Drop, InFlight
  <2>2. doc' = doc \/ InFlight = {}
    BY <1>3, NothingIsGranted DEF ClaimError
  <2> QED
    BY <2>1, <2>2 DEF ClaimIsAlone, AtMostOneActs
<1>4. ASSUME NEW w \in Workers, Mark(w) \/ MarkError(w) \/ CrashAfterEffect(w)
      PROVE  ClaimIsAlone'
  <2>1. InFlight' = InFlight \ {w} /\ w \in InFlight
    BY <1>0, <1>4 DEF Mark, MarkError, CrashAfterEffect, InFlight
  <2> QED
    BY <2>1 DEF ClaimIsAlone, AtMostOneActs
<1>5. ASSUME NEW w \in Workers, Crash(w)
      PROVE  ClaimIsAlone'
  <2>1. InFlight' = InFlight \ {w} /\ doc' = doc
    BY <1>0, <1>5 DEF Crash, InFlight
  <2>2. \A v \in InFlight' : lag'[v] = lag[v]
    BY <1>0, <1>5, <2>1 DEF Crash, Drop, InFlight
  <2> QED
    BY <2>1, <2>2 DEF ClaimIsAlone, AtMostOneActs
<1>6. CASE Tick
  <2>1. InFlight' = InFlight /\ doc'.status = doc.status /\ doc'.age = Older(doc.age)
    BY <1>0, <1>6 DEF Tick, InFlight, Doc
  <2>2. \A v \in InFlight : lag'[v] = Older(lag[v])
    BY <1>6 DEF Tick, InFlight
  <2> QED
    BY <2>1, <2>2 DEF ClaimIsAlone, AtMostOneActs
<1>7. CASE UNCHANGED vars
  BY <1>7 DEF vars, ClaimIsAlone, AtMostOneActs, InFlight
<1> QED
  BY <1>1, <1>2, <1>3, <1>4, <1>5, <1>6, <1>7 DEF Next

(* For any number of workers, faults and old clock readings: as long as no   *)
(* worker stays with its claim beyond the stale interval, no two act on an   *)
(* execution, or report it, at the same time.                                *)
THEOREM OneActs == Spec => OneActsAtATime
<1>1. Init => ClaimIsAlone
  BY DEF Init, ClaimIsAlone, AtMostOneActs, InFlight
<1>2. ClaimIsAlone => AtMostOneActs
  BY DEF ClaimIsAlone
<1> QED
  BY <1>1, <1>2, ClaimStaysAlone, Inductive, PTL DEF Spec, OneActsAtATime
------------------------------------------------------------------------------
(* The circuit breaker of a host.                                           *)

StateRecord == [failures : 0..Threshold, openedAge : {None} \cup 0..(RecoverySeconds + 1),
                probe_in_flight : BOOLEAN]

(* The records that the operations write are states of a circuit.            *)
LEMMA StateWrites ==
    ASSUME NEW s \in StateRecord
    PROVE  /\ Closed \in StateRecord
           /\ Failed(s) \in StateRecord
           /\ [s EXCEPT !.probe_in_flight = TRUE] \in StateRecord
           /\ s.openedAge # None =>
                 [s EXCEPT !.openedAge = IF @ <= RecoverySeconds THEN @ + 1 ELSE @]
                    \in StateRecord
<1> USE ThresholdAssumption, RecoveryAssumption
<1>1. Closed \in StateRecord
  BY DEF Closed, StateRecord, None
<1>2. Failed(s) \in StateRecord
  <2> DEFINE n == IF s.failures < Threshold THEN s.failures + 1 ELSE Threshold
  <2>1. n \in 0..Threshold /\ (IF n >= Threshold THEN 0 ELSE s.openedAge) \in {None} \cup 0..(RecoverySeconds + 1)
    BY DEF StateRecord
  <2> HIDE DEF n
  <2>2. [failures |-> n, probe_in_flight |-> FALSE,
         openedAge |-> IF n >= Threshold THEN 0 ELSE s.openedAge] \in StateRecord
    BY <2>1 DEF StateRecord
  <2> QED
    BY <2>2 DEF Failed, n
<1>3. [s EXCEPT !.probe_in_flight = TRUE] \in StateRecord
  BY DEF StateRecord
<1>4. ASSUME s.openedAge # None
      PROVE  [s EXCEPT !.openedAge = IF @ <= RecoverySeconds THEN @ + 1 ELSE @]
                \in StateRecord
  <2>1. (IF s.openedAge <= RecoverySeconds THEN s.openedAge + 1 ELSE s.openedAge)
           \in 0..(RecoverySeconds + 1)
    BY <1>4 DEF StateRecord, None
  <2> QED
    BY <2>1 DEF StateRecord
<1> QED
  BY <1>1, <1>2, <1>3, <1>4

(* The state of the circuit is well formed whatever the order in which calls *)
(* come back, a count of failures beyond the threshold included.             *)
THEOREM BreakerTypeCorrect == BreakerSpec => []BreakerTypeOK
<1>1. BreakerInit => BreakerTypeOK
  BY ThresholdAssumption, RecoveryAssumption DEF BreakerInit, BreakerTypeOK, Closed, None
<1>2. BreakerTypeOK /\ [BreakerNext]_breakerVars => BreakerTypeOK'
  <2> SUFFICES ASSUME BreakerTypeOK, [BreakerNext]_breakerVars PROVE BreakerTypeOK'
    OBVIOUS
  <2>0. state \in StateRecord
    BY DEF BreakerTypeOK, StateRecord
  <2>1. state' \in StateRecord
    <3>1. CASE \E c \in Calls : Ask(c) \/ Admit(c) \/ Reject(c) \/ Cancelled(c)
      BY <2>0, <3>1 DEF Ask, Admit, Reject, Cancelled
    <3>2. CASE \E c \in Calls : AdmitProbe(c) \/ Succeeded(c) \/ FailedCall(c)
      BY <2>0, <3>2, StateWrites DEF AdmitProbe, Succeeded, FailedCall
    <3>3. CASE RecoveryTick
      BY <2>0, <3>3, StateWrites DEF RecoveryTick, Open
    <3>4. CASE UNCHANGED breakerVars
      BY <2>0, <3>4 DEF breakerVars
    <3> QED
      BY <3>1, <3>2, <3>3, <3>4 DEF BreakerNext
  <2>2. calls' \in [Calls -> {"idle", "asking", "sending"}] /\ probing' \in [Calls -> BOOLEAN]
    BY DEF BreakerTypeOK, BreakerNext, breakerVars, Ask, Admit, AdmitProbe, Reject, Succeeded,
       FailedCall, Cancelled, Finish, RecoveryTick
  <2> QED
    BY <2>1, <2>2 DEF BreakerTypeOK, StateRecord
<1> QED
  BY <1>1, <1>2, PTL DEF BreakerSpec
------------------------------------------------------------------------------
(* A call that carries out the probe goes on doing so when another call asks *)
(* or is let through.                                                        *)
LEMMA ProbeGoesOn ==
    ASSUME BreakerTypeOK, ProbeInFlight, NEW c \in Calls, calls[c] # "sending",
           Ask(c) \/ Admit(c) \/ Reject(c)
    PROVE  ProbeInFlight'
BY DEF BreakerTypeOK, ProbeInFlight, Ask, Admit, Reject

(* The probe flag is left behind by a cancelled call only: no success, no    *)
(* failure and no admission, early or late, orphans it, for any number of    *)
(* calls in flight (HttpActionHandler, before_request, succeeded, failed).   *)
THEOREM OrphansAreCancelled == BreakerSpec => OnlyCancellationOrphans
<1> DEFINE Kept == Orphaned' => Orphaned \/ \E c \in Calls : Cancelled(c)
<1>1. ASSUME BreakerTypeOK, BreakerNext PROVE Kept
  <2> SUFFICES ASSUME state'.probe_in_flight, ~Orphaned, ~ProbeInFlight'
               PROVE  \E c \in Calls : Cancelled(c)
    BY DEF Orphaned
  <2>1. ASSUME NEW c \in Calls, Ask(c) \/ Admit(c) \/ Reject(c) PROVE FALSE
    <3>1. state' = state /\ calls[c] # "sending"
      BY <2>1 DEF Ask, Admit, Reject
    <3>2. ProbeInFlight
      BY <3>1 DEF Orphaned
    <3> QED
      BY <1>1, <2>1, <3>1, <3>2, ProbeGoesOn
  <2>2. ASSUME NEW c \in Calls, AdmitProbe(c) PROVE FALSE
    BY <1>1, <2>2 DEF AdmitProbe, ProbeInFlight, BreakerTypeOK
  <2>3. ASSUME NEW c \in Calls, Succeeded(c) \/ FailedCall(c) PROVE FALSE
    BY <2>3 DEF Succeeded, FailedCall, Closed, Failed
  <2>4. CASE RecoveryTick
    <3>1. state'.probe_in_flight = state.probe_in_flight /\ UNCHANGED <<calls, probing>>
      BY <1>1, <2>4 DEF RecoveryTick, BreakerTypeOK
    <3> QED
      BY <3>1 DEF Orphaned, ProbeInFlight
  <2> QED
    BY <1>1, <2>1, <2>2, <2>3, <2>4 DEF BreakerNext
<1>2. BreakerTypeOK /\ [BreakerNext]_breakerVars => [Kept]_breakerVars
  BY <1>1
<1> QED
  BY <1>2, BreakerTypeCorrect, PTL DEF BreakerSpec, OnlyCancellationOrphans
===============================================================================
