---------------------------- MODULE CircuitBreaker ----------------------------
(***************************************************************************)
(* The breaker HttpActionHandler keeps for one target host and the calls   *)
(* that one event worker has in flight to it (one per camera group).       *)
(* before_request, succeeded and failed each run under one asyncio lock    *)
(* without an await inside, so each is one step; the HTTP exchange between *)
(* them is where calls overlap and where the action timeout cancels them.  *)
(***************************************************************************)
EXTENDS Integers, FiniteSets

CONSTANTS
    Calls,              \* actions of this worker that address the host
    Threshold,          \* circuit_failure_threshold
    RecoverySeconds     \* circuit_recovery_seconds, in ticks

ASSUME ThresholdAssumption == Threshold \in Nat \ {0}
ASSUME RecoveryAssumption == RecoverySeconds \in Nat \ {0}

VARIABLES
    state,      \* the _CircuitState of the host
    calls,      \* idle, asking (before_request) or sending
    probing     \* TRUE for a call that was admitted as the probe

breakerVars == <<state, calls, probing>>

(* opened_at = None, else the time since opened_at.  It saturates a tick    *)
(* beyond RecoverySeconds, so that being due and overdue differ.            *)
None == -1

(* failures saturates at the threshold: the code only compares it with >=. *)
BreakerTypeOK ==
    /\ state \in [failures : 0..Threshold,
                  openedAge : {None} \cup 0..(RecoverySeconds + 1),
                  probe_in_flight : BOOLEAN]
    /\ calls \in [Calls -> {"idle", "asking", "sending"}]
    /\ probing \in [Calls -> BOOLEAN]

Closed == [failures |-> 0, openedAge |-> None, probe_in_flight |-> FALSE]

BreakerInit ==
    /\ state = Closed
    /\ calls = [c \in Calls |-> "idle"]
    /\ probing = [c \in Calls |-> FALSE]
------------------------------------------------------------------------------
Open == state.openedAge # None

ProbeDue == state.openedAge >= RecoverySeconds /\ ~state.probe_in_flight

(* Variants of the definitions below that a slip in the code would give.    *)
BugFailedKeepsProbe(s) ==
    LET n == IF s.failures < Threshold THEN s.failures + 1 ELSE Threshold
    IN  [failures |-> n, probe_in_flight |-> s.probe_in_flight,
         openedAge |-> IF n >= Threshold THEN 0 ELSE s.openedAge]

BugReject(c) ==
    /\ calls[c] = "asking"
    /\ Open
    /\ ~ProbeDue
    /\ state' = [state EXCEPT !.openedAge = 0]
    /\ calls' = [calls EXCEPT ![c] = "idle"]
    /\ UNCHANGED probing

(* failed(): counts, releases the probe and (re)opens at the threshold. *)
Failed(s) ==
    LET n == IF s.failures < Threshold THEN s.failures + 1 ELSE Threshold
    IN  [failures |-> n, probe_in_flight |-> FALSE,
         openedAge |-> IF n >= Threshold THEN 0 ELSE s.openedAge]

Ask(c) ==
    /\ calls[c] = "idle"
    /\ calls' = [calls EXCEPT ![c] = "asking"]
    /\ UNCHANGED <<state, probing>>

Admit(c) ==
    /\ calls[c] = "asking"
    /\ ~Open
    /\ calls' = [calls EXCEPT ![c] = "sending"]
    /\ UNCHANGED <<state, probing>>

AdmitProbe(c) ==
    /\ calls[c] = "asking"
    /\ Open
    /\ ProbeDue
    /\ state' = [state EXCEPT !.probe_in_flight = TRUE]
    /\ probing' = [probing EXCEPT ![c] = TRUE]
    /\ calls' = [calls EXCEPT ![c] = "sending"]

(* EXTERNAL_CIRCUIT_OPEN: the action is deferred and delivered again. *)
Reject(c) ==
    /\ calls[c] = "asking"
    /\ Open
    /\ ~ProbeDue
    /\ calls' = [calls EXCEPT ![c] = "idle"]
    /\ UNCHANGED <<state, probing>>

Finish(c) ==
    /\ calls[c] = "sending"
    /\ calls' = [calls EXCEPT ![c] = "idle"]
    /\ probing' = [probing EXCEPT ![c] = FALSE]

(* 2xx, or a status that is not retryable: the target answers. *)
Succeeded(c) ==
    /\ Finish(c)
    /\ state' = Closed

(* Transport error, 408, 429 or 5xx. *)
FailedCall(c) ==
    /\ Finish(c)
    /\ state' = Failed(state)

(* The action timeout or a shutdown cancels the call, or _authenticate      *)
(* raises: neither succeeded() nor failed() runs.                           *)
Cancelled(c) ==
    /\ Finish(c)
    /\ state' = state

RecoveryTick ==
    /\ Open
    /\ state' = [state EXCEPT !.openedAge =
                    IF @ <= RecoverySeconds THEN @ + 1 ELSE @]
    /\ UNCHANGED <<calls, probing>>

BreakerNext ==
    \/ \E c \in Calls : \/ Ask(c)
                        \/ Admit(c)
                        \/ AdmitProbe(c)
                        \/ Reject(c)
                        \/ Succeeded(c)
                        \/ FailedCall(c)
                        \/ Cancelled(c)
    \/ RecoveryTick

BreakerSpec == BreakerInit /\ [][BreakerNext]_breakerVars

(* Deferred actions are redelivered, every call in flight ends (the action  *)
(* timeout sees to it) and the clock advances.                              *)
BreakerFairness ==
    /\ WF_breakerVars(RecoveryTick)
    /\ \A c \in Calls :
          /\ WF_breakerVars(Ask(c))
          /\ WF_breakerVars((Admit(c) \/ AdmitProbe(c) \/ Reject(c)))
          /\ WF_breakerVars((Succeeded(c) \/ FailedCall(c) \/ Cancelled(c)))

FairBreakerSpec == BreakerSpec /\ BreakerFairness
------------------------------------------------------------------------------
ProbeInFlight == \E c \in Calls : calls[c] = "sending" /\ probing[c]

(* The flag of a probe that nobody is carrying out any more. *)
Orphaned == state.probe_in_flight /\ ~ProbeInFlight

(* The probe flag loses its owner in no other way than by a call that ends  *)
(* without a verdict: answers and failures, early or late, never leave it   *)
(* behind.                                                                  *)
OnlyCancellationOrphans ==
    [][Orphaned' => Orphaned \/ \E c \in Calls : Cancelled(c)]_breakerVars

(* Unless its probe was orphaned, an open circuit is tried again: it closes *)
(* or lets a probe through.                                                 *)
OpenIsProbedUnlessOrphaned == Open ~> (~Open \/ ProbeInFlight \/ Orphaned)

(* ADR-018: the breaker is CLOSED, OPEN or HALF_OPEN, so an open circuit    *)
(* is, after its recovery time, half-open again.  A cancelled probe breaks  *)
(* it.                                                                      *)
OpenBecomesHalfOpen == Open ~> (~Open \/ ProbeInFlight)
==============================================================================
