------------------------------- MODULE MCDelivery -------------------------------
(* What an event goes through: the outbox that fills the stream, the workers *)
(* that empty it, the hub that shows it to clients.  They share no state     *)
(* here: a behaviour is one of the part that subject names.                  *)
EXTENDS FinalizationOutbox, EventWorker, RealtimeHub

CONSTANTS e1, a, b

FirstIsOlder == [e \in Events |-> IF e = e1 THEN 1 ELSE 2]
CameraOf == [p \in {a, b} |-> IF p = a THEN "A" ELSE "B"]

VARIABLE subject

On(s) == subject = s

DeliveryInit ==
    /\ subject \in {"outbox", "workers", "hub"}
    /\ OutboxInit /\ Init /\ HubInit
    /\ ~On("outbox") => capacity = 1

DeliveryNext ==
    /\ UNCHANGED subject
    /\ IF On("outbox") THEN OutboxNext ELSE UNCHANGED outboxVars
    /\ IF On("workers") THEN Next ELSE UNCHANGED vars
    /\ IF On("hub") THEN HubNext ELSE UNCHANGED hubVars

(* The fairness of each part, while it is the one that runs.                 *)
DeliveryFairness ==
    /\ WF_outboxVars(On("outbox") /\ Start)
    /\ WF_outboxVars(On("outbox") /\ Close)
    /\ WF_outboxVars(On("outbox") /\ Exit)
    /\ WF_outboxVars(On("outbox") /\ Deliver)
    /\ WF_outboxVars(On("outbox") /\ LateRemove)
    /\ WF_outboxVars(On("outbox") /\ \E e \in Events : Stage(e))
    /\ \A i \in Positions : WF_vars(On("workers") /\ Age(i))
    /\ SF_vars(On("workers") /\ \E w \in Workers : Read(w))
    /\ \A w \in Workers :
          /\ WF_vars(On("workers") /\ Work(w))
          /\ SF_vars(On("workers") /\ Reclaim(w))
    /\ WF_hubVars(On("hub") /\ Receive)
    /\ WF_hubVars(On("hub") /\ StopSource)
    /\ WF_hubVars(On("hub") /\ CloseHub)

PartsSpec ==
    DeliveryInit /\ [][DeliveryNext]_<<subject, outboxVars, vars, hubVars>> /\ DeliveryFairness
================================================================================
