------------------------------- MODULE MCRecords -------------------------------
(* Those who write events to MongoDB, link them to vehicles, expire and      *)
(* export them, the cache of rules and the review of detector sources.  They *)
(* share no state but the event document: retention meets it when it is      *)
(* complete, identities own its vehicleId.  So each behaviour is one of the  *)
(* part that subject names.                                                  *)
(*                                                                           *)
(* A crowded scan only leaves out steps of retention; the run of Services    *)
(* has it.                                                                   *)
(*                                                                           *)
(* Of each of two cameras an event, and a payload the codec rejects.  A      *)
(* message may repeat an event: the outbox delivers at least once.           *)
EXTENDS EventWorker, Retention, DatasetReview, EventPolicy,
        VehicleIdentities, TLC

CONSTANTS a, b

CameraOf == [p \in {a, b} |-> IF p = b THEN "B" ELSE "A"]

VARIABLE subject

RecordsInit ==
    /\ subject \in {"workers", "retention", "review", "policy", "identities"}
    /\ Init /\ RetentionInit /\ ReviewInit /\ PolicyInit /\ IdentityInit
    /\ subject # "retention" => world.transactions

RecordsNext ==
    /\ UNCHANGED subject
    /\ IF subject = "workers" THEN Next ELSE UNCHANGED vars
    /\ IF subject = "retention" THEN RetentionNext /\ UNCHANGED world.crowded
       ELSE UNCHANGED retentionVars
    /\ IF subject = "review" THEN ReviewNext ELSE UNCHANGED reviewVars
    /\ IF subject = "policy" THEN PolicyNext ELSE UNCHANGED policyVars
    /\ IF subject = "identities" THEN IdentityNext ELSE UNCHANGED identityVars

RecordsSpec ==
    RecordsInit
        /\ [][RecordsNext]_<<subject, vars, retentionVars, reviewVars, policyVars, identityVars>>

(* Payloads a and b too: of cameras only whether they are the same counts.   *)
Interchangeable ==
    Permutations(Workers) \cup Permutations({a, b}) \cup Permutations(RetentionWorkers)
        \cup Permutations(Exports)
================================================================================
