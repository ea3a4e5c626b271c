---------------------------- MODULE VehicleIdentities ----------------------------
(***************************************************************************)
(* Logical vehicles: VehicleIdentityProcessor (application/identity.py),   *)
(* the reviews of IdentityReviewService (application/reid.py) and the      *)
(* transactions of MongoVehicleIdentityRepository.  A worker that handles  *)
(* a message saves the event, registers its fingerprint with an identity   *)
(* of its own and links the event to it, three writes that a crash, a      *)
(* redelivery, another worker with the same event and a reviewer may come  *)
(* between.  Reviewers merge and split identities by revisions they read   *)
(* before.                                                                 *)
(*                                                                         *)
(* Each transaction is one step (mongodb.transactions_enabled, as the      *)
(* compose files deploy it): its writes all meet in the identities'        *)
(* documents, so two that overlap conflict.  Plates, colours, scores and   *)
(* vectors are left out: no write depends on them.                         *)
(***************************************************************************)
EXTENDS Naturals, FiniteSets

CONSTANTS
    Sightings,          \* events; also their bootstrap identities
    IdentityReviews,    \* review ids; also the identities that splits create
    Handlers,           \* workers that may hold a message of an event
    MaxEvidence         \* the fingerprints one review may touch

ASSUME SightingsAssumption == IsFiniteSet(Sightings) /\ Sightings \cap IdentityReviews = {}
ASSUME EvidenceAssumption == MaxEvidence \in Nat \ {0}

VARIABLES
    handler,            \* what each worker does with which event
    linked,             \* vehicleId of each event document
    owner,              \* vehicleId of each fingerprint
    vehicle,            \* the identity documents
    commands,           \* the reviews: what was asked for with which revisions
    overtaken           \* events whose fingerprint a review moved before they were linked

identityVars == <<handler, linked, owner, vehicle, commands, overtaken>>

(* bootstrap_vehicle_id and _split_vehicle_id are digests: one identity for  *)
(* each event and each review, none of them the same.                        *)
Vehicles == Sightings \cup IdentityReviews

Absent == "absent"      \* no document
Unlinked == "null"      \* an event without vehicleId

ASSUME VehicleIdsAssumption == Absent \notin Vehicles /\ Unlinked \notin Vehicles

NoVehicle == [status |-> Absent, count |-> 0, revision |-> 0]
Bootstrap == [status |-> "ACTIVE", count |-> 1, revision |-> 1]
Unoccupied == [step |-> "idle"]
NotAsked == [kind |-> "none"]
Recorded == [kind |-> "stored"]

Evidence(v) == {e \in Sightings : owner[e] = v}

IsActive(v) == vehicle[v].status = "ACTIVE"

IdentityInit ==
    /\ handler = [h \in Handlers |-> Unoccupied]
    /\ linked = [e \in Sightings |-> Absent]
    /\ owner = [e \in Sightings |-> Absent]
    /\ vehicle = [v \in Vehicles |-> NoVehicle]
    /\ commands = [r \in IdentityReviews |-> NotAsked]
    /\ overtaken = {}
------------------------------------------------------------------------------
(* A message is handled again while it is pending, and the outbox may have   *)
(* published an event twice: every event may be handled at any time, by two  *)
(* workers at once.                                                          *)
TakeEvent(h, e) ==
    /\ handler[h] = Unoccupied
    /\ handler' = [handler EXCEPT ![h] = [step |-> "save", event |-> e]]
    /\ UNCHANGED <<linked, owner, vehicle, commands, overtaken>>

SaveEvent(h) ==
    /\ handler[h].step = "save"
    /\ LET e == handler[h].event
       IN  linked' = [linked EXCEPT ![e] = IF @ = Absent THEN Unlinked ELSE @]
    /\ handler' = [handler EXCEPT ![h].step = "register"]
    /\ UNCHANGED <<owner, vehicle, commands, overtaken>>

(* register_observation: the identity is created with the fingerprint, and   *)
(* not again once the fingerprint is there.                                  *)
Register(h) ==
    /\ handler[h].step = "register"
    /\ LET e == handler[h].event
       IN  IF owner[e] # Absent THEN UNCHANGED <<owner, vehicle>>
           ELSE /\ owner' = [owner EXCEPT ![e] = e]
                /\ vehicle' = [vehicle EXCEPT ![e] = Bootstrap]
    /\ handler' = [handler EXCEPT ![h].step = "link"]
    /\ UNCHANGED <<linked, commands, overtaken>>

(* The filter of assign_vehicle_id.                                          *)
BugLinkable(e) == linked[e] # Absent
Linkable(e) == linked[e] \in {Unlinked, e}

Link(h) ==
    /\ handler[h].step = "link"
    /\ LET e == handler[h].event
       IN  Linkable(e) /\ linked' = [linked EXCEPT ![e] = e]
    /\ handler' = [handler EXCEPT ![h] = Unoccupied]
    /\ UNCHANGED <<owner, vehicle, commands, overtaken>>

(* A link that is refused, an error and a worker that dies leave the message *)
(* pending and what was written as it is.                                    *)
Interrupt(h) ==
    /\ handler[h] # Unoccupied
    /\ handler' = [handler EXCEPT ![h] = Unoccupied]
    /\ UNCHANGED <<linked, owner, vehicle, commands, overtaken>>
------------------------------------------------------------------------------
(* A reviewer decides by the identities as they are read now; the decision   *)
(* may arrive much later.                                                    *)
AskMerge(r, source, into) ==
    /\ commands[r] = NotAsked
    /\ source # into /\ IsActive(source) /\ IsActive(into)
    /\ commands' = [commands EXCEPT ![r] =
                    [kind |-> "merge", source |-> source, target |-> into,
                     sourceRevision |-> vehicle[source].revision,
                     targetRevision |-> vehicle[into].revision]]
    /\ UNCHANGED <<handler, linked, owner, vehicle, overtaken>>

AskSplit(r, source, selected) ==
    /\ commands[r] = NotAsked
    /\ IsActive(source)
    /\ selected \subseteq Evidence(source) /\ selected # {}
    /\ commands' = [commands EXCEPT ![r] =
                    [kind |-> "split", source |-> source, selected |-> selected,
                     sourceRevision |-> vehicle[source].revision]]
    /\ UNCHANGED <<handler, linked, owner, vehicle, overtaken>>

(* _bounded_fingerprints: a review of more evidence is refused.              *)
Reviewable(v) == Evidence(v) # {} /\ Cardinality(Evidence(v)) <= MaxEvidence

(* Fingerprints change owner; an event does if it is linked to the old one.  *)
Moved(selected, source, to) ==
    /\ owner' = [e \in Sightings |-> IF e \in selected THEN to ELSE owner[e]]
    /\ linked' = [e \in Sightings |->
                     IF e \in selected /\ linked[e] = source THEN to ELSE linked[e]]
    /\ overtaken' = overtaken \cup {e \in selected : linked[e] = Unlinked}

(* Both revisions are those the reviewer read.                               *)
Mergeable(c) ==
    /\ IsActive(c.source) /\ vehicle[c.source].revision = c.sourceRevision
    /\ IsActive(c.target) /\ vehicle[c.target].revision = c.targetRevision
    /\ Reviewable(c.source) /\ Reviewable(c.target)

Merge(r) ==
    LET c == commands[r]
        all == Evidence(c.source) \cup Evidence(c.target)
    IN  /\ c.kind = "merge"
        /\ Mergeable(c)
        /\ vehicle' = [vehicle EXCEPT ![c.target].count = Cardinality(all),
                                      ![c.target].revision = @ + 1,
                                      ![c.source].status = "MERGED",
                                      ![c.source].revision = @ + 1]
        /\ Moved(Evidence(c.source), c.source, c.target)
        /\ commands' = [commands EXCEPT ![r] = Recorded]
        /\ UNCHANGED handler

(* The selected evidence is still the source's, and it keeps some.           *)
Splittable(c, r) ==
    /\ IsActive(c.source) /\ vehicle[c.source].revision = c.sourceRevision
    /\ vehicle[r].status = Absent
    /\ Reviewable(c.source)
    /\ c.selected \subseteq Evidence(c.source) /\ Evidence(c.source) \ c.selected # {}

Split(r) ==
    LET c == commands[r]
        remaining == Evidence(c.source) \ c.selected
    IN  /\ c.kind = "split"
        /\ Splittable(c, r)
        /\ vehicle' = [vehicle EXCEPT ![c.source].count = Cardinality(remaining),
                                      ![c.source].revision = @ + 1,
                                      ![r] = [Bootstrap EXCEPT !.count = Cardinality(c.selected)]]
        /\ Moved(c.selected, c.source, r)
        /\ commands' = [commands EXCEPT ![r] = Recorded]
        /\ UNCHANGED handler

(* A conflict stores nothing: the reviewer reads again and may use the id    *)
(* again.  A review that is stored is only ever answered with its result,    *)
(* which changes nothing.                                                    *)
Conflict(r) ==
    /\ commands[r].kind \in {"merge", "split"}
    /\ IF commands[r].kind = "merge" THEN ~Mergeable(commands[r]) ELSE ~Splittable(commands[r], r)
    /\ commands' = [commands EXCEPT ![r] = NotAsked]
    /\ UNCHANGED <<handler, linked, owner, vehicle, overtaken>>
------------------------------------------------------------------------------
Handle(h) == SaveEvent(h) \/ Register(h) \/ Link(h) \/ Interrupt(h)

Review(r) ==
    \/ \E s, t \in Vehicles : AskMerge(r, s, t)
    \/ \E s \in Vehicles, S \in SUBSET Sightings : AskSplit(r, s, S)
    \/ Merge(r) \/ Split(r) \/ Conflict(r)

IdentityNext ==
    \/ \E h \in Handlers, e \in Sightings : TakeEvent(h, e)
    \/ \E h \in Handlers : Handle(h)
    \/ \E r \in IdentityReviews : Review(r)

IdentitySpec == IdentityInit /\ [][IdentityNext]_identityVars
------------------------------------------------------------------------------
(* No evidence is lost, counted twice or left with an identity that is gone: *)
(* every fingerprint belongs to an active identity, an active identity       *)
(* counts exactly its fingerprints, and a linked event names the owner of    *)
(* its fingerprint, through redeliveries, stale decisions and both reviews   *)
(* (VEHICLE_JOURNEY.md: merge and split update the events in the same        *)
(* transaction; journeys reflect the reviewed ownership).  Excepted is an    *)
(* event whose fingerprint was moved between its registration and its link.  *)
EvidenceIsOwned ==
    /\ \A e \in Sightings : owner[e] # Absent => IsActive(owner[e])
    /\ \A v \in Vehicles : IsActive(v) => /\ vehicle[v].count = Cardinality(Evidence(v))
                                          /\ Evidence(v) # {}
    /\ \A e \in Sightings \ overtaken : linked[e] \in Vehicles => linked[e] = owner[e]
================================================================================
