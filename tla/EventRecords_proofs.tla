------------------------- MODULE EventRecords_proofs --------------------------
(* Proofs about VehicleIdentities, Retention and EventPolicy, for any sets   *)
(* of handlers, sightings, vehicles, retention workers, kinds of media and   *)
(* events, any revisions and any bound on the faults.                        *)
EXTENDS VehicleIdentities, Retention, EventPolicy, FiniteSetTheorems, TLAPS

(* Vehicle identities and the evidence they own.                            *)

Statuses == {Absent, "ACTIVE", "MERGED"}
IdentityDocument == [status : Statuses, count : Nat, revision : Nat]
Working == [step : {"save", "register", "link"}, event : Sightings]
MergeAsked == [kind : {"merge"}, source : Vehicles, target : Vehicles,
               sourceRevision : Nat, targetRevision : Nat]
SplitAsked == [kind : {"split"}, source : Vehicles, selected : SUBSET Sightings,
               sourceRevision : Nat]

IdentityTypeOK ==
    /\ handler \in [Handlers -> {Unoccupied} \cup Working]
    /\ linked \in [Sightings -> Vehicles \cup {Absent, Unlinked}]
    /\ owner \in [Sightings -> Vehicles \cup {Absent}]
    /\ vehicle \in [Vehicles -> IdentityDocument]
    /\ commands \in [IdentityReviews -> {NotAsked, Recorded} \cup MergeAsked \cup SplitAsked]
    /\ overtaken \subseteq Sightings

(* An event is saved before its fingerprint is registered, and until it is   *)
(* linked its own bootstrap identity owns the fingerprint.                   *)
RegisteredFirst ==
    \A e \in Sightings :
       /\ owner[e] # Absent => linked[e] # Absent
       /\ owner[e] = Absent => vehicle[e].status = Absent
       /\ e \notin overtaken /\ linked[e] = Unlinked /\ owner[e] # Absent => owner[e] = e

HandledInOrder ==
    \A h \in Handlers :
       /\ handler[h].step \in {"register", "link"} => linked[handler[h].event] # Absent
       /\ handler[h].step = "link" => owner[handler[h].event] # Absent

AskedRightly ==
    \A r \in IdentityReviews :
       /\ commands[r].kind = "merge" => commands[r].source # commands[r].target
       /\ commands[r].kind = "split" => commands[r].selected # {}

IdentityInv ==
    IdentityTypeOK /\ RegisteredFirst /\ HandledInOrder /\ AskedRightly /\ EvidenceIsOwned
------------------------------------------------------------------------------
LEMMA IdentityInitially == IdentityInit => IdentityInv
<1> SUFFICES ASSUME IdentityInit PROVE IdentityInv
  OBVIOUS
<1>1. IdentityTypeOK
  <2>1. NoVehicle \in IdentityDocument
    BY DEF NoVehicle, IdentityDocument, Statuses
  <2> QED
    BY <2>1 DEF IdentityInit, IdentityTypeOK
<1>2. RegisteredFirst
  BY DEF IdentityInit, RegisteredFirst, Vehicles, NoVehicle
<1>3. HandledInOrder /\ AskedRightly
  BY DEF IdentityInit, HandledInOrder, AskedRightly, Unoccupied, NotAsked
<1>4. EvidenceIsOwned
  <2>1. \A v \in Vehicles : ~IsActive(v)
    BY DEF IdentityInit, IsActive, NoVehicle, Absent
  <2>2. \A e \in Sightings : linked[e] \notin Vehicles
    BY VehicleIdsAssumption DEF IdentityInit
  <2> QED
    BY <2>1, <2>2 DEF EvidenceIsOwned, IdentityInit
<1> QED
  BY <1>1, <1>2, <1>3, <1>4 DEF IdentityInv

LEMMA EvidenceIsFinite ==
    \A v : /\ IsFiniteSet(Evidence(v)) /\ Cardinality(Evidence(v)) \in Nat
           /\ \A S \in SUBSET Evidence(v) : IsFiniteSet(S) /\ Cardinality(S) \in Nat
BY SightingsAssumption, FS_Subset, FS_CardinalityType DEF Evidence

LEMMA HandlerTypes ==
    IdentityInv => \A h \in Handlers :
        handler[h].step \in {"save", "register", "link"} => handler[h] \in Working
BY DEF IdentityInv, IdentityTypeOK, Unoccupied

LEMMA CommandTypes ==
    IdentityInv => \A r \in IdentityReviews :
        /\ commands[r].kind = "merge" => commands[r] \in MergeAsked
        /\ commands[r].kind = "split" => commands[r] \in SplitAsked
BY DEF IdentityInv, IdentityTypeOK, NotAsked, Recorded, MergeAsked, SplitAsked
------------------------------------------------------------------------------
(* Steps that touch neither events nor evidence.                             *)
LEMMA TakeEventKeeps ==
    ASSUME IdentityInv, NEW h \in Handlers, NEW e \in Sightings, TakeEvent(h, e)
    PROVE  IdentityInv'
<1> DEFINE w == [step |-> "save", event |-> e]
<1>1. /\ handler' = [handler EXCEPT ![h] = w]
      /\ UNCHANGED <<linked, owner, vehicle, commands, overtaken>>
  BY DEF TakeEvent
<1>2. w \in Working /\ w.step = "save"
  BY DEF Working
<1> HIDE DEF w
<1>3. IdentityTypeOK'
  BY <1>1, <1>2 DEF IdentityInv, IdentityTypeOK
<1>4. HandledInOrder'
  BY <1>1, <1>2 DEF IdentityInv, IdentityTypeOK, HandledInOrder
<1> QED
  BY <1>1, <1>3, <1>4 DEF IdentityInv, RegisteredFirst, AskedRightly, EvidenceIsOwned, IsActive, Evidence

LEMMA InterruptKeeps ==
    ASSUME IdentityInv, NEW h \in Handlers, Interrupt(h)
    PROVE  IdentityInv'
<1>1. /\ handler' = [handler EXCEPT ![h] = Unoccupied]
      /\ UNCHANGED <<linked, owner, vehicle, commands, overtaken>>
  BY DEF Interrupt
<1>2. Unoccupied.step = "idle"
  BY DEF Unoccupied
<1>3. IdentityTypeOK'
  BY <1>1 DEF IdentityInv, IdentityTypeOK
<1>4. HandledInOrder'
  BY <1>1, <1>2 DEF IdentityInv, IdentityTypeOK, HandledInOrder
<1> QED
  BY <1>1, <1>3, <1>4 DEF IdentityInv, RegisteredFirst, AskedRightly, EvidenceIsOwned, IsActive, Evidence

LEMMA AskingKeeps ==
    ASSUME IdentityInv, NEW r \in IdentityReviews,
           NEW c \in {NotAsked} \cup MergeAsked \cup SplitAsked,
           c.kind = "merge" => c.source # c.target,
           c.kind = "split" => c.selected # {},
           commands' = [commands EXCEPT ![r] = c],
           UNCHANGED <<handler, linked, owner, vehicle, overtaken>>
    PROVE  IdentityInv'
<1>1. IdentityTypeOK'
  BY DEF IdentityInv, IdentityTypeOK
<1>2. AskedRightly'
  BY DEF IdentityInv, IdentityTypeOK, AskedRightly
<1> QED
  BY <1>1, <1>2 DEF IdentityInv, RegisteredFirst, HandledInOrder, EvidenceIsOwned, IsActive, Evidence

LEMMA AskSteps ==
    ASSUME IdentityInv, NEW r \in IdentityReviews,
           \/ \E s, t \in Vehicles : AskMerge(r, s, t)
           \/ \E s \in Vehicles, S \in SUBSET Sightings : AskSplit(r, s, S)
           \/ Conflict(r)
    PROVE  IdentityInv'
<1>0. \A v \in Vehicles : vehicle[v].revision \in Nat
  BY DEF IdentityInv, IdentityTypeOK, IdentityDocument
<1>1. ASSUME NEW s \in Vehicles, NEW t \in Vehicles, AskMerge(r, s, t)
      PROVE  IdentityInv'
  <2> DEFINE c == [kind |-> "merge", source |-> s, target |-> t,
                   sourceRevision |-> vehicle[s].revision, targetRevision |-> vehicle[t].revision]
  <2>1. c \in MergeAsked /\ c.kind = "merge" /\ c.source = s /\ c.target = t
    BY <1>0 DEF MergeAsked
  <2>2. s # t /\ commands' = [commands EXCEPT ![r] = c]
        /\ UNCHANGED <<handler, linked, owner, vehicle, overtaken>>
    BY <1>1 DEF AskMerge
  <2> HIDE DEF c
  <2> QED
    BY <2>1, <2>2, AskingKeeps
<1>2. ASSUME NEW s \in Vehicles, NEW S \in SUBSET Sightings, AskSplit(r, s, S)
      PROVE  IdentityInv'
  <2> DEFINE c == [kind |-> "split", source |-> s, selected |-> S,
                   sourceRevision |-> vehicle[s].revision]
  <2>1. c \in SplitAsked /\ c.kind = "split" /\ c.selected = S
    BY <1>0 DEF SplitAsked
  <2>2. S # {} /\ commands' = [commands EXCEPT ![r] = c]
        /\ UNCHANGED <<handler, linked, owner, vehicle, overtaken>>
    BY <1>2 DEF AskSplit
  <2> HIDE DEF c
  <2> QED
    BY <2>1, <2>2, AskingKeeps
<1>3. CASE Conflict(r)
  <2>1. NotAsked.kind = "none"
    BY DEF NotAsked
  <2> QED
    BY <1>3, <2>1, AskingKeeps DEF Conflict
<1> QED
  BY <1>1, <1>2, <1>3
------------------------------------------------------------------------------
LEMMA SaveEventKeeps ==
    ASSUME IdentityInv, NEW h \in Handlers, SaveEvent(h)
    PROVE  IdentityInv'
<1>0. PICK e \in Sightings : e = handler[h].event
  BY HandlerTypes DEF SaveEvent, Working
<1>1. /\ linked' = [linked EXCEPT ![e] = IF linked[e] = Absent THEN Unlinked ELSE linked[e]]
      /\ handler' = [handler EXCEPT ![h] = [handler[h] EXCEPT !.step = "register"]]
      /\ UNCHANGED <<owner, vehicle, commands, overtaken>>
  BY <1>0 DEF SaveEvent
<1>2. /\ linked \in [Sightings -> Vehicles \cup {Absent, Unlinked}]
      /\ handler \in [Handlers -> {Unoccupied} \cup Working] /\ handler[h] \in Working
  BY HandlerTypes DEF IdentityInv, IdentityTypeOK, SaveEvent
<1>3. [handler[h] EXCEPT !.step = "register"] \in Working
      /\ [handler[h] EXCEPT !.step = "register"].step = "register"
      /\ [handler[h] EXCEPT !.step = "register"].event = e
  BY <1>0, <1>2 DEF Working
<1>4. /\ linked' \in [Sightings -> Vehicles \cup {Absent, Unlinked}]
      /\ linked'[e] # Absent
      /\ \A f \in Sightings : linked'[f] # linked[f] => /\ linked[f] = Absent
                                                        /\ linked'[f] = Unlinked
  BY <1>1, <1>2 DEF Absent, Unlinked
<1>5. IdentityTypeOK'
  BY <1>1, <1>2, <1>3, <1>4 DEF IdentityInv, IdentityTypeOK
<1>6. RegisteredFirst'
  BY <1>1, <1>4 DEF IdentityInv, RegisteredFirst, Absent, Unlinked
<1>7. HandledInOrder'
  <2> SUFFICES ASSUME NEW g \in Handlers
               PROVE  /\ handler'[g].step \in {"register", "link"} => linked'[handler'[g].event] # Absent
                      /\ handler'[g].step = "link" => owner'[handler'[g].event] # Absent
    BY DEF HandledInOrder
  <2>1. CASE g = h
    BY <1>1, <1>2, <1>3, <1>4, <2>1
  <2>2. CASE g # h
    <3>1. handler'[g] = handler[g]
      BY <1>1, <1>2, <2>2
    <3>2. handler[g].step \in {"register", "link"} => handler[g].event \in Sightings
      BY HandlerTypes DEF Working
    <3>3. /\ handler[g].step \in {"register", "link"} => linked[handler[g].event] # Absent
          /\ handler[g].step = "link" => owner[handler[g].event] # Absent
      BY DEF IdentityInv, HandledInOrder
    <3>4. \A f \in Sightings : linked[f] # Absent => linked'[f] # Absent
      BY <1>4
    <3> QED
      BY <1>1, <3>1, <3>2, <3>3, <3>4
  <2> QED
    BY <2>1, <2>2
<1>8. AskedRightly'
  BY <1>1 DEF IdentityInv, AskedRightly
<1>9. EvidenceIsOwned'
  BY <1>1, <1>4, VehicleIdsAssumption DEF IdentityInv, EvidenceIsOwned, IsActive, Evidence
<1> QED
  BY <1>5, <1>6, <1>7, <1>8, <1>9 DEF IdentityInv

(* The identity is new: nothing belonged to it.                              *)
LEMMA RegisterKeeps ==
    ASSUME IdentityInv, NEW h \in Handlers, Register(h)
    PROVE  IdentityInv'
<1>0. PICK e \in Sightings : e = handler[h].event
  BY HandlerTypes DEF Register, Working
<1> DEFINE go == [handler[h] EXCEPT !.step = "link"]
<1>1. /\ \/ owner[e] # Absent /\ UNCHANGED <<owner, vehicle>>
         \/ /\ owner[e] = Absent
            /\ owner' = [owner EXCEPT ![e] = e] /\ vehicle' = [vehicle EXCEPT ![e] = Bootstrap]
      /\ handler' = [handler EXCEPT ![h] = go] /\ handler[h].step = "register"
      /\ UNCHANGED <<linked, commands, overtaken>>
  BY <1>0 DEF Register
<1>2. /\ handler \in [Handlers -> {Unoccupied} \cup Working] /\ handler[h] \in Working
      /\ owner \in [Sightings -> Vehicles \cup {Absent}] /\ vehicle \in [Vehicles -> IdentityDocument]
      /\ linked[e] # Absent /\ e \in Vehicles
  BY <1>0, <1>1, HandlerTypes DEF IdentityInv, IdentityTypeOK, HandledInOrder, Vehicles
<1>3. go \in Working /\ go.step = "link" /\ go.event = e
  BY <1>0, <1>2 DEF Working
<1> HIDE DEF go
<1>4. owner'[e] # Absent /\ \A f \in Sightings \ {e} : owner'[f] = owner[f]
  BY <1>1, <1>2, VehicleIdsAssumption
<1>5. Bootstrap \in IdentityDocument /\ Bootstrap.status = "ACTIVE" /\ Bootstrap.count = 1
  BY DEF Bootstrap, IdentityDocument, Statuses
<1>6. IdentityTypeOK'
  <2>1. owner' \in [Sightings -> Vehicles \cup {Absent}] /\ vehicle' \in [Vehicles -> IdentityDocument]
    BY <1>1, <1>2, <1>5
  <2> QED
    BY <1>1, <1>2, <1>3, <2>1 DEF IdentityInv, IdentityTypeOK
<1>7. HandledInOrder'
  <2> SUFFICES ASSUME NEW g \in Handlers
               PROVE  /\ handler'[g].step \in {"register", "link"} => linked'[handler'[g].event] # Absent
                      /\ handler'[g].step = "link" => owner'[handler'[g].event] # Absent
    BY DEF HandledInOrder
  <2>1. CASE g = h
    BY <1>1, <1>2, <1>3, <1>4, <2>1
  <2>2. CASE g # h
    <3>1. handler'[g] = handler[g]
      BY <1>1, <1>2, <2>2
    <3>2. handler[g].step = "link" => handler[g].event \in Sightings
      BY HandlerTypes DEF Working
    <3> QED
      BY <1>1, <1>4, <3>1, <3>2 DEF IdentityInv, HandledInOrder
  <2> QED
    BY <2>1, <2>2
<1>8. AskedRightly'
  BY <1>1 DEF IdentityInv, AskedRightly
<1>9. CASE UNCHANGED <<owner, vehicle>>
  <2>1. RegisteredFirst' /\ EvidenceIsOwned'
    BY <1>1, <1>9 DEF IdentityInv, RegisteredFirst, EvidenceIsOwned, IsActive, Evidence
  <2> QED
    BY <1>6, <1>7, <1>8, <2>1 DEF IdentityInv
<1>10. CASE ~UNCHANGED <<owner, vehicle>>
  <2>0. /\ owner[e] = Absent /\ owner'[e] = e /\ vehicle'[e] = Bootstrap
        /\ \A v \in Vehicles \ {e} : vehicle'[v] = vehicle[v]
    BY <1>1, <1>2, <1>10
  <2>1. vehicle[e].status = Absent /\ \A f \in Sightings : owner[f] # e
    BY <1>2, <2>0, VehicleIdsAssumption DEF IdentityInv, RegisteredFirst, EvidenceIsOwned, IsActive, Absent
  <2>2. Evidence(e)' = {e} /\ \A v \in Vehicles \ {e} : Evidence(v)' = Evidence(v)
    BY <1>4, <2>0, <2>1, VehicleIdsAssumption DEF Evidence
  <2>3. Cardinality(Evidence(e)') = 1
    BY <2>2, FS_Singleton
  <2>4. RegisteredFirst'
    BY <1>1, <1>2, <1>4, <2>0 DEF IdentityInv, RegisteredFirst, Vehicles
  <2>5. \A f \in Sightings : owner'[f] # Absent => vehicle'[owner'[f]].status = "ACTIVE"
    <3> SUFFICES ASSUME NEW f \in Sightings, owner'[f] # Absent
                 PROVE  vehicle'[owner'[f]].status = "ACTIVE"
      OBVIOUS
    <3>1. CASE f = e
      BY <1>5, <2>0, <3>1
    <3>2. CASE f # e
      <4>1. owner[f] \in Vehicles \ {e} /\ vehicle[owner[f]].status = "ACTIVE" /\ owner'[f] = owner[f]
        BY <1>2, <1>4, <2>1, <3>2 DEF IdentityInv, EvidenceIsOwned, IsActive
      <4> QED
        BY <2>0, <4>1
    <3> QED
      BY <3>1, <3>2
  <2>6. \A v \in Vehicles : IsActive(v)' => /\ vehicle'[v].count = Cardinality(Evidence(v)')
                                            /\ Evidence(v)' # {}
    BY <1>5, <2>0, <2>2, <2>3 DEF IdentityInv, EvidenceIsOwned, IsActive
  <2>7. \A f \in Sightings \ overtaken : linked[f] \in Vehicles => linked[f] = owner'[f]
    BY <1>2, <1>4, <2>0, VehicleIdsAssumption DEF IdentityInv, EvidenceIsOwned
  <2>8. EvidenceIsOwned'
    BY <1>1, <2>5, <2>6, <2>7 DEF EvidenceIsOwned, IsActive
  <2> QED
    BY <1>6, <1>7, <1>8, <2>4, <2>8 DEF IdentityInv
<1> QED
  BY <1>9, <1>10

(* An event that is still to be linked is linked to the owner, unless the    *)
(* fingerprint was moved before.                                             *)
LEMMA LinkKeeps ==
    ASSUME IdentityInv, NEW h \in Handlers, Link(h)
    PROVE  IdentityInv'
<1>0. PICK e \in Sightings : e = handler[h].event
  BY HandlerTypes DEF Link, Working
<1>1. /\ linked[e] \in {Unlinked, e} /\ linked' = [linked EXCEPT ![e] = e]
      /\ handler' = [handler EXCEPT ![h] = Unoccupied] /\ handler[h].step = "link"
      /\ UNCHANGED <<owner, vehicle, commands, overtaken>>
  BY <1>0 DEF Link, Linkable
<1>2. /\ linked \in [Sightings -> Vehicles \cup {Absent, Unlinked}] /\ e \in Vehicles
      /\ handler \in [Handlers -> {Unoccupied} \cup Working]
      /\ owner[e] # Absent
  BY <1>0, <1>1 DEF IdentityInv, IdentityTypeOK, HandledInOrder, Vehicles
<1>3. linked'[e] = e /\ e # Absent /\ e # Unlinked /\ \A f \in Sightings \ {e} : linked'[f] = linked[f]
  BY <1>1, <1>2, VehicleIdsAssumption
<1>4. e \notin overtaken => owner[e] = e
  BY <1>1, <1>2 DEF IdentityInv, RegisteredFirst, EvidenceIsOwned
<1>5. IdentityTypeOK'
  BY <1>1, <1>2 DEF IdentityInv, IdentityTypeOK
<1>6. RegisteredFirst' /\ AskedRightly'
  BY <1>1, <1>3 DEF IdentityInv, RegisteredFirst, AskedRightly
<1>7. HandledInOrder'
  <2> SUFFICES ASSUME NEW g \in Handlers
               PROVE  /\ handler'[g].step \in {"register", "link"} => linked'[handler'[g].event] # Absent
                      /\ handler'[g].step = "link" => owner'[handler'[g].event] # Absent
    BY DEF HandledInOrder
  <2>1. CASE g = h
    BY <1>1, <1>2, <2>1 DEF Unoccupied
  <2>2. CASE g # h
    <3>1. handler'[g] = handler[g]
      BY <1>1, <1>2, <2>2
    <3>2. handler[g].step \in {"register", "link"} => handler[g].event \in Sightings
      BY HandlerTypes DEF Working
    <3> QED
      BY <1>1, <1>3, <3>1, <3>2 DEF IdentityInv, HandledInOrder
  <2> QED
    BY <2>1, <2>2
<1>8. EvidenceIsOwned'
  BY <1>1, <1>3, <1>4 DEF IdentityInv, EvidenceIsOwned, IsActive, Evidence
<1> QED
  BY <1>5, <1>6, <1>7, <1>8 DEF IdentityInv
------------------------------------------------------------------------------
(* What both reviews do: selected evidence goes from one identity to         *)
(* another, and the documents of both follow.                                *)
LEMMA MovingKeeps ==
    ASSUME IdentityInv, NEW r \in IdentityReviews,
           NEW source \in Vehicles, NEW to \in Vehicles, source # to,
           NEW selected \in SUBSET Evidence(source), selected # {},
           Moved(selected, source, to),
           commands' = [commands EXCEPT ![r] = Recorded], UNCHANGED handler,
           IsActive(source), to \in Sightings => IsActive(to),
           vehicle' \in [Vehicles -> IdentityDocument],
           \A v \in Vehicles \ {source, to} : vehicle'[v] = vehicle[v],
           vehicle'[to].status = "ACTIVE",
           vehicle'[to].count = Cardinality(Evidence(to) \cup selected),
           vehicle'[source].status = "ACTIVE" =>
              /\ vehicle'[source].count = Cardinality(Evidence(source) \ selected)
              /\ Evidence(source) \ selected # {},
           vehicle'[source].status # "ACTIVE" => selected = Evidence(source)
    PROVE  IdentityInv'
<1>0. /\ linked \in [Sightings -> Vehicles \cup {Absent, Unlinked}]
      /\ owner \in [Sightings -> Vehicles \cup {Absent}]
      /\ Absent \notin Vehicles /\ Unlinked \notin Vehicles
      /\ selected \subseteq Sightings /\ \A e \in selected : owner[e] = source
  BY VehicleIdsAssumption DEF IdentityInv, IdentityTypeOK, Evidence
<1>1. /\ owner' = [e \in Sightings |-> IF e \in selected THEN to ELSE owner[e]]
      /\ linked' = [e \in Sightings |->
                       IF e \in selected /\ linked[e] = source THEN to ELSE linked[e]]
      /\ overtaken' = overtaken \cup {e \in selected : linked[e] = Unlinked}
  BY DEF Moved
<1>2. /\ \A e \in selected : owner'[e] = to
      /\ \A e \in Sightings \ selected : owner'[e] = owner[e] /\ linked'[e] = linked[e]
      /\ \A e \in Sightings : linked'[e] # linked[e] => /\ e \in selected /\ linked[e] = source
                                                        /\ linked'[e] = to
  BY <1>0, <1>1
<1>3. IdentityTypeOK'
  <2>1. /\ owner' \in [Sightings -> Vehicles \cup {Absent}]
        /\ linked' \in [Sightings -> Vehicles \cup {Absent, Unlinked}]
        /\ overtaken' \subseteq Sightings
    BY <1>0, <1>1 DEF IdentityInv, IdentityTypeOK
  <2>2. commands' \in [IdentityReviews -> {NotAsked, Recorded} \cup MergeAsked \cup SplitAsked]
    BY DEF IdentityInv, IdentityTypeOK
  <2> QED
    BY <2>1, <2>2 DEF IdentityInv, IdentityTypeOK
<1>4. AskedRightly'
  <2>1. Recorded.kind = "stored"
    BY DEF Recorded
  <2> QED
    BY <2>1 DEF IdentityInv, IdentityTypeOK, AskedRightly
<1>5. HandledInOrder'
  <2>1. \A e \in Sightings : /\ linked[e] # Absent => linked'[e] # Absent
                             /\ owner[e] # Absent => owner'[e] # Absent
    BY <1>0, <1>2
  <2>2. \A h \in Handlers : handler[h].step \in {"register", "link"} => handler[h].event \in Sightings
    BY HandlerTypes DEF Working
  <2> QED
    BY <2>1, <2>2 DEF IdentityInv, HandledInOrder
<1>6. RegisteredFirst'
  <2> SUFFICES ASSUME NEW e \in Sightings
               PROVE  /\ owner'[e] # Absent => linked'[e] # Absent
                      /\ owner'[e] = Absent => vehicle'[e].status = Absent
                      /\ e \notin overtaken' /\ linked'[e] = Unlinked /\ owner'[e] # Absent
                            => owner'[e] = e
    BY DEF RegisteredFirst
  <2>1. CASE e \in selected
    <3>1. owner[e] = source /\ owner'[e] = to /\ linked[e] # Absent
      BY <1>0, <1>2, <2>1 DEF IdentityInv, RegisteredFirst
    <3>2. linked'[e] # Absent /\ owner'[e] # Absent
      BY <1>0, <1>2, <3>1
    <3>3. linked'[e] = Unlinked => e \in overtaken'
      BY <1>0, <1>1, <1>2, <2>1
    <3> QED
      BY <3>2, <3>3
  <2>2. CASE e \notin selected
    <3>1. owner'[e] = owner[e] /\ linked'[e] = linked[e] /\ (e \notin overtaken' => e \notin overtaken)
      BY <1>1, <1>2, <2>2
    <3>2. owner[e] = Absent => /\ vehicle[e].status = Absent /\ e \in Vehicles
                               /\ e # source /\ e # to
      BY DEF IdentityInv, RegisteredFirst, IsActive, Vehicles, Absent
    <3> QED
      BY <3>1, <3>2 DEF IdentityInv, RegisteredFirst
  <2> QED
    BY <2>1, <2>2
<1>7. /\ Evidence(to)' = Evidence(to) \cup selected
      /\ Evidence(source)' = Evidence(source) \ selected
      /\ \A v \in Vehicles \ {source, to} : Evidence(v)' = Evidence(v)
  BY <1>0, <1>2 DEF Evidence
<1>8. EvidenceIsOwned'
  <2>1. ASSUME NEW e \in Sightings, owner'[e] # Absent
        PROVE  vehicle'[owner'[e]].status = "ACTIVE"
    <3>1. CASE e \in selected
      BY <1>2, <3>1
    <3>2. CASE e \notin selected
      <4>1. owner'[e] = owner[e] /\ owner[e] \in Vehicles /\ vehicle[owner[e]].status = "ACTIVE"
        BY <1>0, <1>2, <2>1, <3>2 DEF IdentityInv, EvidenceIsOwned, IsActive
      <4>2. owner[e] = source => vehicle'[source].status = "ACTIVE"
        BY <3>2 DEF Evidence
      <4> QED
        BY <4>1, <4>2
    <3> QED
      BY <3>1, <3>2
  <2>2. ASSUME NEW v \in Vehicles, vehicle'[v].status = "ACTIVE"
        PROVE  vehicle'[v].count = Cardinality(Evidence(v)') /\ Evidence(v)' # {}
    <3>1. CASE v \in {source, to}
      BY <1>7, <2>2, <3>1
    <3>2. CASE v \notin {source, to}
      BY <1>7, <2>2, <3>2 DEF IdentityInv, EvidenceIsOwned, IsActive
    <3> QED
      BY <3>1, <3>2
  <2>3. ASSUME NEW e \in Sightings \ overtaken', linked'[e] \in Vehicles
        PROVE  linked'[e] = owner'[e]
    <3>0. e \notin overtaken
      BY <1>1
    <3>1. CASE e \in selected
      <4>1. linked[e] \in Vehicles
        BY <1>2, <2>3
      <4>2. linked[e] = source
        BY <1>0, <3>0, <3>1, <4>1 DEF IdentityInv, EvidenceIsOwned
      <4> QED
        BY <1>1, <1>2, <3>1, <4>2
    <3>2. CASE e \notin selected
      BY <1>2, <2>3, <3>0, <3>2 DEF IdentityInv, EvidenceIsOwned
    <3> QED
      BY <3>1, <3>2
  <2> QED
    BY <2>1, <2>2, <2>3 DEF EvidenceIsOwned, IsActive
<1> QED
  BY <1>3, <1>4, <1>5, <1>6, <1>8 DEF IdentityInv

LEMMA DocumentMerged ==
    ASSUME NEW d \in IdentityDocument, NEW m \in Nat,
           NEW u, u = [d EXCEPT !.status = "MERGED", !.revision = m]
    PROVE  u \in IdentityDocument /\ u.status = "MERGED"
BY DEF IdentityDocument, Statuses

LEMMA DocumentCreated ==
    ASSUME NEW n \in Nat, NEW u, u = [Bootstrap EXCEPT !.count = n]
    PROVE  u \in IdentityDocument /\ u.count = n /\ u.status = "ACTIVE"
BY DEF IdentityDocument, Statuses, Bootstrap

LEMMA MergeKeeps ==
    ASSUME IdentityInv, NEW r \in IdentityReviews, Merge(r)
    PROVE  IdentityInv'
<1>0. commands[r] \in MergeAsked /\ commands[r].source # commands[r].target
  BY CommandTypes DEF Merge, IdentityInv, AskedRightly
<1>1. PICK source \in Vehicles, target \in Vehicles :
         source = commands[r].source /\ target = commands[r].target /\ source # target
  BY <1>0 DEF MergeAsked
<1> DEFINE all == Evidence(source) \cup Evidence(target)
           into == [vehicle[target] EXCEPT !.count = Cardinality(all),
                                           !.revision = vehicle[target].revision + 1]
           merged == [vehicle[source] EXCEPT !.status = "MERGED",
                                             !.revision = vehicle[source].revision + 1]
<1>2. /\ IsActive(source) /\ IsActive(target) /\ Evidence(source) # {}
      /\ Moved(Evidence(source), source, target)
      /\ commands' = [commands EXCEPT ![r] = Recorded] /\ UNCHANGED handler
  BY <1>1 DEF Merge, Mergeable, Reviewable
<1>3. vehicle \in [Vehicles -> IdentityDocument] /\ vehicle[source] \in IdentityDocument
      /\ vehicle[target] \in IdentityDocument
  BY DEF IdentityInv, IdentityTypeOK
<1>4. Cardinality(all) \in Nat
  BY FS_Union, FS_CardinalityType, EvidenceIsFinite
<1>5. /\ into \in IdentityDocument /\ into.count = Cardinality(all) /\ into.status = vehicle[target].status
      /\ merged \in IdentityDocument /\ merged.status = "MERGED"
  <2>1. into \in IdentityDocument /\ into.count = Cardinality(all) /\ into.status = vehicle[target].status
    <3>1. vehicle[target].revision + 1 \in Nat
      BY <1>3 DEF IdentityDocument
    <3>2. PICK d \in IdentityDocument, n \in Nat, m \in Nat :
             d = vehicle[target] /\ n = Cardinality(all) /\ m = vehicle[target].revision + 1
      BY <1>3, <1>4, <3>1
    <3>3. into = [d EXCEPT !.count = n, !.revision = m]
      BY <3>2, Zenon
    <3> HIDE DEF into
    <3>4. into \in IdentityDocument /\ into.count = n /\ into.status = d.status
      BY <3>3 DEF IdentityDocument
    <3> QED
      BY <3>2, <3>4
  <2>2. merged \in IdentityDocument /\ merged.status = "MERGED"
    <3>1. vehicle[source].revision + 1 \in Nat
      BY <1>3 DEF IdentityDocument
    <3> QED
      BY <1>3, <3>1, DocumentMerged, Zenon
  <2> HIDE DEF into, merged
  <2> QED
    BY <2>1, <2>2
<1>6. vehicle' = [vehicle EXCEPT ![target] = into, ![source] = merged]
  BY <1>1, <1>3 DEF Merge, IdentityDocument
<1> HIDE DEF into, merged
<1>7. /\ vehicle' \in [Vehicles -> IdentityDocument]
      /\ vehicle'[target] = into /\ vehicle'[source] = merged
      /\ \A v \in Vehicles \ {source, target} : vehicle'[v] = vehicle[v]
  BY <1>1, <1>3, <1>5, <1>6
<1>8. into.status = "ACTIVE" /\ all = Evidence(target) \cup Evidence(source)
  BY <1>2, <1>5 DEF IsActive
<1> QED
  BY <1>1, <1>2, <1>5, <1>7, <1>8, MovingKeeps

LEMMA SplitKeeps ==
    ASSUME IdentityInv, NEW r \in IdentityReviews, Split(r)
    PROVE  IdentityInv'
<1>0. commands[r] \in SplitAsked /\ commands[r].selected # {}
  BY CommandTypes DEF Split, IdentityInv, AskedRightly
<1>1. PICK source \in Vehicles, selected \in SUBSET Sightings :
         source = commands[r].source /\ selected = commands[r].selected /\ selected # {}
  BY <1>0 DEF SplitAsked
<1> DEFINE remaining == Evidence(source) \ selected
           kept == [vehicle[source] EXCEPT !.count = Cardinality(remaining),
                                           !.revision = vehicle[source].revision + 1]
           new == [Bootstrap EXCEPT !.count = Cardinality(selected)]
<1>2. /\ IsActive(source) /\ selected \in SUBSET Evidence(source) /\ remaining # {}
      /\ vehicle[r].status = Absent
      /\ Moved(selected, source, r)
      /\ commands' = [commands EXCEPT ![r] = Recorded] /\ UNCHANGED handler
  BY <1>1 DEF Split, Splittable
<1>3. /\ vehicle \in [Vehicles -> IdentityDocument] /\ vehicle[source] \in IdentityDocument
      /\ r \in Vehicles /\ r \notin Sightings
  BY SightingsAssumption DEF IdentityInv, IdentityTypeOK, Vehicles
<1>4. r # source /\ Evidence(r) = {}
  <2>1. ~IsActive(r)
    BY <1>2 DEF IsActive, Absent
  <2>2. \A e \in Sightings : owner[e] # r
    BY <1>3, <2>1, VehicleIdsAssumption DEF IdentityInv, EvidenceIsOwned
  <2> QED
    BY <1>2, <2>1, <2>2 DEF Evidence
<1>5. Cardinality(remaining) \in Nat /\ Cardinality(selected) \in Nat
  BY <1>2, EvidenceIsFinite
<1>6. /\ kept \in IdentityDocument /\ kept.count = Cardinality(remaining)
      /\ new \in IdentityDocument /\ new.status = "ACTIVE" /\ new.count = Cardinality(selected)
  <2>1. kept \in IdentityDocument /\ kept.count = Cardinality(remaining)
    <3>1. vehicle[source].revision + 1 \in Nat
      BY <1>3 DEF IdentityDocument
    <3>2. PICK d \in IdentityDocument, n \in Nat, m \in Nat :
             d = vehicle[source] /\ n = Cardinality(remaining) /\ m = vehicle[source].revision + 1
      BY <1>3, <1>5, <3>1
    <3>3. kept = [d EXCEPT !.count = n, !.revision = m]
      BY <3>2, Zenon
    <3> HIDE DEF kept
    <3>4. kept \in IdentityDocument /\ kept.count = n
      BY <3>3 DEF IdentityDocument
    <3> QED
      BY <3>2, <3>4
  <2>2. new \in IdentityDocument /\ new.status = "ACTIVE" /\ new.count = Cardinality(selected)
    BY <1>5, DocumentCreated, Zenon
  <2> HIDE DEF kept, new
  <2> QED
    BY <2>1, <2>2
<1>7. vehicle' = [vehicle EXCEPT ![source] = kept, ![r] = new]
  BY <1>1, <1>3, <1>4 DEF Split, IdentityDocument
<1> HIDE DEF kept, new
<1>8. /\ vehicle' \in [Vehicles -> IdentityDocument]
      /\ vehicle'[source] = kept /\ vehicle'[r] = new
      /\ \A v \in Vehicles \ {source, r} : vehicle'[v] = vehicle[v]
  BY <1>3, <1>4, <1>6, <1>7
<1>9. kept.status = "ACTIVE" /\ Evidence(r) \cup selected = selected
  BY <1>2, <1>3, <1>4 DEF kept, IsActive, IdentityDocument
<1> QED
  BY <1>1, <1>2, <1>3, <1>4, <1>6, <1>8, <1>9, MovingKeeps
------------------------------------------------------------------------------
LEMMA IdentityInductive == IdentityInv /\ [IdentityNext]_identityVars => IdentityInv'
<1> SUFFICES ASSUME IdentityInv, [IdentityNext]_identityVars PROVE IdentityInv'
  OBVIOUS
<1>1. CASE UNCHANGED identityVars
  <2>1. /\ UNCHANGED <<linked, owner, vehicle, handler, commands, overtaken>>
        /\ IdentityTypeOK /\ RegisteredFirst /\ HandledInOrder /\ AskedRightly /\ EvidenceIsOwned
    BY <1>1 DEF identityVars, IdentityInv
  <2>2. IdentityTypeOK' /\ RegisteredFirst'
    BY <2>1 DEF IdentityTypeOK, RegisteredFirst
  <2>3. HandledInOrder' /\ AskedRightly'
    BY <2>1 DEF HandledInOrder, AskedRightly
  <2>4. EvidenceIsOwned'
    BY <2>1 DEF EvidenceIsOwned, IsActive, Evidence
  <2> QED
    BY <2>2, <2>3, <2>4 DEF IdentityInv
<1> QED
  BY <1>1, TakeEventKeeps, SaveEventKeeps, RegisterKeeps, LinkKeeps, InterruptKeeps, AskSteps,
     MergeKeeps, SplitKeeps DEF IdentityNext, Handle, Review

(* The evidence is owned by active identities, counted and followed.         *)
THEOREM EvidenceStaysOwned == IdentitySpec => []EvidenceIsOwned
<1>1. IdentityInv => EvidenceIsOwned
  BY DEF IdentityInv
<1> QED
  BY <1>1, IdentityInitially, IdentityInductive, PTL DEF IdentitySpec
------------------------------------------------------------------------------
(* Retention, evidence pins and exports.                                    *)

(* A lease takes the key of a kind with it, a removed object stays removed.  *)
MediaIsConsistent ==
    \A k \in Kinds :
       /\ event.media[k].key <=> event.media[k].state \in {"none", "FAILED"}
       /\ event.media[k].state = "DELETED" => k \notin objects

(* Nothing leads a kind back from DELETED.                                   *)
PassesAreRight ==
    \A w \in RetentionWorkers :
       /\ passes[w].pc = "removed" => passes[w].kind \notin objects
       /\ passes[w].pc = "deleting" => \A k \in Kinds : event.media[k].state = "DELETED"

(* The pins of samples created with their review: none comes once the plate  *)
(* crop has lost its key.                                                    *)
Early == {r \in Revisions : samples[r].status \in Pinning /\ ~samples[r].late}

PinsAreSeen ==
    /\ ~event.there => objects = {} /\ Early = {}
    /\ \A w \in RetentionWorkers : passes[w].pc = "deleting" => Early = {}

ExportsAreWhole ==
    /\ \A x \in Exports :
          /\ exporters[x].pc = "preparing" => artifacts[x] = {}
          /\ exporters[x].pc \in {"marking", "resuming"} => exporters[x].batch \subseteq artifacts[x]
    /\ \A r \in Revisions : samples[r].status = "EXPORTED" => samples[r].export \in Exports
    /\ ExportedIsInArtifact

RetentionInv ==
    RetentionTypeOK /\ MediaIsConsistent /\ PassesAreRight /\ PinsAreSeen /\ ExportsAreWhole

Media == [key : BOOLEAN, state : LeaseStates, lease : RetentionWorkers \cup {Nobody}, stale : BOOLEAN]
Pass == [pc : {"idle", "claiming", "removing", "removed", "failed", "events", "deleting"},
         kind : Kinds, skipped : BOOLEAN]
Sample == [status : SampleStates, late : BOOLEAN, export : Exports \cup {Nobody}]
------------------------------------------------------------------------------
LEMMA RetentionInitially == RetentionInit => RetentionInv
<1> SUFFICES ASSUME RetentionInit PROVE RetentionInv
  OBVIOUS
<1> USE PlateCropAssumption, NobodyAssumption, RetentionBoundsAssumption
<1>1. RetentionTypeOK
  <2>1. event \in Document
    BY DEF RetentionInit, Document, LeaseStates
  <2>2. samples \in [Revisions -> [status : SampleStates, late : BOOLEAN, export : Exports \cup {Nobody}]]
    BY DEF RetentionInit, SampleStates
  <2>3. passes \in [RetentionWorkers -> Pass]
    BY DEF RetentionInit, IdlePass, Pass
  <2>4. /\ reviews \in [Reviewers -> [pc : {"idle", "saved", "checked"}, revision : 0..MaxRevision]]
        /\ exporters \in [Exports -> [pc : {"idle", "preparing", "marking", "resuming"},
                                      batch : SUBSET Revisions]]
        /\ objects \subseteq Kinds /\ artifacts \in [Exports -> SUBSET Revisions]
    BY DEF RetentionInit
  <2>5. world \in [transactions : BOOLEAN, crowded : SUBSET Scans, faults : 0..MaxRetentionFaults]
    BY DEF RetentionInit, Scans
  <2> QED
    BY <2>1, <2>2, <2>3, <2>4, <2>5 DEF RetentionTypeOK, Pass
<1>2. MediaIsConsistent
  BY DEF RetentionInit, MediaIsConsistent
<1>3. PassesAreRight /\ PinsAreSeen
  BY DEF RetentionInit, PassesAreRight, PinsAreSeen, IdlePass
<1>4. ExportsAreWhole
  BY DEF RetentionInit, ExportsAreWhole, ExportedIsInArtifact
<1> QED
  BY <1>1, <1>2, <1>3, <1>4 DEF RetentionInv
------------------------------------------------------------------------------
(* One kind's lease and key change, and nothing else of the document.        *)
LEMMA SetMediaFacts ==
    ASSUME RetentionTypeOK, NEW k \in Kinds, NEW m \in Media, SetMedia(k, m)
    PROVE  /\ event' \in Document
           /\ event'.media[k] = m
           /\ \A j \in Kinds \ {k} : event'.media[j] = event.media[j]
           /\ event'.there = event.there
<1>1. event \in Document /\ event.media \in [Kinds -> Media]
  BY DEF RetentionTypeOK, Document, Media
<1>2. event' = [event EXCEPT !.media = [event.media EXCEPT ![k] = m]]
  BY <1>1 DEF SetMedia, Document
<1>3. [event.media EXCEPT ![k] = m] \in [Kinds -> Media]
  BY <1>1
<1> HIDE DEF Media
<1>4. event' \in Document
  BY <1>1, <1>2, <1>3 DEF Document, Media
<1>5. event'.media = [event.media EXCEPT ![k] = m] /\ event'.there = event.there
  BY <1>1, <1>2 DEF Document
<1> QED
  BY <1>1, <1>4, <1>5

LEMMA GotoFacts ==
    ASSUME RetentionTypeOK, NEW w \in RetentionWorkers,
           NEW pc \in {"removing", "removed", "failed", "events", "deleting"}, Goto(w, pc)
    PROVE  /\ passes' \in [RetentionWorkers -> Pass]
           /\ passes'[w].pc = pc /\ passes'[w].kind = passes[w].kind
           /\ \A u \in RetentionWorkers \ {w} : passes'[u] = passes[u]
<1>1. passes \in [RetentionWorkers -> Pass] /\ passes[w] \in Pass
  BY DEF RetentionTypeOK, Pass
<1>2. passes' = [passes EXCEPT ![w] = [passes[w] EXCEPT !.pc = pc]]
  BY DEF Goto
<1>3. [passes[w] EXCEPT !.pc = pc] \in Pass
  BY <1>1 DEF Pass
<1>4. [passes[w] EXCEPT !.pc = pc].pc = pc /\ [passes[w] EXCEPT !.pc = pc].kind = passes[w].kind
  BY <1>1 DEF Pass
<1> QED
  BY <1>1, <1>2, <1>3, <1>4

LEMMA IdleFacts ==
    ASSUME RetentionTypeOK, NEW w \in RetentionWorkers, passes' = [passes EXCEPT ![w] = IdlePass]
    PROVE  /\ passes' \in [RetentionWorkers -> Pass]
           /\ passes'[w].pc = "idle"
           /\ \A u \in RetentionWorkers \ {w} : passes'[u] = passes[u]
<1>1. passes \in [RetentionWorkers -> Pass] /\ IdlePass \in Pass /\ IdlePass.pc = "idle"
  BY PlateCropAssumption DEF RetentionTypeOK, Pass, IdlePass
<1> QED
  BY <1>1

LEMMA FaultTypes ==
    ASSUME RetentionTypeOK, RetentionFault
    PROVE  world' \in [transactions : BOOLEAN, crowded : SUBSET Scans, faults : 0..MaxRetentionFaults]
<1>1. /\ world \in [transactions : BOOLEAN, crowded : SUBSET Scans, faults : 0..MaxRetentionFaults]
      /\ world.faults < MaxRetentionFaults
      /\ world' = [world EXCEPT !.faults = world.faults + 1]
  BY DEF RetentionTypeOK, RetentionFault
<1>2. world.faults + 1 \in 0..MaxRetentionFaults
  BY <1>1, RetentionBoundsAssumption
<1> QED
  BY <1>1, <1>2
------------------------------------------------------------------------------
(* What every step of a worker keeps: DELETED stays, the store shrinks, the  *)
(* samples and exports are left alone.                                       *)
WorkerKeeps(w) ==
    /\ UNCHANGED others
    /\ event' \in Document /\ passes' \in [RetentionWorkers -> Pass]
    /\ world' \in [transactions : BOOLEAN, crowded : SUBSET Scans, faults : 0..MaxRetentionFaults]
    /\ objects' \subseteq objects
    /\ MediaIsConsistent'
    /\ \A k \in Kinds : event.media[k].state = "DELETED" => event'.media[k].state = "DELETED"
    /\ \A u \in RetentionWorkers \ {w} : passes'[u] = passes[u]
    /\ passes'[w].pc = "removed" => passes'[w].kind \notin objects'
    /\ passes'[w].pc = "deleting" => /\ \A k \in Kinds : event.media[k].state = "DELETED"
                                     /\ Early = {}
    /\ ~event'.there => objects = {} /\ Early = {}

LEMMA WorkerKeepsInv ==
    ASSUME RetentionInv, NEW w \in RetentionWorkers, WorkerKeeps(w)
    PROVE  RetentionInv'
<1>0. UNCHANGED <<samples, artifacts, reviews, exporters>> /\ Early' = Early
  BY DEF WorkerKeeps, others, Early
<1>1. RetentionTypeOK'
  BY <1>0 DEF RetentionInv, RetentionTypeOK, WorkerKeeps, Pass
<1>2. MediaIsConsistent'
  BY DEF WorkerKeeps
<1>3. PassesAreRight'
  <2> SUFFICES ASSUME NEW u \in RetentionWorkers
               PROVE  /\ passes'[u].pc = "removed" => passes'[u].kind \notin objects'
                      /\ passes'[u].pc = "deleting" => \A k \in Kinds : event'.media[k].state = "DELETED"
    BY DEF PassesAreRight
  <2> QED
    BY DEF WorkerKeeps, RetentionInv, PassesAreRight
<1>4. PinsAreSeen'
  BY <1>0 DEF WorkerKeeps, RetentionInv, PinsAreSeen
<1>5. ExportsAreWhole'
  BY <1>0 DEF RetentionInv, ExportsAreWhole, ExportedIsInArtifact
<1> QED
  BY <1>1, <1>2, <1>3, <1>4, <1>5 DEF RetentionInv

LEMMA MediaStates ==
    RetentionTypeOK => /\ event \in Document /\ \A k \in Kinds : event.media[k] \in Media
                       /\ passes \in [RetentionWorkers -> Pass]
                       /\ world \in [transactions : BOOLEAN, crowded : SUBSET Scans, faults : 0..MaxRetentionFaults]
BY DEF RetentionTypeOK, Document, Media, Pass

LEMMA WorkerSteps ==
    ASSUME RetentionInv, NEW w \in RetentionWorkers,
           (\E k \in Kinds : ReadPins(w, k)) \/ PassSteps(w) \/ PassBreaks(w)
    PROVE  WorkerKeeps(w)
<1> USE DEF RetentionInv, WorkerKeeps
<1>0. /\ RetentionTypeOK /\ passes[w] \in Pass
      /\ ~event.there => objects = {} /\ Early = {}
  BY MediaStates DEF PinsAreSeen
<1>1. ASSUME NEW k \in Kinds, ReadPins(w, k) PROVE WorkerKeeps(w)
  <2>1. PICK s \in BOOLEAN :
           /\ passes' = [passes EXCEPT ![w] = [pc |-> "claiming", kind |-> k, skipped |-> s]]
           /\ UNCHANGED <<event, objects, world, others>>
    BY <1>1 DEF ReadPins
  <2>2. [pc |-> "claiming", kind |-> k, skipped |-> s] \in Pass
    BY DEF Pass
  <2>3. passes' \in [RetentionWorkers -> Pass] /\ passes'[w].pc = "claiming"
        /\ \A u \in RetentionWorkers \ {w} : passes'[u] = passes[u]
    BY <1>0, <2>1, <2>2, MediaStates
  <2>4. MediaIsConsistent'
    BY <2>1 DEF MediaIsConsistent
  <2> QED
    BY <1>0, <2>1, <2>3, <2>4, MediaStates
<1>2. CASE ClaimMedia(w)
  <2>1. UNCHANGED <<objects, world, others>>
    BY <1>2 DEF ClaimMedia
  <2>2. CASE UNCHANGED event /\ Goto(w, "events")
    <3>1. MediaIsConsistent'
      BY <2>1, <2>2 DEF MediaIsConsistent
    <3> QED
      BY <1>0, <2>1, <2>2, <3>1, GotoFacts, MediaStates
  <2>3. CASE ~(UNCHANGED event /\ Goto(w, "events"))
    <3>0. PICK k \in Kinds : k = passes[w].kind
      BY <1>0 DEF Pass
    <3>1. /\ SetMedia(k, Leased(w)) /\ Goto(w, "removing")
          /\ Claimable(k) \/ LeaseReclaimable(k)
      BY <1>2, <2>3, <3>0 DEF ClaimMedia
    <3>2. event.media[k].state # "DELETED" /\ Leased(w) \in Media
      BY <3>1 DEF Claimable, LeaseReclaimable, Leased, Media, LeaseStates
    <3>3. /\ event' \in Document /\ event'.media[k] = Leased(w)
          /\ \A j \in Kinds \ {k} : event'.media[j] = event.media[j]
          /\ event'.there = event.there
      BY <1>0, <3>1, <3>2, SetMediaFacts
    <3>4. MediaIsConsistent'
      BY <2>1, <3>3 DEF MediaIsConsistent, Leased
    <3>5. \A j \in Kinds : event.media[j].state = "DELETED" => event'.media[j].state = "DELETED"
      BY <3>2, <3>3
    <3> QED
      BY <1>0, <2>1, <3>1, <3>3, <3>4, <3>5, GotoFacts, MediaStates
  <2> QED
    BY <2>2, <2>3
<1>3. CASE RemoveMedia(w)
  <2>1. /\ objects' \subseteq objects /\ UNCHANGED <<event, others>>
        /\ \/ Goto(w, "removed") /\ passes[w].kind \notin objects' /\ UNCHANGED world
           \/ Goto(w, "failed") /\ RetentionFault
    BY <1>3 DEF RemoveMedia
  <2>2. MediaIsConsistent'
    BY <2>1 DEF MediaIsConsistent
  <2> QED
    BY <1>0, <2>1, <2>2, GotoFacts, FaultTypes, MediaStates
<1>4. CASE MarkMedia(w)
  <2>1. UNCHANGED <<objects, world, others>>
    BY <1>4 DEF MarkMedia
  <2>2. CASE UNCHANGED event /\ passes' = [passes EXCEPT ![w] = IdlePass]
    <3>1. MediaIsConsistent'
      BY <2>1, <2>2 DEF MediaIsConsistent
    <3> QED
      BY <1>0, <2>1, <2>2, <3>1, IdleFacts, MediaStates
  <2>3. CASE ~(UNCHANGED event /\ passes' = [passes EXCEPT ![w] = IdlePass])
    <3>0. PICK k \in Kinds : k = passes[w].kind
      BY <1>0 DEF Pass
    <3> DEFINE failed == passes[w].pc = "failed"
               m == [key |-> failed, state |-> IF failed THEN "FAILED" ELSE "DELETED",
                     lease |-> Nobody, stale |-> FALSE]
    <3>1. Owned(w) /\ SetMedia(k, m) /\ Goto(w, "events") /\ (failed \/ passes[w].pc = "removed")
      BY <1>4, <2>3, <3>0 DEF MarkMedia
    <3>2. event.media[k].state # "DELETED" /\ m \in Media
      BY <3>0, <3>1 DEF Owned, Media, LeaseStates
    <3>3. ~failed => k \notin objects
      BY <3>0, <3>1 DEF PassesAreRight
    <3>4. m.key = failed /\ m.state = IF failed THEN "FAILED" ELSE "DELETED"
      OBVIOUS
    <3> HIDE DEF m, failed
    <3>5. /\ event' \in Document /\ event'.media[k] = m
          /\ \A j \in Kinds \ {k} : event'.media[j] = event.media[j]
          /\ event'.there = event.there
      BY <1>0, <3>1, <3>2, SetMediaFacts
    <3>6. MediaIsConsistent'
      <4> SUFFICES ASSUME NEW j \in Kinds
                   PROVE  /\ event'.media[j].key <=> event'.media[j].state \in {"none", "FAILED"}
                          /\ event'.media[j].state = "DELETED" => j \notin objects
        BY <2>1 DEF MediaIsConsistent
      <4> QED
        BY <3>3, <3>4, <3>5 DEF MediaIsConsistent
    <3>7. \A j \in Kinds : event.media[j].state = "DELETED" => event'.media[j].state = "DELETED"
      BY <3>2, <3>5
    <3> QED
      BY <1>0, <2>1, <3>1, <3>5, <3>6, <3>7, GotoFacts, MediaStates
  <2> QED
    BY <2>2, <2>3
<1>5. CASE FindExpired(w)
  <2>1. /\ UNCHANGED <<event, objects, world, others>>
        /\ \/ passes' = [passes EXCEPT ![w] = IdlePass]
           \/ Goto(w, "deleting") /\ MediaReady /\ ~EventPinned
    BY <1>5 DEF FindExpired
  <2>2. MediaIsConsistent'
    BY <2>1 DEF MediaIsConsistent
  <2>3. MediaReady => \A k \in Kinds : event.media[k].state = "DELETED"
    BY <1>0, MediaStates DEF MediaReady, MediaIsConsistent, Media, LeaseStates
  <2>4. ~EventPinned => Early = {}
    BY DEF EventPinned, Pinned, Early
  <2> QED
    BY <1>0, <2>1, <2>2, <2>3, <2>4, IdleFacts, GotoFacts, MediaStates
<1>6. CASE DeleteExpired(w)
  <2>1. /\ passes[w].pc = "deleting" /\ event' = [event EXCEPT !.there = FALSE]
        /\ passes' = [passes EXCEPT ![w] = IdlePass] /\ UNCHANGED <<objects, world, others>>
    BY <1>6 DEF DeleteExpired
  <2>2. event' \in Document /\ event'.media = event.media
    BY <1>0, <2>1, MediaStates DEF Document
  <2>3. MediaIsConsistent'
    BY <2>1, <2>2 DEF MediaIsConsistent
  <2>4. objects = {} /\ Early = {}
    BY <1>0, <2>1 DEF PassesAreRight, MediaIsConsistent, PinsAreSeen, RetentionTypeOK
  <2> QED
    BY <1>0, <2>1, <2>2, <2>3, <2>4, IdleFacts, MediaStates
<1>7. CASE PassBreaks(w)
  <2>1. /\ RetentionFault /\ passes' = [passes EXCEPT ![w] = IdlePass]
        /\ UNCHANGED <<event, objects, others>>
    BY <1>7 DEF PassBreaks
  <2>2. MediaIsConsistent'
    BY <2>1 DEF MediaIsConsistent
  <2> QED
    BY <1>0, <2>1, <2>2, IdleFacts, FaultTypes, MediaStates
<1> QED
  BY <1>1, <1>2, <1>3, <1>4, <1>5, <1>6, <1>7 DEF PassSteps
------------------------------------------------------------------------------
(* Reviews change the document's revision and add samples: an early one only *)
(* while the plate crop has its key.                                         *)
SamplesType == [Revisions -> Sample]
ReviewsType == [Reviewers -> [pc : {"idle", "saved", "checked"}, revision : 0..MaxRevision]]

ReviewerKeeps ==
    /\ UNCHANGED retentionOnly
    /\ event' \in Document /\ event'.media = event.media /\ event'.there = event.there
    /\ samples' \in SamplesType /\ reviews' \in ReviewsType
    /\ world' \in [transactions : BOOLEAN, crowded : SUBSET Scans, faults : 0..MaxRetentionFaults]
    /\ \A r \in Revisions : samples'[r].status = "EXPORTED" => samples'[r] = samples[r]
    /\ (Early' = Early) \/ (event.there /\ event.media[PlateCrop].key)

LEMMA ReviewerKeepsInv ==
    ASSUME RetentionInv, ReviewerKeeps
    PROVE  RetentionInv'
<1>0. UNCHANGED <<objects, artifacts, passes, exporters>>
  BY DEF ReviewerKeeps, retentionOnly
<1>1. RetentionTypeOK'
  BY <1>0 DEF RetentionInv, RetentionTypeOK, ReviewerKeeps, SamplesType, Sample, ReviewsType
<1>2. MediaIsConsistent' /\ PassesAreRight'
  BY <1>0 DEF ReviewerKeeps, RetentionInv, MediaIsConsistent, PassesAreRight
<1>3. PinsAreSeen'
  <2>1. event.media[PlateCrop].key => \A w \in RetentionWorkers : passes[w].pc # "deleting"
    BY PlateCropAssumption DEF RetentionInv, PassesAreRight, MediaIsConsistent
  <2> QED
    BY <1>0, <2>1 DEF ReviewerKeeps, RetentionInv, PinsAreSeen
<1>4. ExportsAreWhole'
  BY <1>0 DEF ReviewerKeeps, RetentionInv, ExportsAreWhole, ExportedIsInArtifact
<1> QED
  BY <1>1, <1>2, <1>3, <1>4 DEF RetentionInv

LEMMA SampledFacts ==
    ASSUME RetentionTypeOK, NEW r \in 0..MaxRevision, NEW late \in BOOLEAN
    PROVE  /\ Sampled(r, late) \in SamplesType
           /\ \A q \in Revisions :
                 Sampled(r, late)[q] # samples[q] => /\ Sampled(r, late)[q].status = "READY"
                                                     /\ Sampled(r, late)[q].late = late
                                                     /\ samples[q].status = "none"
<1>1. samples \in SamplesType
  BY DEF RetentionTypeOK, SamplesType, Sample
<1>2. CASE Sampled(r, late) = samples
  BY <1>1, <1>2
<1>3. CASE Sampled(r, late) # samples
  <2>1. /\ samples[r].status = "none"
        /\ Sampled(r, late) = [samples EXCEPT ![r] = [samples[r] EXCEPT !.status = "READY", !.late = late]]
    BY <1>1, <1>3 DEF Sampled, SamplesType
  <2>2. CASE r \in Revisions
    <3>1. samples[r] \in Sample
      BY <1>1, <2>2 DEF SamplesType
    <3>2. /\ [samples[r] EXCEPT !.status = "READY", !.late = late] \in Sample
          /\ [samples[r] EXCEPT !.status = "READY", !.late = late].status = "READY"
          /\ [samples[r] EXCEPT !.status = "READY", !.late = late].late = late
      BY <3>1 DEF Sample, SampleStates
    <3> QED
      BY <1>1, <2>1, <3>2 DEF SamplesType
  <2>3. CASE r \notin Revisions
    BY <1>1, <2>1, <2>3 DEF SamplesType
  <2> QED
    BY <2>2, <2>3
<1> QED
  BY <1>2, <1>3

LEMMA LateIsNotEarly ==
    ASSUME RetentionTypeOK, NEW r \in 0..MaxRevision, samples' = Sampled(r, TRUE)
    PROVE  Early' = Early
<1>1. \A q \in Revisions :
         samples'[q] # samples[q] => samples'[q].late = TRUE /\ samples[q].status = "none"
  BY SampledFacts
<1> QED
  BY <1>1 DEF Early, Pinning

LEMMA UpdateFacts ==
    ASSUME RetentionTypeOK, NEW v \in Reviewers, UpdateReview(v)
    PROVE  /\ event' \in Document /\ event'.media = event.media /\ event'.there = event.there
           /\ event'.revision \in 0..MaxRevision /\ event.there
<1>1. event \in Document /\ event.revision \in 0..MaxRevision
  BY DEF RetentionTypeOK, Document
<1>2. event.revision + 1 \in 0..MaxRevision
  BY <1>1, RetentionBoundsAssumption DEF UpdateReview
<1>3. event' = [event EXCEPT !.revision = event.revision + 1, !.author = v]
  BY DEF UpdateReview
<1> QED
  BY <1>1, <1>2, <1>3 DEF UpdateReview, Document

LEMMA ReviewerSteps ==
    ASSUME RetentionInv, NEW v \in Reviewers,
           \/ ReviewInTransaction(v) \/ SaveReview(v) \/ RetryReview(v)
           \/ CheckCrop(v) \/ CreateSample(v) \/ ReviewBreaks(v)
    PROVE  ReviewerKeeps
<1>0. /\ RetentionTypeOK /\ event \in Document /\ samples \in SamplesType /\ reviews \in ReviewsType
      /\ event.revision \in 0..MaxRevision
      /\ world \in [transactions : BOOLEAN, crowded : SUBSET Scans, faults : 0..MaxRetentionFaults]
      /\ reviews[v].revision \in 0..MaxRevision
  BY DEF RetentionInv, RetentionTypeOK, Document, SamplesType, Sample, ReviewsType
<1>1. CASE ReviewInTransaction(v)
  <2>1. PICK r \in 0..MaxRevision : r = event'.revision
    BY <1>0, <1>1, UpdateFacts DEF ReviewInTransaction
  <2>2. /\ UNCHANGED <<reviews, world, retentionOnly>>
        /\ (samples' = samples) \/ (event.media[PlateCrop].key /\ samples' = Sampled(r, FALSE))
    BY <1>1, <2>1 DEF ReviewInTransaction
  <2>3. /\ event' \in Document /\ event'.media = event.media /\ event'.there = event.there /\ event.there
    BY <1>0, <1>1, UpdateFacts DEF ReviewInTransaction
  <2>4. CASE samples' = samples
    <3>1. Early' = Early
      BY <2>4 DEF Early
    <3> QED
      BY <1>0, <2>2, <2>3, <2>4, <3>1 DEF ReviewerKeeps
  <2>5. CASE event.media[PlateCrop].key /\ samples' = Sampled(r, FALSE)
    <3>1. samples' \in SamplesType /\ \A q \in Revisions : samples'[q].status = "EXPORTED" => samples'[q] = samples[q]
      BY <1>0, <2>5, SampledFacts
    <3> QED
      BY <1>0, <2>2, <2>3, <2>5, <3>1 DEF ReviewerKeeps
  <2> QED
    BY <2>2, <2>4, <2>5
<1>2. CASE SaveReview(v) \/ RetryReview(v)
  <2>1. /\ event' \in Document /\ event'.media = event.media /\ event'.there = event.there
        /\ event'.revision \in 0..MaxRevision
    BY <1>0, <1>2, UpdateFacts DEF SaveReview, RetryReview
  <2>2. UNCHANGED <<samples, world, retentionOnly>> /\ CropFollows(v)
    BY <1>2 DEF SaveReview, RetryReview
  <2>3. reviews' \in ReviewsType
    <3>1. [pc |-> "saved", revision |-> event'.revision]
             \in [pc : {"idle", "saved", "checked"}, revision : 0..MaxRevision]
      BY <2>1
    <3> QED
      BY <1>0, <2>2, <3>1 DEF CropFollows, ReviewsType
  <2>4. Early' = Early
    BY <2>2 DEF Early
  <2> QED
    BY <1>0, <2>1, <2>2, <2>3, <2>4 DEF ReviewerKeeps
<1>3. EndReview(v) => reviews' \in ReviewsType
  <2>1. [pc |-> "idle", revision |-> 0]
             \in [pc : {"idle", "saved", "checked"}, revision : 0..MaxRevision]
    BY RetentionBoundsAssumption
  <2> QED
    BY <1>0, <2>1 DEF EndReview, ReviewsType
<1>4. CASE CheckCrop(v)
  <2>1. UNCHANGED <<event, samples, world, retentionOnly>>
    BY <1>4 DEF CheckCrop
  <2>2. reviews' \in ReviewsType
    BY <1>0, <1>3, <1>4 DEF CheckCrop, ReviewsType
  <2>3. Early' = Early
    BY <2>1 DEF Early
  <2> QED
    BY <1>0, <2>1, <2>2, <2>3 DEF ReviewerKeeps
<1>5. CASE CreateSample(v)
  <2>1. PICK r \in 0..MaxRevision : r = reviews[v].revision
    BY <1>0
  <2>2. UNCHANGED <<event, world, retentionOnly>> /\ samples' = Sampled(r, TRUE) /\ EndReview(v)
    BY <1>5, <2>1 DEF CreateSample
  <2>3. samples' \in SamplesType /\ \A q \in Revisions : samples'[q].status = "EXPORTED" => samples'[q] = samples[q]
    BY <1>0, <2>2, SampledFacts
  <2> QED
    BY <1>0, <1>3, <2>2, <2>3, LateIsNotEarly DEF ReviewerKeeps
<1>6. CASE ReviewBreaks(v)
  <2>1. UNCHANGED <<event, samples, retentionOnly>> /\ EndReview(v) /\ RetentionFault
    BY <1>6 DEF ReviewBreaks
  <2>2. Early' = Early
    BY <2>1 DEF Early
  <2> QED
    BY <1>0, <1>3, <2>1, <2>2, FaultTypes DEF ReviewerKeeps
<1> QED
  BY <1>1, <1>2, <1>4, <1>5, <1>6
------------------------------------------------------------------------------
(* An export moves samples among the states that pin, or releases those that *)
(* are in its artifact.                                                      *)
ExporterType == [pc : {"idle", "preparing", "marking", "resuming"}, batch : SUBSET Revisions]

ExporterKeeps(x) ==
    /\ UNCHANGED exportOnly
    /\ world' \in [transactions : BOOLEAN, crowded : SUBSET Scans, faults : 0..MaxRetentionFaults]
    /\ samples' \in SamplesType
    /\ artifacts' \in [Exports -> SUBSET Revisions] /\ exporters' \in [Exports -> ExporterType]
    /\ Early' \subseteq Early
    /\ \A y \in Exports \ {x} : artifacts'[y] = artifacts[y] /\ exporters'[y] = exporters[y]
    /\ artifacts[x] # {} => artifacts'[x] = artifacts[x]
    /\ exporters'[x].pc = "preparing" => artifacts'[x] = {}
    /\ exporters'[x].pc \in {"marking", "resuming"} => exporters'[x].batch \subseteq artifacts'[x]
    /\ \A r \in Revisions : samples'[r].status = "EXPORTED" =>
          (samples'[r] = samples[r]) \/ (samples'[r].export = x /\ r \in artifacts[x])

LEMMA ExporterKeepsInv ==
    ASSUME RetentionInv, NEW x \in Exports, ExporterKeeps(x)
    PROVE  RetentionInv'
<1>0. UNCHANGED <<event, objects, passes, reviews>>
  BY DEF ExporterKeeps, exportOnly
<1>1. RetentionTypeOK'
  BY <1>0 DEF RetentionInv, RetentionTypeOK, ExporterKeeps, SamplesType, Sample, ExporterType
<1>2. MediaIsConsistent' /\ PassesAreRight'
  BY <1>0 DEF RetentionInv, MediaIsConsistent, PassesAreRight
<1>3. PinsAreSeen'
  BY <1>0 DEF ExporterKeeps, RetentionInv, PinsAreSeen
<1>4. ExportsAreWhole'
  <2>1. ASSUME NEW y \in Exports
        PROVE  /\ exporters'[y].pc = "preparing" => artifacts'[y] = {}
               /\ exporters'[y].pc \in {"marking", "resuming"} => exporters'[y].batch \subseteq artifacts'[y]
    BY DEF ExporterKeeps, RetentionInv, ExportsAreWhole
  <2>2. \A y \in Exports : artifacts[y] \subseteq artifacts'[y]
    BY DEF ExporterKeeps
  <2>3. ASSUME NEW r \in Revisions, samples'[r].status = "EXPORTED"
        PROVE  r \in artifacts'[samples'[r].export]
    <3>1. r \in artifacts[samples'[r].export]
      BY <2>3 DEF ExporterKeeps, RetentionInv, ExportsAreWhole, ExportedIsInArtifact
    <3>2. samples'[r].export \in Exports
      BY <2>3 DEF ExporterKeeps, RetentionInv, ExportsAreWhole
    <3> QED
      BY <2>2, <3>1, <3>2
  <2>4. ASSUME NEW r \in Revisions, samples'[r].status = "EXPORTED"
        PROVE  samples'[r].export \in Exports
    BY <2>4 DEF ExporterKeeps, RetentionInv, ExportsAreWhole
  <2> QED
    BY <2>1, <2>3, <2>4 DEF ExportsAreWhole, ExportedIsInArtifact
<1> QED
  BY <1>1, <1>2, <1>3, <1>4 DEF RetentionInv

LEMMA EndExportFacts ==
    ASSUME RetentionTypeOK, NEW x \in Exports, NEW e \in ExporterType,
           exporters' = [exporters EXCEPT ![x] = e]
    PROVE  /\ exporters' \in [Exports -> ExporterType] /\ exporters'[x] = e
           /\ \A y \in Exports \ {x} : exporters'[y] = exporters[y]
BY DEF RetentionTypeOK, ExporterType

LEMMA AbandonedFacts ==
    ASSUME RetentionTypeOK, NEW x \in Exports, samples' = Abandoned(x)
    PROVE  /\ samples' \in SamplesType
           /\ Early' \subseteq Early
           /\ \A r \in Revisions : samples'[r].status = "EXPORTED" => samples'[r] = samples[r]
<1>1. samples \in SamplesType /\ \A r \in Revisions : samples[r] \in Sample
  BY DEF RetentionTypeOK, SamplesType, Sample
<1>2. ASSUME NEW r \in Revisions
      PROVE  /\ samples'[r] \in Sample
             /\ samples'[r] # samples[r] => /\ samples[r].status = "EXPORTING"
                                            /\ samples'[r].status = "EXPORT_FAILED"
             /\ samples'[r].late = samples[r].late
  <2>1. samples'[r] \in {samples[r], [samples[r] EXCEPT !.status = "EXPORT_FAILED"]}
        /\ (samples'[r] # samples[r] => samples[r].status = "EXPORTING")
    BY DEF Abandoned
  <2>2. /\ [samples[r] EXCEPT !.status = "EXPORT_FAILED"] \in Sample
        /\ [samples[r] EXCEPT !.status = "EXPORT_FAILED"].status = "EXPORT_FAILED"
        /\ [samples[r] EXCEPT !.status = "EXPORT_FAILED"].late = samples[r].late
    BY <1>1 DEF Sample, SampleStates
  <2> QED
    BY <1>1, <2>1, <2>2
<1>3. samples' \in SamplesType
  <2>1. samples' = [r \in Revisions |-> samples'[r]]
    BY DEF Abandoned
  <2> QED
    BY <1>2, <2>1 DEF SamplesType
<1>4. Early' \subseteq Early
  BY <1>2 DEF Early, Pinning
<1> QED
  BY <1>2, <1>3, <1>4

LEMMA ExporterSteps ==
    ASSUME RetentionInv, NEW x \in Exports,
           \/ ClaimSamples(x) \/ Install(x) \/ CannotPrepare(x) \/ Resume(x)
           \/ MarkExported(x) \/ MarkBreaks(x) \/ ExportDies(x)
    PROVE  ExporterKeeps(x)
<1>0. /\ RetentionTypeOK /\ samples \in SamplesType /\ \A r \in Revisions : samples[r] \in Sample
      /\ artifacts \in [Exports -> SUBSET Revisions] /\ exporters[x] \in ExporterType
      /\ world \in [transactions : BOOLEAN, crowded : SUBSET Scans, faults : 0..MaxRetentionFaults]
  BY DEF RetentionInv, RetentionTypeOK, SamplesType, Sample, ExporterType
<1> DEFINE ended == [pc |-> "idle", batch |-> {}]
<1>1. ended \in ExporterType /\ ended.pc = "idle"
  BY DEF ExporterType
<1>2. UNCHANGED samples => Early' = Early
  BY DEF Early
<1>3. CASE ClaimSamples(x)
  <2>1. PICK taken \in SUBSET Revisions :
           /\ \A r \in taken : samples[r].status \in Pinning
           /\ samples' = [r \in Revisions |->
                            IF r \in taken
                            THEN [samples[r] EXCEPT !.status = "EXPORTING", !.export = x]
                            ELSE samples[r]]
           /\ exporters' = [exporters EXCEPT ![x] = [pc |-> "preparing", batch |-> taken]]
    BY <1>3 DEF ClaimSamples
  <2>2. UNCHANGED <<artifacts, world, exportOnly>> /\ artifacts[x] = {}
    BY <1>3 DEF ClaimSamples
  <2>3. ASSUME NEW r \in Revisions
        PROVE  /\ samples'[r] \in Sample
               /\ samples'[r] # samples[r] => /\ samples[r].status \in Pinning
                                              /\ samples'[r].status = "EXPORTING"
               /\ samples'[r].late = samples[r].late
    <3>1. /\ [samples[r] EXCEPT !.status = "EXPORTING", !.export = x] \in Sample
          /\ [samples[r] EXCEPT !.status = "EXPORTING", !.export = x].status = "EXPORTING"
          /\ [samples[r] EXCEPT !.status = "EXPORTING", !.export = x].late = samples[r].late
      BY <1>0 DEF Sample, SampleStates
    <3> QED
      BY <1>0, <2>1, <3>1
  <2>4. samples' \in SamplesType /\ Early' \subseteq Early
        /\ \A r \in Revisions : samples'[r].status = "EXPORTED" => samples'[r] = samples[r]
    <3>1. samples' = [r \in Revisions |-> samples'[r]]
      BY <2>1
    <3> QED
      BY <2>3, <3>1 DEF SamplesType, Early
  <2>5. [pc |-> "preparing", batch |-> taken] \in ExporterType
    BY DEF ExporterType
  <2> QED
    BY <1>0, <2>1, <2>2, <2>4, <2>5, EndExportFacts DEF ExporterKeeps
<1>4. CASE Install(x)
  <2> DEFINE e == [exporters[x] EXCEPT !.pc = "marking"]
  <2>1. /\ exporters[x].pc = "preparing" /\ UNCHANGED <<samples, world, exportOnly>>
        /\ artifacts' = [artifacts EXCEPT ![x] = exporters[x].batch]
        /\ exporters' = [exporters EXCEPT ![x] = e]
    BY <1>4 DEF Install
  <2>2. e \in ExporterType /\ e.pc = "marking" /\ e.batch = exporters[x].batch
        /\ exporters[x].batch \subseteq Revisions
    BY <1>0 DEF ExporterType
  <2>3. artifacts[x] = {}
    BY <2>1 DEF RetentionInv, ExportsAreWhole
  <2> HIDE DEF e
  <2>4. exporters' \in [Exports -> ExporterType] /\ exporters'[x] = e
        /\ \A y \in Exports \ {x} : exporters'[y] = exporters[y]
    BY <1>0, <2>1, <2>2, EndExportFacts
  <2>5. artifacts' \in [Exports -> SUBSET Revisions] /\ artifacts'[x] = exporters[x].batch
        /\ \A y \in Exports \ {x} : artifacts'[y] = artifacts[y]
    BY <1>0, <2>1, <2>2
  <2> QED
    BY <1>0, <1>2, <2>1, <2>2, <2>3, <2>4, <2>5 DEF ExporterKeeps
<1>5. CASE CannotPrepare(x) \/ MarkBreaks(x)
  <2>1. /\ samples' = Abandoned(x) /\ exporters' = [exporters EXCEPT ![x] = ended]
        /\ UNCHANGED <<artifacts, exportOnly>> /\ (UNCHANGED world \/ RetentionFault)
    BY <1>5 DEF CannotPrepare, MarkBreaks, EndExport
  <2>2. world' \in [transactions : BOOLEAN, crowded : SUBSET Scans, faults : 0..MaxRetentionFaults]
    BY <1>0, <2>1, FaultTypes
  <2> HIDE DEF ended
  <2> QED
    BY <1>0, <1>1, <2>1, <2>2, EndExportFacts, AbandonedFacts DEF ExporterKeeps
<1>6. CASE Resume(x)
  <2> DEFINE e == [pc |-> "resuming", batch |-> artifacts[x]]
  <2>1. exporters' = [exporters EXCEPT ![x] = e] /\ UNCHANGED <<samples, artifacts, world, exportOnly>>
    BY <1>6 DEF Resume
  <2>2. e \in ExporterType /\ e.pc = "resuming" /\ e.batch = artifacts[x]
    BY <1>0 DEF ExporterType
  <2> HIDE DEF e
  <2> QED
    BY <1>0, <1>2, <2>1, <2>2, EndExportFacts DEF ExporterKeeps
<1>7. CASE MarkExported(x)
  <2>1. /\ samples' = [r \in Revisions |-> IF r \in exporters[x].batch /\ Markable(r, x)
                                           THEN [samples[r] EXCEPT !.status = "EXPORTED"]
                                           ELSE samples[r]]
        /\ exporters' = [exporters EXCEPT ![x] = ended]
        /\ UNCHANGED <<artifacts, world, exportOnly>>
        /\ exporters[x].pc \in {"marking", "resuming"}
    BY <1>7 DEF MarkExported, EndExport
  <2>2. ASSUME NEW r \in Revisions
        PROVE  /\ samples'[r] \in Sample /\ samples'[r].late = samples[r].late
               /\ samples'[r] # samples[r] => /\ samples'[r].status = "EXPORTED"
                                              /\ r \in exporters[x].batch
                                              /\ samples'[r].export = x
    <3>1. /\ [samples[r] EXCEPT !.status = "EXPORTED"] \in Sample
          /\ [samples[r] EXCEPT !.status = "EXPORTED"].status = "EXPORTED"
          /\ [samples[r] EXCEPT !.status = "EXPORTED"].late = samples[r].late
          /\ [samples[r] EXCEPT !.status = "EXPORTED"].export = samples[r].export
      BY <1>0 DEF Sample, SampleStates
    <3> QED
      BY <1>0, <2>1, <3>1 DEF Markable
  <2>3. samples' \in SamplesType /\ Early' \subseteq Early
    <3>1. samples' = [r \in Revisions |-> samples'[r]]
      BY <2>1
    <3> QED
      BY <2>2, <3>1 DEF SamplesType, Early, Pinning
  <2>4. exporters[x].batch \subseteq artifacts[x]
    BY <2>1 DEF RetentionInv, ExportsAreWhole
  <2>5. \A r \in Revisions : samples'[r].status = "EXPORTED" =>
          (samples'[r] = samples[r]) \/ (samples'[r].export = x /\ r \in artifacts[x])
    BY <2>2, <2>4
  <2> HIDE DEF ended
  <2> QED
    BY <1>0, <1>1, <2>1, <2>3, <2>5, EndExportFacts DEF ExporterKeeps
<1>8. CASE ExportDies(x)
  <2>1. /\ exporters' = [exporters EXCEPT ![x] = ended] /\ RetentionFault
        /\ UNCHANGED <<samples, artifacts, exportOnly>>
    BY <1>8 DEF ExportDies, EndExport
  <2> HIDE DEF ended
  <2> QED
    BY <1>0, <1>1, <1>2, <2>1, EndExportFacts, FaultTypes DEF ExporterKeeps
<1> QED
  BY <1>3, <1>4, <1>5, <1>6, <1>7, <1>8
------------------------------------------------------------------------------
LEMMA TimeKeepsInv ==
    ASSUME RetentionInv, Time
    PROVE  RetentionInv'
<1>0. RetentionTypeOK /\ UNCHANGED <<objects, samples, artifacts, passes, reviews, exporters>>
  BY DEF Time, RetentionInv
<1> DEFINE same == /\ event' \in Document /\ event'.there = event.there
                   /\ \A k \in Kinds : /\ event'.media[k].key = event.media[k].key
                                       /\ event'.media[k].state = event.media[k].state
<1>1. same
  <2>0. event \in Document /\ event.media \in [Kinds -> Media]
    BY <1>0 DEF RetentionTypeOK, Document, Media
  <2>1. CASE event' = [event EXCEPT !.age = event.age + 1] /\ event.age < 2
    <3>1. event.age + 1 \in 0..2
      BY <2>0, <2>1 DEF Document
    <3> QED
      BY <2>0, <2>1, <3>1 DEF Document
  <2>2. ASSUME NEW k \in Kinds, event' = [event EXCEPT !.media[k].stale = TRUE]
        PROVE  same
    <3> DEFINE m == [event.media[k] EXCEPT !.stale = TRUE]
    <3>1. SetMedia(k, m)
      BY <2>2 DEF SetMedia
    <3>2. m \in Media /\ m.key = event.media[k].key /\ m.state = event.media[k].state
      BY <2>0 DEF Media
    <3> HIDE DEF m
    <3> QED
      BY <1>0, <3>1, <3>2, SetMediaFacts
  <2> QED
    BY <2>1, <2>2 DEF Time, GetsOlder
<1>2. world' \in [transactions : BOOLEAN, crowded : SUBSET Scans, faults : 0..MaxRetentionFaults]
  BY <1>0, FaultTypes DEF Time, GetsOlder, RetentionTypeOK
<1>3. RetentionTypeOK'
  BY <1>0, <1>1, <1>2 DEF RetentionTypeOK
<1>4. MediaIsConsistent' /\ PassesAreRight'
  BY <1>0, <1>1 DEF RetentionInv, MediaIsConsistent, PassesAreRight
<1>5. PinsAreSeen' /\ ExportsAreWhole'
  BY <1>0, <1>1 DEF RetentionInv, PinsAreSeen, Early, ExportsAreWhole, ExportedIsInArtifact
<1> QED
  BY <1>3, <1>4, <1>5 DEF RetentionInv

LEMMA CrowdKeepsInv ==
    ASSUME RetentionInv, OthersCrowd
    PROVE  RetentionInv'
<1>0. /\ RetentionTypeOK
      /\ world \in [transactions : BOOLEAN, crowded : SUBSET Scans, faults : 0..MaxRetentionFaults]
      /\ UNCHANGED <<event, objects, passes, samples, artifacts, reviews, exporters>>
  BY DEF RetentionInv, RetentionTypeOK, OthersCrowd, others
<1>1. PICK scan \in Scans : world' = [world EXCEPT !.crowded = (@ \ {scan}) \cup ({scan} \ @)]
  BY DEF OthersCrowd
<1>2. world' \in [transactions : BOOLEAN, crowded : SUBSET Scans, faults : 0..MaxRetentionFaults]
  BY <1>0, <1>1
<1>3. RetentionTypeOK'
  BY <1>0, <1>2 DEF RetentionTypeOK
<1>4. MediaIsConsistent' /\ PassesAreRight'
  BY <1>0 DEF RetentionInv, MediaIsConsistent, PassesAreRight
<1>5. PinsAreSeen' /\ ExportsAreWhole'
  BY <1>0 DEF RetentionInv, PinsAreSeen, Early, ExportsAreWhole, ExportedIsInArtifact
<1> QED
  BY <1>3, <1>4, <1>5 DEF RetentionInv

LEMMA RetentionInductive == RetentionInv /\ [RetentionNext]_retentionVars => RetentionInv'
<1> SUFFICES ASSUME RetentionInv, [RetentionNext]_retentionVars PROVE RetentionInv'
  OBVIOUS
<1>1. CASE UNCHANGED retentionVars
  BY <1>1 DEF retentionVars, RetentionInv, RetentionTypeOK, MediaIsConsistent, PassesAreRight,
     PinsAreSeen, Early, ExportsAreWhole, ExportedIsInArtifact
<1> QED
  BY <1>1, WorkerSteps, WorkerKeepsInv, ReviewerSteps, ReviewerKeepsInv, ExporterSteps,
     ExporterKeepsInv, TimeKeepsInv, CrowdKeepsInv DEF RetentionNext

LEMMA RetentionInvHolds == RetentionSpec => []RetentionInv
BY RetentionInitially, RetentionInductive, PTL DEF RetentionSpec
------------------------------------------------------------------------------
(* Every variable keeps its type.                                            *)
THEOREM RetentionTypeCorrect == RetentionSpec => []RetentionTypeOK
<1>1. RetentionInv => RetentionTypeOK
  BY DEF RetentionInv
<1> QED
  BY <1>1, RetentionInvHolds, PTL

(* An event that is gone leaves no object.                                   *)
THEOREM NoObjectIsOrphaned == RetentionSpec => []NoOrphanObjects
<1>1. RetentionInv => NoOrphanObjects
  BY DEF RetentionInv, PinsAreSeen, NoOrphanObjects
<1> QED
  BY <1>1, RetentionInvHolds, PTL

(* A sample created with its review keeps its event.                         *)
THEOREM PinnedEventIsKept == RetentionSpec => []PinnedEventStays
<1>1. RetentionInv => PinnedEventStays
  BY DEF RetentionInv, PinsAreSeen, Early, PinnedEventStays
<1> QED
  BY <1>1, RetentionInvHolds, PTL

(* An exported sample is in the artifact it names.                           *)
THEOREM ExportedIsInstalled == RetentionSpec => []ExportedIsInArtifact
<1>1. RetentionInv => ExportedIsInArtifact
  BY DEF RetentionInv, ExportsAreWhole
<1> QED
  BY <1>1, RetentionInvHolds, PTL
------------------------------------------------------------------------------
(* The rule cache: since when a rule it gives can be out of force.          *)

(* Version v is in force, or was until t at least. *)
InForce(v, t) == v \in 1..Current /\ (v = Current \/ replaced[v] >= t)

CacheIsRecent ==
    /\ cached.expires <= seconds + Ttl
    /\ cached.version # 0 => InForce(cached.version, cached.expires - Ttl)

JudgeIsRecent(j) ==
    /\ judges[j].asked <= seconds /\ judges[j].read <= seconds
    /\ judges[j].pc \in {"listing", "loaded"} => judges[j].asked <= judges[j].read
    /\ judges[j].pc = "loaded" => InForce(judges[j].version, judges[j].read)
    /\ judges[j].pc = "judging" => InForce(judges[j].version, judges[j].asked - Ttl + 1)

IInv == PolicyTypeOK /\ CacheIsRecent /\ \A j \in Judges : JudgeIsRecent(j)
------------------------------------------------------------------------------
USE PolicyAssumption

LEMMA InitEstablishes == PolicyInit => IInv
BY DEF PolicyInit, IInv, PolicyTypeOK, JudgeState, CacheIsRecent, JudgeIsRecent, InForce,
   NotJudged, Free

(* What was in force at t, a time that has come, still was after an edit.   *)
LEMMA EditKeepsInForce ==
    ASSUME IInv, EditRules, NEW v, NEW t \in Int, t <= seconds, InForce(v, t)
    PROVE  InForce(v, t)'
<1>1. /\ replaced \in Seq(0..MaxTime) /\ seconds \in 0..MaxTime
      /\ replaced' = Append(replaced, seconds)
  BY DEF IInv, PolicyTypeOK, EditRules
<1>2. /\ Len(replaced') = Len(replaced) + 1
      /\ \A i \in 1..Len(replaced) : replaced'[i] = replaced[i]
      /\ replaced'[Len(replaced) + 1] = seconds
  BY <1>1
<1> QED
  BY <1>1, <1>2 DEF InForce, Current

(* The rules in a cache that has not expired were in force lately.          *)
LEMMA HitIsRecent ==
    ASSUME IInv, CacheHit, NEW t \in Int, t <= seconds
    PROVE  cached.version \in 1..MaxEdits + 1 /\ InForce(cached.version, t - Ttl + 1)
<1>1. /\ cached.expires \in Int /\ cached.version \in 0..MaxEdits + 1
      /\ seconds \in Int /\ replaced \in Seq(0..MaxTime)
  BY DEF IInv, PolicyTypeOK
<1>2. InForce(cached.version, cached.expires - Ttl) /\ seconds < cached.expires
  BY DEF CacheHit, IInv, CacheIsRecent
<1>3. cached.version = Current \/ replaced[cached.version] \in Int
  BY <1>1, <1>2 DEF InForce, Current
<1>4. cached.version \in 1..Current /\ Current \in Nat /\ Current <= MaxEdits + 1
  BY <1>2 DEF InForce, Current, IInv, PolicyTypeOK
<1>5. cached.version = Current \/ replaced[cached.version] >= cached.expires - Ttl
  BY <1>2 DEF InForce
<1>6. cached.expires - Ttl >= t - Ttl + 1
  BY <1>1, <1>2
<1>7. cached.version = Current \/ replaced[cached.version] >= t - Ttl + 1
  BY <1>1, <1>3, <1>5, <1>6
<1> QED
  BY <1>4, <1>7 DEF InForce

(* What a step of one event leaves in its record.                           *)
LEMMA JudgeStep ==
    ASSUME IInv, NEW j \in Judges,
           \/ AskRules(j) \/ LockRules(j) \/ ListRules(j) \/ KeepRules(j)
           \/ LoadFails(j) \/ Judged(j)
    PROVE  judges' \in [Judges -> JudgeState]
<1>0. /\ judges \in [Judges -> JudgeState] /\ judges[j] \in JudgeState
      /\ seconds \in 0..MaxTime /\ cached.version \in 0..MaxEdits + 1
      /\ Current \in 0..MaxEdits + 1
  BY DEF IInv, PolicyTypeOK, Current
<1>1. PICK r : judges' = [judges EXCEPT ![j] = r] /\ r \in JudgeState
  <2>1. NotJudged \in JudgeState
    BY DEF NotJudged, JudgeState
  <2>2. /\ [judges[j] EXCEPT !.pc = "locking", !.asked = seconds] \in JudgeState
        /\ [judges[j] EXCEPT !.pc = "listing", !.read = seconds] \in JudgeState
        /\ [judges[j] EXCEPT !.pc = "loaded", !.version = Current] \in JudgeState
    BY <1>0 DEF JudgeState
  <2>3. ASSUME NEW v \in 0..MaxEdits + 1, NEW t \in 0..MaxTime
        PROVE  [pc |-> "judging", version |-> v, asked |-> t, read |-> 0] \in JudgeState
    BY DEF JudgeState
  <2>4. judges[j].version \in 0..MaxEdits + 1 /\ judges[j].asked \in 0..MaxTime
    BY <1>0 DEF JudgeState
  <2>5. CASE AskRules(j) \/ LockRules(j)
    BY <1>0, <2>2, <2>3, <2>4, <2>5 DEF AskRules, LockRules, Judging
  <2>6. CASE ListRules(j)
    BY <2>2, <2>6 DEF ListRules
  <2>7. CASE KeepRules(j)
    BY <2>3, <2>4, <2>7 DEF KeepRules, Judging
  <2>8. CASE LoadFails(j) \/ Judged(j)
    BY <2>1, <2>8 DEF LoadFails, Judged
  <2> QED
    BY <2>5, <2>6, <2>7, <2>8
<1> QED
  BY <1>0, <1>1

LEMMA TypeStep == IInv /\ [PolicyNext]_policyVars => PolicyTypeOK'
<1> SUFFICES ASSUME IInv, [PolicyNext]_policyVars PROVE PolicyTypeOK'
  OBVIOUS
<1>0. PolicyTypeOK
  BY DEF IInv
<1>1. CASE Second
  BY <1>0, <1>1 DEF Second, PolicyTypeOK
<1>2. CASE EditRules
  BY <1>0, <1>2 DEF EditRules, PolicyTypeOK
<1>3. ASSUME NEW j \in Judges,
             \/ AskRules(j) \/ LockRules(j) \/ ListRules(j) \/ KeepRules(j)
             \/ LoadFails(j) \/ Judged(j)
      PROVE  PolicyTypeOK'
  <2>1. judges[j].version \in 0..MaxEdits + 1 /\ judges[j].read \in 0..MaxTime
    BY <1>0 DEF PolicyTypeOK, JudgeState
  <2>2. cached' \in [version : 0..MaxEdits + 1, expires : 0..MaxTime + Ttl]
    <3>1. CASE KeepRules(j)
      <4>1. Expiry(j) \in 0..MaxTime + Ttl
        BY <2>1 DEF Expiry
      <4> QED
        BY <2>1, <3>1, <4>1 DEF KeepRules
    <3>2. CASE ~KeepRules(j)
      BY <1>0, <1>3, <3>2 DEF PolicyTypeOK, AskRules, LockRules, ListRules, LoadFails, Judged
    <3> QED
      BY <3>1, <3>2
  <2>3. rulesLock' \in Judges \cup {Free} /\ UNCHANGED <<seconds, replaced>>
    BY <1>0, <1>3 DEF PolicyTypeOK, AskRules, LockRules, ListRules, KeepRules, LoadFails, Judged
  <2>4. judges' \in [Judges -> JudgeState]
    BY <1>0, <1>3, JudgeStep
  <2> QED
    BY <1>0, <2>2, <2>3, <2>4 DEF PolicyTypeOK
<1>4. CASE UNCHANGED policyVars
  BY <1>0, <1>4 DEF policyVars, PolicyTypeOK
<1> QED
  BY <1>1, <1>2, <1>3, <1>4 DEF PolicyNext

LEMMA RecencyStep ==
    ASSUME IInv, [PolicyNext]_policyVars
    PROVE  CacheIsRecent' /\ \A j \in Judges : JudgeIsRecent(j)'
<1>0. /\ seconds \in Int /\ cached.expires \in Int
      /\ \A j \in Judges : judges[j].asked \in Int /\ judges[j].read \in Int
      /\ CacheIsRecent /\ \A j \in Judges : JudgeIsRecent(j)
  BY DEF IInv, PolicyTypeOK, JudgeState
<1>1. CASE Second
  BY <1>0, <1>1 DEF Second, CacheIsRecent, JudgeIsRecent, InForce, Current
<1>2. CASE EditRules
  <2>1. CacheIsRecent'
    <3>1. cached.expires - Ttl \in Int /\ cached.expires - Ttl <= seconds
      BY <1>0 DEF CacheIsRecent
    <3> QED
      BY <1>0, <1>2, <3>1, EditKeepsInForce DEF CacheIsRecent, EditRules, InForce
  <2>2. ASSUME NEW j \in Judges PROVE JudgeIsRecent(j)'
    <3>1. /\ judges[j].asked - Ttl + 1 \in Int /\ judges[j].asked - Ttl + 1 <= seconds
          /\ judges[j].read \in Int /\ judges[j].read <= seconds
      BY <1>0 DEF JudgeIsRecent
    <3> QED
      BY <1>0, <1>2, <3>1, EditKeepsInForce DEF JudgeIsRecent, EditRules, InForce
  <2> QED
    BY <2>1, <2>2
<1>3. ASSUME NEW k \in Judges, UNCHANGED <<seconds, replaced, cached>>,
             \A j \in Judges \ {k} : judges'[j] = judges[j],
             JudgeIsRecent(k)'
      PROVE  CacheIsRecent' /\ \A j \in Judges : JudgeIsRecent(j)'
  BY <1>0, <1>3 DEF CacheIsRecent, JudgeIsRecent, InForce, Current
<1>4. ASSUME NEW k \in Judges, AskRules(k) \/ LockRules(k)
      PROVE  CacheIsRecent' /\ \A j \in Judges : JudgeIsRecent(j)'
  <2>1. /\ UNCHANGED <<seconds, replaced, cached>>
        /\ \A j \in Judges \ {k} : judges'[j] = judges[j]
    BY <1>4 DEF AskRules, LockRules, Judging, IInv, PolicyTypeOK, JudgeState
  <2>2. CASE CacheHit
    <3>1. PICK asked \in {seconds, judges[k].asked} : Judging(k, cached.version, asked)
      BY <1>4, <2>2 DEF AskRules, LockRules
    <3>2. asked \in Int /\ asked <= seconds
      BY <1>0, <3>1 DEF JudgeIsRecent
    <3>3. InForce(cached.version, asked - Ttl + 1)
      BY <2>2, <3>2, HitIsRecent
    <3>4. judges'[k] = [pc |-> "judging", version |-> cached.version, asked |-> asked, read |-> 0]
      BY <3>1 DEF Judging, IInv, PolicyTypeOK, JudgeState
    <3>5. 0 <= seconds
      BY DEF IInv, PolicyTypeOK, JudgeState
    <3>6. JudgeIsRecent(k)'
      BY <2>1, <3>2, <3>3, <3>4, <3>5 DEF JudgeIsRecent, InForce, Current
    <3> QED
      BY <1>3, <2>1, <3>6
  <2>3. CASE ~CacheHit
    <3>1. \/ judges' = [judges EXCEPT ![k].pc = "locking", ![k].asked = seconds]
          \/ judges' = [judges EXCEPT ![k].pc = "listing", ![k].read = seconds]
      BY <1>4, <2>3 DEF AskRules, LockRules
    <3>2. /\ judges'[k].pc \in {"locking", "listing"}
          /\ judges'[k].asked \in {seconds, judges[k].asked}
          /\ judges'[k].read \in {seconds, judges[k].read}
          /\ judges'[k].pc = "listing" => judges'[k].read = seconds
      BY <3>1 DEF IInv, PolicyTypeOK, JudgeState
    <3>3. JudgeIsRecent(k)'
      BY <1>0, <2>1, <3>2 DEF JudgeIsRecent
    <3> QED
      BY <1>3, <2>1, <3>3
  <2> QED
    BY <2>2, <2>3
<1>5. ASSUME NEW k \in Judges, ListRules(k)
      PROVE  CacheIsRecent' /\ \A j \in Judges : JudgeIsRecent(j)'
  <2>1. Current \in 1..Current
    BY DEF IInv, PolicyTypeOK, JudgeState, Current
  <2>2. JudgeIsRecent(k)'
    BY <1>0, <1>5, <2>1 DEF ListRules, JudgeIsRecent, InForce, Current, IInv, PolicyTypeOK, JudgeState
  <2> QED
    BY <1>3, <1>5, <2>2 DEF ListRules, IInv, PolicyTypeOK, JudgeState
<1>6. ASSUME NEW k \in Judges, KeepRules(k)
      PROVE  CacheIsRecent' /\ \A j \in Judges : JudgeIsRecent(j)'
  <2>0. PICK v, read, asked :
             v = judges[k].version /\ read = judges[k].read /\ asked = judges[k].asked
    OBVIOUS
  <2>1. /\ v \in 0..MaxEdits + 1 /\ read \in Int /\ asked \in Int /\ 0 <= seconds
        /\ InForce(v, read) /\ asked <= read /\ read <= seconds
    BY <1>0, <1>6, <2>0 DEF KeepRules, JudgeIsRecent, IInv, PolicyTypeOK, JudgeState
  <2>2. v = Current \/ replaced[v] \in Int
    BY <2>1 DEF InForce, Current, IInv, PolicyTypeOK, JudgeState
  <2>3. InForce(v, asked - Ttl + 1)
    BY <2>1, <2>2 DEF InForce
  <2>4. /\ UNCHANGED <<seconds, replaced>>
        /\ cached' = [version |-> v, expires |-> read + Ttl]
        /\ judges'[k] = [pc |-> "judging", version |-> v, asked |-> asked, read |-> 0]
        /\ \A j \in Judges \ {k} : judges'[j] = judges[j]
    BY <1>6, <2>0 DEF KeepRules, Expiry, Judging, IInv, PolicyTypeOK, JudgeState
  <2>5. CacheIsRecent'
    <3>1. InForce(v, read)' = InForce(v, read)
      BY <2>4 DEF InForce, Current
    <3>2. cached'.version = v /\ cached'.expires = read + Ttl /\ cached'.expires - Ttl = read
      BY <2>1, <2>4
    <3>3. cached'.expires <= seconds' + Ttl
      BY <1>0, <2>1, <2>4, <3>2
    <3>4. InForce(cached.version, cached.expires - Ttl)' = InForce(v, read)'
      BY <3>2 DEF InForce, Current
    <3> QED
      BY <2>1, <3>1, <3>3, <3>4 DEF CacheIsRecent
  <2>6. JudgeIsRecent(k)'
    <3>1. InForce(v, asked - Ttl + 1)' = InForce(v, asked - Ttl + 1)
      BY <2>4 DEF InForce, Current
    <3>2. judges'[k].version = v /\ judges'[k].asked = asked /\ judges'[k].pc = "judging"
          /\ judges'[k].read = 0
      BY <2>4
    <3> QED
      BY <1>0, <2>1, <2>3, <2>4, <3>1, <3>2 DEF JudgeIsRecent, InForce, Current
  <2> QED
    BY <1>0, <2>4, <2>5, <2>6 DEF JudgeIsRecent, InForce, Current
<1>7. ASSUME NEW k \in Judges, LoadFails(k) \/ Judged(k)
      PROVE  CacheIsRecent' /\ \A j \in Judges : JudgeIsRecent(j)'
  <2>1. /\ UNCHANGED <<seconds, replaced, cached>>
        /\ judges'[k] = NotJudged
        /\ \A j \in Judges \ {k} : judges'[j] = judges[j]
    BY <1>7 DEF LoadFails, Judged, IInv, PolicyTypeOK, JudgeState
  <2>2. JudgeIsRecent(k)'
    BY <2>1 DEF JudgeIsRecent, NotJudged, IInv, PolicyTypeOK, JudgeState
  <2> QED
    BY <1>3, <2>1, <2>2
<1>8. CASE UNCHANGED policyVars
  BY <1>0, <1>8 DEF policyVars, CacheIsRecent, JudgeIsRecent, InForce, Current
<1> QED
  BY <1>1, <1>2, <1>4, <1>5, <1>6, <1>7, <1>8 DEF PolicyNext

LEMMA Inductive == PolicySpec => []IInv
<1>1. IInv /\ [PolicyNext]_policyVars => IInv'
  BY TypeStep, RecencyStep DEF IInv
<1> QED
  BY <1>1, InitEstablishes, PTL DEF PolicySpec
------------------------------------------------------------------------------
(* Every event is judged by rules that are in force, or were less than Ttl  *)
(* before it asked, for any number of events judged at the same time        *)
(* (VehicleEventPolicyProcessor._active_rules).                             *)
THEOREM RulesStayFresh == PolicySpec => []RulesAreFresh
<1>1. IInv => RulesAreFresh
  <2> SUFFICES ASSUME IInv, NEW j \in Judges, judges[j].pc = "judging",
                      judges[j].version # Current
               PROVE  replaced[judges[j].version] + Ttl > judges[j].asked
    BY DEF RulesAreFresh
  <2>1. judges[j].version \in 1..Len(replaced)
    BY DEF IInv, JudgeIsRecent, InForce, Current, PolicyTypeOK
  <2>2. replaced[judges[j].version] \in Int /\ judges[j].asked \in Int
    <3>1. replaced \in Seq(0..MaxTime) /\ judges[j] \in JudgeState /\ MaxTime \in Int
      BY DEF IInv, PolicyTypeOK
    <3>2. replaced[judges[j].version] \in 0..MaxTime
      BY <2>1, <3>1
    <3>3. judges[j].asked \in 0..MaxTime
      BY <3>1 DEF JudgeState
    <3> QED
      BY <3>2, <3>3
  <2>3. /\ judges[j] \in JudgeState /\ judges[j].pc = "judging"
        /\ JudgeIsRecent(j)
    BY DEF IInv, PolicyTypeOK
  <2> QED
    BY <2>2, <2>3 DEF JudgeIsRecent, InForce
<1> QED
  BY <1>1, Inductive, PTL
===============================================================================
