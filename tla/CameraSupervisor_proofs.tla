----------------------- MODULE CameraSupervisor_proofs -----------------------
(***************************************************************************)
(* Theorems of CameraSupervisor, for any number of cameras, any capacity   *)
(* and all times and backoffs.                                             *)
(***************************************************************************)
EXTENDS CameraSupervisor, TLAPS

(* What the argument needs of the types.  Revision 0 means: there is none.  *)
Shape ==
    /\ doc \in [Cameras -> [revision : Nat, edition : Nat, enabled : BOOLEAN]]
    /\ desired \in [Cameras -> [revision : Nat, edition : Nat, enabled : BOOLEAN]]
    /\ active \in [Cameras -> [revision : Nat, age : Int]]
    /\ workers \in [Cameras -> Seq(Nat)]
    /\ health \in [Cameras -> {"none", "CONNECTING", "ONLINE", "OFFLINE", "STOPPED"}]
    /\ todo \subseteq Cameras
    /\ writing \in [cams : SUBSET Cameras, status : {"none", "CONNECTING", "OFFLINE", "STOPPED"},
                    back : {"waiting", "checking", "starting"}, renew : BOOLEAN]
    /\ edits \in Nat
    /\ lag \in Int
    /\ \A c \in Cameras : /\ doc[c].revision = 0 => doc[c] = NoCamera
                          /\ desired[c].revision = 0 => desired[c] = NoCamera
                          /\ active[c].revision = 0 => active[c] = NoWorker

(* A live process is managed, or stop_all has still to stop it.             *)
Owned ==
    /\ OneProcess
    /\ \A c \in Cameras :
          Running(c) => \/ active[c] # NoWorker
                        \/ step \in {"stopping", "closing"} /\ c \in todo

(* What the loops know of the cameras they have still to come to.           *)
Places ==
    /\ (step = "starting" \/ (step = "writing" /\ writing.back = "starting")) =>
          \A c \in todo : desired[c] # NoCamera
    /\ step \in {"stopping", "closing"} =>
          /\ \A c \in Cameras : active[c] = NoWorker
          /\ writing.status # "OFFLINE"
          /\ \A c \in writing.cams : ~Running(c)
    /\ step = "waiting" => writing = NoWrite
    /\ step = "writing" => writing.back # "waiting"
    /\ step = "stopped" => writing.back = "checking" /\ \A c \in writing.cams : ~Running(c)
    /\ writing.status \in {"OFFLINE", "STOPPED"} => \A c \in writing.cams : ~Running(c)

(* Without the inference service there are no workers.                      *)
Dependent ==
    inference = "none" =>
        /\ step \in {"waiting", "closing", "down"}
        /\ \A c \in Cameras : ~Running(c)

IInv == Shape /\ Owned /\ Places /\ Dependent
------------------------------------------------------------------------------
LEMMA Initially == Init => IInv
<1> SUFFICES ASSUME Init PROVE IInv
  OBVIOUS
<1>1. Shape
  BY DEF Init, Shape, NoCamera, NoWorker, NoWrite
<1>2. Owned
  BY DEF Init, Owned, OneProcess, Running
<1>3. Places
  BY DEF Init, Places, NoWrite, Running
<1>4. Dependent
  BY DEF Init, Dependent, Running
<1> QED
  BY <1>1, <1>2, <1>3, <1>4 DEF IInv

LEMMA EditKeeps ==
    ASSUME IInv, NEW c \in Cameras,
           NEW d \in [revision : Nat, edition : Nat, enabled : BOOLEAN],
           d.revision = 0 => d = NoCamera,
           Edit(c, d),
           health' \in [Cameras -> {"none", "CONNECTING", "ONLINE", "OFFLINE", "STOPPED"}]
    PROVE  IInv'
<1>1. /\ doc' = [doc EXCEPT ![c] = d]
      /\ edits' = edits + 1
      /\ UNCHANGED <<desired, active, workers, todo, writing, lag, step, inference>>
  BY DEF Edit, books, place
<1>2. Shape'
  <2>1. /\ doc' \in [Cameras -> [revision : Nat, edition : Nat, enabled : BOOLEAN]]
        /\ \A e \in Cameras : doc'[e].revision = 0 => doc'[e] = NoCamera
    BY <1>1 DEF IInv, Shape
  <2>2. edits' \in Nat
    BY <1>1 DEF IInv, Shape
  <2> QED
    BY <1>1, <2>1, <2>2 DEF IInv, Shape
<1>3. Owned' /\ Places' /\ Dependent'
  BY <1>1 DEF IInv, Owned, OneProcess, Places, Dependent, Running
<1> QED
  BY <1>2, <1>3 DEF IInv

LEMMA CreateKeeps ==
    ASSUME IInv, NEW c \in Cameras, Create(c)
    PROVE  IInv'
<1> DEFINE d(on) == [revision |-> 1, edition |-> edits + 1, enabled |-> on]
<1>1. PICK on \in BOOLEAN : Edit(c, d(on))
  BY DEF Create
<1>2. d(on) \in [revision : Nat, edition : Nat, enabled : BOOLEAN] /\ d(on).revision # 0
  BY DEF IInv, Shape
<1>3. health' \in [Cameras -> {"none", "CONNECTING", "ONLINE", "OFFLINE", "STOPPED"}]
  BY DEF Create, IInv, Shape
<1> HIDE DEF d
<1> QED
  BY <1>1, <1>2, <1>3, EditKeeps

LEMMA FreedFacts ==
    ASSUME Shape, NEW c \in Cameras, active' = [active EXCEPT ![c] = NoWorker]
    PROVE  /\ active' \in [Cameras -> [revision : Nat, age : Int]]
           /\ \A d \in Cameras : active'[d].revision = 0 => active'[d] = NoWorker
<1>1. active \in [Cameras -> [revision : Nat, age : Int]]
      /\ \A d \in Cameras : active[d].revision = 0 => active[d] = NoWorker
  BY DEF Shape
<1>2. NoWorker \in [revision : Nat, age : Int]
  BY DEF NoWorker
<1> QED
  BY <1>1, <1>2

LEMMA EndsFacts ==
    ASSUME Shape, NEW c \in Cameras, Ends(c)
    PROVE  /\ workers' \in [Cameras -> Seq(Nat)]
           /\ health' \in [Cameras -> {"none", "CONNECTING", "ONLINE", "OFFLINE", "STOPPED"}]
           /\ workers'[c] = <<>> /\ Len(workers'[c]) <= 1
           /\ \A d \in Cameras : d # c => workers'[d] = workers[d]
<1>1. workers' = [workers EXCEPT ![c] = <<>>]
  BY DEF Ends
<1>2. health' = health \/ health' = [health EXCEPT ![c] = "STOPPED"]
  BY DEF Ends
<1>3. workers \in [Cameras -> Seq(Nat)] /\ <<>> \in Seq(Nat) /\ Len(<<>>) = 0
  BY DEF Shape
<1>4. health' \in [Cameras -> {"none", "CONNECTING", "ONLINE", "OFFLINE", "STOPPED"}]
  BY <1>2 DEF Shape
<1>5. workers' \in [Cameras -> Seq(Nat)]
  BY <1>1, <1>3
<1>6. workers'[c] = <<>> /\ \A d \in Cameras : d # c => workers'[d] = workers[d]
  BY <1>1, <1>3
<1> QED
  BY <1>3, <1>4, <1>5, <1>6

LEMMA UpdateKeeps ==
    ASSUME IInv, NEW c \in Cameras, Update(c)
    PROVE  IInv'
<1> DEFINE d(on) == [revision |-> doc[c].revision + 1, edition |-> edits + 1, enabled |-> on]
<1>1. PICK on \in BOOLEAN : Edit(c, d(on))
  BY DEF Update
<1>2. d(on) \in [revision : Nat, edition : Nat, enabled : BOOLEAN] /\ d(on).revision # 0
  BY DEF IInv, Shape
<1>3. health' \in [Cameras -> {"none", "CONNECTING", "ONLINE", "OFFLINE", "STOPPED"}]
  BY DEF Update, IInv, Shape
<1> HIDE DEF d
<1> QED
  BY <1>1, <1>2, <1>3, EditKeeps

LEMMA DeleteKeeps ==
    ASSUME IInv, NEW c \in Cameras, Delete(c)
    PROVE  IInv'
<1>1. NoCamera \in [revision : Nat, edition : Nat, enabled : BOOLEAN]
  BY DEF NoCamera
<1>2. health' \in [Cameras -> {"none", "CONNECTING", "ONLINE", "OFFLINE", "STOPPED"}]
  BY DEF Delete, IInv, Shape
<1> QED
  BY <1>1, <1>2, EditKeeps DEF Delete

LEMMA ReportKeeps ==
    ASSUME IInv, NEW c \in Cameras, WorkerReports(c)
    PROVE  IInv'
<1> USE DEF WorkerReports, world, config, books, place, NoCamera, NoWorker, NoWrite, Running, Managed, Fault
<1>1. Shape'
  BY TimesAssumption, LimitsAssumption DEF IInv, Shape
<1>2. Owned'
  BY <1>1 DEF IInv, Shape, Owned, OneProcess
<1>3. Places'
  BY <1>1 DEF IInv, Shape, Owned, Places
<1>4. Dependent'
  BY DEF IInv, Shape, Owned, Places, Dependent
<1> QED
  BY <1>1, <1>2, <1>3, <1>4 DEF IInv

LEMMA ExitKeeps ==
    ASSUME IInv, NEW c \in Cameras, WorkerExits(c)
    PROVE  IInv'
<1> USE DEF WorkerExits, world, config, books, place, Running
<1>0. Shape /\ Ends(c)
  BY DEF IInv
<1>e. /\ workers' \in [Cameras -> Seq(Nat)]
      /\ health' \in [Cameras -> {"none", "CONNECTING", "ONLINE", "OFFLINE", "STOPPED"}]
      /\ workers'[c] = <<>> /\ Len(workers'[c]) <= 1
      /\ \A d \in Cameras : d # c => workers'[d] = workers[d]
  BY <1>0, EndsFacts
<1>1. Shape'
  BY <1>0, <1>e DEF Shape
<1>2. Owned'
  <2>1. OneProcess'
    BY <1>e, Zenon DEF IInv, Owned, OneProcess
  <2> QED
    BY <2>1, <1>e DEF IInv, Shape, Owned
<1>3. Places'
  <2>1. /\ UNCHANGED <<desired, active, todo, writing, step>>
        /\ \A d \in Cameras : workers'[d] # <<>> => workers[d] # <<>>
    BY <1>e
  <2>2. writing.cams \subseteq Cameras /\ Places
    BY DEF IInv, Shape
  <2> QED
    BY <2>1, <2>2 DEF Places
<1>4. Dependent'
  BY <1>e DEF IInv, Shape, Owned, Places, Dependent
<1> QED
  BY <1>1, <1>2, <1>3, <1>4 DEF IInv

LEMMA InferenceExitKeeps ==
    ASSUME IInv, InferenceExits
    PROVE  IInv'
<1> USE DEF InferenceExits, world, config, books, place, NoCamera, NoWorker, NoWrite, Running, Managed, Fault
<1>1. Shape'
  BY TimesAssumption, LimitsAssumption DEF IInv, Shape
<1>2. Owned'
  BY <1>1 DEF IInv, Shape, Owned, OneProcess
<1>3. Places'
  BY <1>1 DEF IInv, Shape, Owned, Places
<1>4. Dependent'
  BY DEF IInv, Shape, Owned, Places, Dependent
<1> QED
  BY <1>1, <1>2, <1>3, <1>4 DEF IInv

LEMMA TickKeeps ==
    ASSUME IInv, Tick
    PROVE  IInv'
<1> USE DEF Tick, Lesser, world, config, books, place, NoCamera, NoWorker, NoWrite, Running, Managed, Fault
<1>a. ASSUME NEW d \in Cameras
      PROVE  /\ active'[d] \in [revision : Nat, age : Int]
             /\ active'[d].revision = active[d].revision
             /\ active'[d].revision = 0 => active'[d] = NoWorker
  <2>1. CASE active[d] = NoWorker
    BY <2>1 DEF IInv, Shape
  <2>2. CASE active[d] # NoWorker
    <3>1. active'[d] = [active[d] EXCEPT !.age = Lesser(active[d].age + 1, Stability + MaxLag)]
      BY <2>2
    <3>2. active[d] \in [revision : Nat, age : Int] /\ active[d].revision # 0
      BY <2>2 DEF IInv, Shape
    <3>3. Lesser(active[d].age + 1, Stability + MaxLag) \in Int
      BY <3>2, TimesAssumption, LimitsAssumption
    <3> QED
      BY <3>1, <3>2, <3>3
  <2> QED
    BY <2>1, <2>2
<1>b. active' \in [Cameras -> [revision : Nat, age : Int]]
  BY <1>a
<1>c. lag' \in Int
  BY DEF IInv, Shape
<1>1. Shape'
  BY <1>a, <1>b, <1>c DEF IInv, Shape
<1>2. Owned'
  BY <1>1 DEF IInv, Shape, Owned, OneProcess
<1>3. Places'
  BY <1>1 DEF IInv, Shape, Owned, Places
<1>4. Dependent'
  BY DEF IInv, Shape, Owned, Places, Dependent
<1> QED
  BY <1>1, <1>2, <1>3, <1>4 DEF IInv

LEMMA InferenceRunsKeeps ==
    ASSUME IInv, InferenceRuns
    PROVE  IInv'
<1> USE DEF InferenceRuns, world, config, books, place, NoCamera, NoWorker, NoWrite, Running, Managed, Fault
<1>1. Shape'
  BY TimesAssumption, LimitsAssumption DEF IInv, Shape
<1>2. Owned'
  BY <1>1 DEF IInv, Shape, Owned, OneProcess
<1>3. Places'
  BY <1>1 DEF IInv, Shape, Owned, Places
<1>4. Dependent'
  BY DEF IInv, Shape, Owned, Places, Dependent
<1> QED
  BY <1>1, <1>2, <1>3, <1>4 DEF IInv

LEMMA InferenceLostKeeps ==
    ASSUME IInv, InferenceLost
    PROVE  IInv'
<1> USE DEF InferenceLost, StopAll, world, config, books, place, NoCamera, NoWorker, NoWrite, Running, Managed, Fault
<1>1. Shape'
  BY TimesAssumption, LimitsAssumption DEF IInv, Shape
<1>2. Owned'
  BY <1>1 DEF IInv, Shape, Owned, OneProcess
<1>3. Places'
  BY <1>1 DEF IInv, Shape, Owned, Places
<1>4. Dependent'
  BY DEF IInv, Shape, Owned, Places, Dependent
<1> QED
  BY <1>1, <1>2, <1>3, <1>4 DEF IInv

LEMMA ShutdownKeeps ==
    ASSUME IInv, Shutdown
    PROVE  IInv'
<1> USE DEF Shutdown, StopAll, world, config, books, place, NoCamera, NoWorker, NoWrite, Running, Managed, Fault
<1>1. Shape'
  BY TimesAssumption, LimitsAssumption DEF IInv, Shape
<1>2. Owned'
  BY <1>1 DEF IInv, Shape, Owned, OneProcess
<1>3. Places'
  BY <1>1 DEF IInv, Shape, Owned, Places
<1>4. Dependent'
  BY DEF IInv, Shape, Owned, Places, Dependent
<1> QED
  BY <1>1, <1>2, <1>3, <1>4 DEF IInv

LEMMA StartInferenceKeeps ==
    ASSUME IInv, StartInference
    PROVE  IInv'
<1> USE DEF StartInference, world, config, books, place, NoCamera, NoWorker, NoWrite, Running, Managed, Fault
<1>1. Shape'
  BY TimesAssumption, LimitsAssumption DEF IInv, Shape
<1>2. Owned'
  BY <1>1 DEF IInv, Shape, Owned, OneProcess
<1>3. Places'
  BY <1>1 DEF IInv, Shape, Owned, Places
<1>4. Dependent'
  BY DEF IInv, Shape, Owned, Places, Dependent
<1> QED
  BY <1>1, <1>2, <1>3, <1>4 DEF IInv

LEMMA CleanupKeeps ==
    ASSUME IInv, InferenceCleanup
    PROVE  IInv'
<1> USE DEF InferenceCleanup, EndPass, world, config, books, place, NoCamera, NoWorker, NoWrite, Running, Managed, Fault
<1>1. Shape'
  BY TimesAssumption, LimitsAssumption DEF IInv, Shape
<1>2. Owned'
  BY <1>1 DEF IInv, Shape, Owned, OneProcess
<1>3. Places'
  BY <1>1 DEF IInv, Shape, Owned, Places
<1>4. Dependent'
  BY DEF IInv, Shape, Owned, Places, Dependent
<1> QED
  BY <1>1, <1>2, <1>3, <1>4 DEF IInv

LEMMA CloseKeeps ==
    ASSUME IInv, Close
    PROVE  IInv'
<1> USE DEF Close, world, config, books, place, NoCamera, NoWorker, NoWrite, Running, Managed, Fault
<1>1. Shape'
  BY TimesAssumption, LimitsAssumption DEF IInv, Shape
<1>2. Owned'
  BY <1>1 DEF IInv, Shape, Owned, OneProcess
<1>3. Places'
  BY <1>1 DEF IInv, Shape, Owned, Places
<1>4. Dependent'
  BY DEF IInv, Shape, Owned, Places, Dependent
<1> QED
  BY <1>1, <1>2, <1>3, <1>4 DEF IInv

LEMMA StopOneKeeps ==
    ASSUME IInv, NEW c \in Cameras, StopOne(c)
    PROVE  IInv'
<1> USE DEF StopOne, AwaitStop, world, config, books, place, Running
<1>0. Shape /\ Ends(c)
  BY DEF IInv
<1>e. /\ workers' \in [Cameras -> Seq(Nat)]
      /\ health' \in [Cameras -> {"none", "CONNECTING", "ONLINE", "OFFLINE", "STOPPED"}]
      /\ workers'[c] = <<>> /\ Len(workers'[c]) <= 1
      /\ \A d \in Cameras : d # c => workers'[d] = workers[d]
  BY <1>0, EndsFacts
<1>f. writing' = [writing EXCEPT !.cams = writing.cams \cup {c}, !.status = "STOPPED"]
  BY DEF StopOne
<1>w. writing' \in [cams : SUBSET Cameras, status : {"none", "CONNECTING", "OFFLINE", "STOPPED"},
                   back : {"waiting", "checking", "starting"}, renew : BOOLEAN]
  <2>1. writing.cams \cup {c} \in SUBSET Cameras
    BY <1>0 DEF Shape
  <2> QED
    BY <1>0, <1>f, <2>1 DEF Shape
<1>t. todo' \subseteq Cameras
  BY <1>0 DEF Shape
<1>1. Shape'
  BY <1>0, <1>e, <1>w, <1>t DEF Shape
<1>2. Owned'
  <2>1. OneProcess'
    BY <1>e, Zenon DEF IInv, Owned, OneProcess
  <2> QED
    BY <2>1, <1>e, <1>f DEF IInv, Shape, Owned
<1>3. Places'
  BY <1>1, <1>e, <1>f DEF IInv, Shape, Owned, Places
<1>4. Dependent'
  BY <1>e DEF IInv, Shape, Owned, Places, Dependent
<1> QED
  BY <1>1, <1>2, <1>3, <1>4 DEF IInv

LEMMA WriteStoppedKeeps ==
    ASSUME IInv, NEW c \in Cameras, WriteStoppedOne(c)
    PROVE  IInv'
<1> USE DEF WriteStoppedOne, world, config, books, place, NoCamera, NoWorker, NoWrite, Running, Managed, Fault
<1>1. Shape'
  BY TimesAssumption, LimitsAssumption DEF IInv, Shape
<1>2. Owned'
  BY <1>1 DEF IInv, Shape, Owned, OneProcess
<1>3. Places'
  BY <1>1 DEF IInv, Shape, Owned, Places
<1>4. Dependent'
  BY DEF IInv, Shape, Owned, Places, Dependent
<1> QED
  BY <1>1, <1>2, <1>3, <1>4 DEF IInv

LEMMA ListKeeps ==
    ASSUME IInv, List
    PROVE  IInv'
<1> USE DEF List, Enabled, world, config, books, place, NoCamera, NoWorker, NoWrite, Running, Managed, Fault
<1>1. Shape'
  BY TimesAssumption, LimitsAssumption DEF IInv, Shape
<1>2. Owned'
  BY <1>1 DEF IInv, Shape, Owned, OneProcess
<1>3. Places'
  BY <1>1 DEF IInv, Shape, Owned, Places
<1>4. Dependent'
  BY DEF IInv, Shape, Owned, Places, Dependent
<1> QED
  BY <1>1, <1>2, <1>3, <1>4 DEF IInv

LEMMA StopOutdatedKeeps ==
    ASSUME IInv, NEW c \in Cameras, StopOutdated(c)
    PROVE  IInv'
<1>a. /\ active' \in [Cameras -> [revision : Nat, age : Int]]
      /\ \A d \in Cameras : active'[d].revision = 0 => active'[d] = NoWorker
  BY FreedFacts DEF IInv, StopOutdated
<1> USE DEF StopOutdated, Check, AwaitStop, NoWorker, NoWrite, NoCamera, world, config, books, place, Running
<1>0. Shape /\ Ends(c)
  BY DEF IInv
<1>e. /\ workers' \in [Cameras -> Seq(Nat)]
      /\ health' \in [Cameras -> {"none", "CONNECTING", "ONLINE", "OFFLINE", "STOPPED"}]
      /\ workers'[c] = <<>> /\ Len(workers'[c]) <= 1
      /\ \A d \in Cameras : d # c => workers'[d] = workers[d]
  BY <1>0, EndsFacts
<1>f. active' = [active EXCEPT ![c] = [revision |-> 0, age |-> 0]]
  BY DEF StopOutdated
<1>w. writing' \in [cams : SUBSET Cameras, status : {"none", "CONNECTING", "OFFLINE", "STOPPED"},
                   back : {"waiting", "checking", "starting"}, renew : BOOLEAN]
  OBVIOUS
<1>t. todo' \subseteq Cameras
  BY <1>0 DEF Shape
<1>1. Shape'
  BY <1>0, <1>e, <1>w, <1>t, <1>a DEF Shape
<1>2. Owned'
  <2>1. OneProcess'
    BY <1>e, Zenon DEF IInv, Owned, OneProcess
  <2> QED
    BY <2>1, <1>e, <1>f DEF IInv, Shape, Owned
<1>3. Places'
  BY <1>1, <1>e, <1>f DEF IInv, Shape, Owned, Places
<1>4. Dependent'
  BY <1>e DEF IInv, Shape, Owned, Places, Dependent
<1> QED
  BY <1>1, <1>2, <1>3, <1>4 DEF IInv

LEMMA FoundExitedKeeps ==
    ASSUME IInv, NEW c \in Cameras, FoundExited(c)
    PROVE  IInv'
<1>a. /\ active' \in [Cameras -> [revision : Nat, age : Int]]
      /\ \A d \in Cameras : active'[d].revision = 0 => active'[d] = NoWorker
  BY FreedFacts DEF IInv, FoundExited
<1> USE DEF FoundExited, Check, ScheduleFailure, world, config, books, place, NoCamera, NoWorker, NoWrite, Running, Managed, Fault
<1>w. writing' \in [cams : SUBSET Cameras, status : {"none", "CONNECTING", "OFFLINE", "STOPPED"},
                   back : {"waiting", "checking", "starting"}, renew : BOOLEAN]
  OBVIOUS
<1>1. Shape'
  BY <1>w, <1>a DEF IInv, Shape
<1>2. Owned'
  BY <1>1 DEF IInv, Shape, Owned, OneProcess
<1>3. Places'
  BY <1>1 DEF IInv, Shape, Owned, Places
<1>4. Dependent'
  BY DEF IInv, Shape, Owned, Places, Dependent
<1> QED
  BY <1>1, <1>2, <1>3, <1>4 DEF IInv

LEMMA FoundRunningKeeps ==
    ASSUME IInv, NEW c \in Cameras, FoundRunning(c)
    PROVE  IInv'
<1> USE DEF FoundRunning, Check, world, config, books, place, NoCamera, NoWorker, NoWrite, Running, Managed, Fault
<1>1. Shape'
  BY TimesAssumption, LimitsAssumption DEF IInv, Shape
<1>2. Owned'
  BY <1>1 DEF IInv, Shape, Owned, OneProcess
<1>3. Places'
  BY <1>1 DEF IInv, Shape, Owned, Places
<1>4. Dependent'
  BY DEF IInv, Shape, Owned, Places, Dependent
<1> QED
  BY <1>1, <1>2, <1>3, <1>4 DEF IInv

LEMMA ReadPersistedKeeps ==
    ASSUME IInv, NEW c \in Cameras, ReadPersisted(c)
    PROVE  IInv'
<1> USE DEF ReadPersisted, world, config, books, place, NoCamera, NoWorker, NoWrite, Running, Managed, Fault
<1>w. writing' \in [cams : SUBSET Cameras, status : {"none", "CONNECTING", "OFFLINE", "STOPPED"},
                   back : {"waiting", "checking", "starting"}, renew : BOOLEAN]
  BY DEF IInv, Shape
<1>1. Shape'
  BY <1>w DEF IInv, Shape
<1>2. Owned'
  BY <1>1 DEF IInv, Shape, Owned, OneProcess
<1>3. Places'
  BY <1>1 DEF IInv, Shape, Owned, Places
<1>4. Dependent'
  BY DEF IInv, Shape, Owned, Places, Dependent
<1> QED
  BY <1>1, <1>2, <1>3, <1>4 DEF IInv

LEMMA ForgetKeeps ==
    ASSUME IInv, NEW c \in Cameras, Forget(c)
    PROVE  IInv'
<1> USE DEF Forget, world, config, books, place, NoCamera, NoWorker, NoWrite, Running, Managed, Fault
<1>1. Shape'
  BY TimesAssumption, LimitsAssumption DEF IInv, Shape
<1>2. Owned'
  BY <1>1 DEF IInv, Shape, Owned, OneProcess
<1>3. Places'
  BY <1>1 DEF IInv, Shape, Owned, Places
<1>4. Dependent'
  BY DEF IInv, Shape, Owned, Places, Dependent
<1> QED
  BY <1>1, <1>2, <1>3, <1>4 DEF IInv

LEMMA WriteStatusKeeps ==
    ASSUME IInv, NEW c \in Cameras, WriteStatus(c)
    PROVE  IInv'
<1> USE DEF WriteStatus, world, config, books, place, NoCamera, NoWorker, NoWrite, Running, Managed, Fault
<1>1. Shape'
  BY TimesAssumption, LimitsAssumption DEF IInv, Shape
<1>2. Owned'
  BY <1>1 DEF IInv, Shape, Owned, OneProcess
<1>w. writing.back # "waiting"
  BY DEF IInv, Places
<1>3. Places'
  BY <1>1, <1>w DEF IInv, Shape, Owned, Places
<1>4. Dependent'
  BY DEF IInv, Shape, Owned, Places, Dependent
<1> QED
  BY <1>1, <1>2, <1>3, <1>4 DEF IInv

LEMMA BeginStartsKeeps ==
    ASSUME IInv, BeginStarts
    PROVE  IInv'
<1> USE DEF BeginStarts, world, config, books, place, NoCamera, NoWorker, NoWrite, Running, Managed, Fault
<1>1. Shape'
  BY TimesAssumption, LimitsAssumption DEF IInv, Shape
<1>2. Owned'
  BY <1>1 DEF IInv, Shape, Owned, OneProcess
<1>3. Places'
  BY <1>1 DEF IInv, Shape, Owned, Places
<1>4. Dependent'
  BY DEF IInv, Shape, Owned, Places, Dependent
<1> QED
  BY <1>1, <1>2, <1>3, <1>4 DEF IInv

LEMMA StartWorkerKeeps ==
    ASSUME IInv, NEW c \in Cameras, StartWorker(c)
    PROVE  IInv'
<1> USE DEF StartWorker, Start, Startable, world, config, books, place, NoCamera, NoWorker, NoWrite, Running, Managed, Fault
<1>0. /\ Shape
      /\ desired[c].revision \in Nat \ {0}
      /\ active[c] = NoWorker
      /\ workers[c] = <<>>
  BY DEF IInv, Shape, Owned, Places
<1>a. /\ active' = [active EXCEPT ![c] = [revision |-> desired[c].revision, age |-> lag]]
      /\ active' \in [Cameras -> [revision : Nat, age : Int]]
      /\ \A d \in Cameras : active'[d].revision = 0 => active'[d] = NoWorker
      /\ active'[c] # NoWorker
      /\ \A d \in Cameras : d # c => active'[d] = active[d]
  BY <1>0 DEF Shape
<1>b. desired[c].edition \in Nat
  BY <1>0 DEF Shape
<1>d. /\ Append(<<>>, desired[c].edition) \in Seq(Nat)
      /\ Len(Append(<<>>, desired[c].edition)) = 1
  BY <1>b
<1>e. workers' = [workers EXCEPT ![c] = Append(<<>>, desired[c].edition)]
  BY <1>0 DEF Shape
<1>f. /\ workers' \in [Cameras -> Seq(Nat)]
      /\ Len(workers'[c]) = 1
      /\ \A d \in Cameras : d # c => workers'[d] = workers[d]
  BY <1>0, <1>d, <1>e DEF Shape
<1>w. writing' \in [cams : SUBSET Cameras, status : {"none", "CONNECTING", "OFFLINE", "STOPPED"},
                   back : {"waiting", "checking", "starting"}, renew : BOOLEAN]
  OBVIOUS
<1>t. todo' \subseteq Cameras
  BY <1>0 DEF Shape
<1>1. Shape'
  BY <1>0, <1>a, <1>f, <1>w, <1>t DEF Shape
<1>2. Owned'
  BY <1>1, <1>a, <1>f DEF IInv, Shape, Owned, OneProcess
<1>3. Places'
  BY <1>1 DEF IInv, Shape, Owned, Places
<1>4. Dependent'
  BY DEF IInv, Shape, Owned, Places, Dependent
<1> QED
  BY <1>1, <1>2, <1>3, <1>4 DEF IInv

LEMMA StartFailsKeeps ==
    ASSUME IInv, NEW c \in Cameras, StartFails(c)
    PROVE  IInv'
<1> USE DEF StartFails, Start, Startable, ScheduleFailure, world, config, books, place, NoCamera, NoWorker, NoWrite, Running, Managed, Fault
<1>1. Shape'
  BY TimesAssumption, LimitsAssumption DEF IInv, Shape
<1>2. Owned'
  BY <1>1 DEF IInv, Shape, Owned, OneProcess
<1>3. Places'
  BY <1>1 DEF IInv, Shape, Owned, Places
<1>4. Dependent'
  BY DEF IInv, Shape, Owned, Places, Dependent
<1> QED
  BY <1>1, <1>2, <1>3, <1>4 DEF IInv

LEMMA FinishKeeps ==
    ASSUME IInv, Finish
    PROVE  IInv'
<1> USE DEF Finish, EndPass, world, config, books, place, NoCamera, NoWorker, NoWrite, Running, Managed, Fault
<1>1. Shape'
  BY TimesAssumption, LimitsAssumption DEF IInv, Shape
<1>2. Owned'
  BY <1>1 DEF IInv, Shape, Owned, OneProcess
<1>3. Places'
  BY <1>1 DEF IInv, Shape, Owned, Places
<1>4. Dependent'
  BY DEF IInv, Shape, Owned, Places, Dependent
<1> QED
  BY <1>1, <1>2, <1>3, <1>4 DEF IInv

LEMMA PassFailsKeeps ==
    ASSUME IInv, PassFails
    PROVE  IInv'
<1> USE DEF PassFails, EndPass, world, config, books, place, NoCamera, NoWorker, NoWrite, Running, Managed, Fault
<1>h. health' \in [Cameras -> {"none", "CONNECTING", "ONLINE", "OFFLINE", "STOPPED"}]
  BY DEF IInv, Shape
<1>w. writing' \in [cams : SUBSET Cameras, status : {"none", "CONNECTING", "OFFLINE", "STOPPED"},
                   back : {"waiting", "checking", "starting"}, renew : BOOLEAN]
  OBVIOUS
<1>d. /\ desired' \in [Cameras -> [revision : Nat, edition : Nat, enabled : BOOLEAN]]
      /\ \A d \in Cameras : desired'[d] = NoCamera
  OBVIOUS
<1>1. Shape'
  BY <1>h, <1>w, <1>d DEF IInv, Shape
<1>2. Owned'
  BY <1>1 DEF IInv, Shape, Owned, OneProcess
<1>3. Places'
  BY <1>1 DEF IInv, Shape, Owned, Places
<1>4. Dependent'
  BY DEF IInv, Shape, Owned, Places, Dependent
<1> QED
  BY <1>1, <1>2, <1>3, <1>4 DEF IInv
------------------------------------------------------------------------------
LEMMA StutterKeeps ==
    ASSUME IInv, UNCHANGED vars
    PROVE  IInv'
<1> USE DEF vars, world, config, books, place, Running
<1>1. Shape'
  BY DEF IInv, Shape
<1>2. Owned'
  BY DEF IInv, Owned, OneProcess
<1>3. Places'
  BY DEF IInv, Places
<1>4. Dependent'
  BY DEF IInv, Dependent
<1> QED
  BY <1>1, <1>2, <1>3, <1>4 DEF IInv

LEMMA NextKeeps == IInv /\ [Next]_vars => IInv'
<1> SUFFICES ASSUME IInv, [Next]_vars PROVE IInv'
  OBVIOUS
<1>1. ASSUME NEW c \in Cameras, Create(c) PROVE IInv'
  BY <1>1, CreateKeeps
<1>2. ASSUME NEW c \in Cameras, Update(c) PROVE IInv'
  BY <1>2, UpdateKeeps
<1>3. ASSUME NEW c \in Cameras, Delete(c) PROVE IInv'
  BY <1>3, DeleteKeeps
<1>4. ASSUME NEW c \in Cameras, WorkerReports(c) PROVE IInv'
  BY <1>4, ReportKeeps
<1>5. ASSUME NEW c \in Cameras, WorkerExits(c) PROVE IInv'
  BY <1>5, ExitKeeps
<1>6. ASSUME InferenceExits PROVE IInv'
  BY <1>6, InferenceExitKeeps
<1>7. ASSUME Tick PROVE IInv'
  BY <1>7, TickKeeps
<1>8. ASSUME InferenceRuns PROVE IInv'
  BY <1>8, InferenceRunsKeeps
<1>9. ASSUME InferenceLost PROVE IInv'
  BY <1>9, InferenceLostKeeps
<1>10. ASSUME Shutdown PROVE IInv'
  BY <1>10, ShutdownKeeps
<1>11. ASSUME StartInference PROVE IInv'
  BY <1>11, StartInferenceKeeps
<1>12. ASSUME InferenceCleanup PROVE IInv'
  BY <1>12, CleanupKeeps
<1>13. ASSUME Close PROVE IInv'
  BY <1>13, CloseKeeps
<1>14. ASSUME List PROVE IInv'
  BY <1>14, ListKeeps
<1>15. ASSUME BeginStarts PROVE IInv'
  BY <1>15, BeginStartsKeeps
<1>16. ASSUME NEW c \in Cameras, StartFails(c) PROVE IInv'
  BY <1>16, StartFailsKeeps
<1>17. ASSUME Finish PROVE IInv'
  BY <1>17, FinishKeeps
<1>18. ASSUME PassFails PROVE IInv'
  BY <1>18, PassFailsKeeps
<1>19. ASSUME NEW c \in Cameras, Supervise(c) PROVE IInv'
  BY <1>19, StopOneKeeps, WriteStoppedKeeps, StopOutdatedKeeps, FoundExitedKeeps, FoundRunningKeeps, ReadPersistedKeeps, ForgetKeeps, WriteStatusKeeps, StartWorkerKeeps DEF Supervise
<1>20. ASSUME UNCHANGED vars PROVE IInv'
  BY <1>20, StutterKeeps
<1> QED
  BY <1>1, <1>2, <1>3, <1>4, <1>5, <1>6, <1>7, <1>8, <1>9, <1>10, <1>11, <1>12, <1>13, <1>14, <1>15, <1>16, <1>17, <1>18, <1>19, <1>20 DEF Next, Pass

(* IInv holds in every reachable state.                                     *)
THEOREM AlwaysIInv == Spec => []IInv
BY Initially, NextKeeps, PTL DEF Spec

(* A camera never has two worker processes, however passes fail, processes  *)
(* exit and configurations change in between.                               *)
THEOREM OneProcessPerCamera == Spec => []OneProcess
<1>1. IInv => OneProcess
  BY DEF IInv, Owned
<1> QED
  BY <1>1, AlwaysIInv, PTL

(* The inference service is started only when no camera worker runs.        *)
THEOREM InferenceComesFirst == Spec => InferenceStartsAlone
<1>1. IInv /\ [Next]_vars =>
          [(inference # "running" /\ inference' = "running")
               => \A c \in Cameras : ~Running(c)]_vars
  <2> SUFFICES ASSUME IInv, Next, inference # "running", inference' = "running"
               PROVE  \A c \in Cameras : ~Running(c)
    OBVIOUS
  <2>1. inference = "none"
    BY DEF Next, Pass, Supervise, InferenceRuns, InferenceLost, StartInference,
           InferenceCleanup, Close, List, BeginStarts, Finish, Shutdown, StopAll, PassFails,
           Tick, InferenceExits, StopOne, WriteStoppedOne, StopOutdated, FoundExited,
           FoundRunning, Check, ReadPersisted, Forget, WriteStatus, StartWorker, StartFails,
           Create, Update, Delete, Edit, WorkerReports, WorkerExits, world
  <2> QED
    BY <2>1 DEF IInv, Dependent
<1> QED
  BY <1>1, AlwaysIInv, PTL DEF Spec, InferenceStartsAlone

(* The steps that write a status write a true one: stopping a process, the  *)
(* three status writes of the supervisor and nothing else.                  *)
LEMMA EndsWritesTruth ==
    ASSUME IInv, NEW d \in Cameras, Ends(d), NEW c \in Cameras, health'[c] # health[c]
    PROVE  workers'[c] = <<>>
<1>1. Shape
  BY DEF IInv
<1>2. c = d
  BY <1>1 DEF Ends, Shape
<1> QED
  BY <1>1, <1>2, EndsFacts

LEMMA WritesTruth ==
    ASSUME IInv, NEW d \in Cameras, d \in writing.cams, writing.status \in {"OFFLINE", "STOPPED"},
           UNCHANGED workers, NEW c \in Cameras,
           health' = [health EXCEPT ![d] = writing.status], health'[c] # health[c]
    PROVE  workers'[c] = <<>>
<1>1. c = d
  BY DEF IInv, Shape
<1> QED
  BY <1>1 DEF IInv, Places, Running

(* OFFLINE and STOPPED are true of the camera when they are written.        *)
THEOREM StatusesAreTrue == Spec => StatusIsTrue
<1> DEFINE Truth == \A c \in Cameras :
                        (health'[c] # health[c] /\ health'[c] \in {"OFFLINE", "STOPPED"})
                            => workers'[c] = <<>>
<1>1. ASSUME IInv, Next PROVE Truth
  <2> SUFFICES ASSUME NEW c \in Cameras, health'[c] # health[c],
                      health'[c] \in {"OFFLINE", "STOPPED"}
               PROVE  workers'[c] = <<>>
    OBVIOUS
  <2> USE <1>1
  <2>1. ASSUME NEW d \in Cameras, WorkerExits(d) \/ StopOne(d) \/ StopOutdated(d)
        PROVE  workers'[c] = <<>>
    BY <2>1, EndsWritesTruth DEF WorkerExits, StopOne, StopOutdated, AwaitStop
  <2>2. ASSUME NEW d \in Cameras, WriteStoppedOne(d) PROVE workers'[c] = <<>>
    <3>1. health' = [health EXCEPT ![d] = "STOPPED"] /\ d \in writing.cams /\ UNCHANGED workers
      BY <2>2 DEF WriteStoppedOne
    <3>2. c = d
      BY <3>1 DEF IInv, Shape
    <3> QED
      BY <2>2, <3>1, <3>2 DEF WriteStoppedOne, IInv, Places, Running
  <2>3. ASSUME NEW d \in Cameras, d \in writing.cams, UNCHANGED workers,
               health' = [health EXCEPT ![d] = writing.status]
        PROVE  workers'[c] = <<>>
    <3>1. writing.status \in {"OFFLINE", "STOPPED"}
      BY <2>3 DEF IInv, Shape
    <3> QED
      BY <2>3, <3>1, WritesTruth
  <2>4. ASSUME NEW d \in Cameras, WriteStatus(d) PROVE workers'[c] = <<>>
    BY <2>3, <2>4 DEF WriteStatus
  <2>5. ASSUME NEW d \in Cameras, health' = [health EXCEPT ![d] = "none"] \/
                                  health' = [health EXCEPT ![d] = "ONLINE"]
        PROVE  FALSE
    BY <2>5 DEF IInv, Shape
  <2>6. CASE PassFails
    <3>1. PICK d \in writing.cams : \/ health' = [health EXCEPT ![d] = writing.status]
                                    \/ health' = [health EXCEPT ![d] = "none"]
      BY <2>6 DEF PassFails
    <3>2. d \in Cameras /\ UNCHANGED workers
      BY <2>6 DEF PassFails, IInv, Shape
    <3> QED
      BY <3>1, <3>2, <2>3, <2>5
  <2>7. ASSUME NEW d \in Cameras, Delete(d) \/ Forget(d) \/ WorkerReports(d) PROVE FALSE
    BY <2>5, <2>7 DEF Delete, Forget, WorkerReports
  <2>8. CASE InferenceRuns \/ InferenceLost \/ StartInference \/ InferenceCleanup \/ Close
             \/ List \/ BeginStarts \/ Finish \/ Shutdown \/ Tick \/ InferenceExits
    BY <2>8 DEF InferenceRuns, InferenceLost, StartInference, InferenceCleanup, Close, List,
           BeginStarts, Finish, Shutdown, StopAll, Tick, InferenceExits
  <2>9. ASSUME NEW d \in Cameras, \/ FoundExited(d) \/ FoundRunning(d) \/ ReadPersisted(d)
                                  \/ StartWorker(d) \/ StartFails(d) \/ Create(d) \/ Update(d)
        PROVE  FALSE
    BY <2>9 DEF FoundExited, FoundRunning, ReadPersisted, StartWorker, StartFails, Create, Update
  <2> QED
    BY <2>1, <2>2, <2>4, <2>6, <2>7, <2>8, <2>9 DEF Next, Pass, Supervise
<1>2. IInv /\ [Next]_vars => [Truth]_vars
  BY <1>1
<1> QED
  BY <1>2, AlwaysIInv, PTL DEF Spec, StatusIsTrue
------------------------------------------------------------------------------
(* The books of the backoff: failures are counted within their bound, a      *)
(* clock reading is not from the future, and the pass forgets failures only  *)
(* of cameras whose worker it stopped because they had changed.              *)
Backoffs ==
    /\ failures \in [Cameras -> 0..MaxFailures]
    /\ lag >= 0
    /\ writing.renew => writing.status # "OFFLINE"
    /\ step \in {"stopped", "forgetting"} => writing.status # "OFFLINE"

(* Some camera's failures are fewer after the step, for one of the reasons.  *)
Excused(c) ==
    \/ Running(c) /\ active[c].age >= Stability
    \/ ~doc[c].enabled
    \/ Replaced(c)

LEMMA BackoffsInitially == Init => Backoffs
BY FailuresAssumption DEF Init, Backoffs, NoWrite

LEMMA FailureIsCounted ==
    ASSUME Backoffs, NEW c \in Cameras, ScheduleFailure(c)
    PROVE  /\ failures' \in [Cameras -> 0..MaxFailures]
           /\ \A d \in Cameras : failures'[d] >= failures[d]
<1> DEFINE n == Lesser(failures[c] + 1, MaxFailures)
<1>1. failures' = [failures EXCEPT ![c] = n]
  BY DEF ScheduleFailure
<1>2. failures[c] \in 0..MaxFailures /\ MaxFailures \in Nat
  BY FailuresAssumption DEF Backoffs
<1>3. n \in 0..MaxFailures /\ n >= failures[c]
  BY <1>2 DEF Lesser
<1> HIDE DEF n
<1> QED
  BY <1>1, <1>3, FailuresAssumption DEF Backoffs

(* The steps that clear failures.                                            *)
LEMMA Clearing ==
    ASSUME IInv, Backoffs, NEW d \in Cameras, FoundRunning(d) \/ Forget(d) \/ WriteStatus(d)
    PROVE  /\ failures' \in [Cameras -> 0..MaxFailures]
           /\ \A c \in Cameras : failures'[c] < failures[c] => Excused(c)
<1>1. /\ failures \in [Cameras -> 0..MaxFailures] /\ MaxFailures \in Nat
  BY FailuresAssumption DEF Backoffs
<1>2. failures' = failures \/ failures' = [failures EXCEPT ![d] = 0]
  BY DEF FoundRunning, Forget, WriteStatus
<1>3. ASSUME failures'[d] < failures[d] PROVE Excused(d)
  <2>1. failures' # failures
    BY <1>1, <1>3
  <2>2. CASE FoundRunning(d)
    <3>1. Running(d) /\ active[d].age - lag >= Stability
      BY <2>1, <2>2 DEF FoundRunning, Stable
    <3>2. lag \in Int /\ lag >= 0 /\ active[d].age \in Int /\ Stability \in Nat
      BY TimesAssumption DEF IInv, Shape, Backoffs
    <3> QED
      BY <3>1, <3>2 DEF Excused
  <2>3. CASE Forget(d)
    BY <2>3 DEF Forget, Backoffs, Excused, Replaced
  <2>4. CASE WriteStatus(d)
    BY <2>1, <2>4 DEF WriteStatus, Backoffs, Excused, Replaced
  <2> QED
    BY <2>2, <2>3, <2>4
<1>4. \A c \in Cameras : c # d => failures'[c] = failures[c]
  BY <1>1, <1>2
<1>5. failures' \in [Cameras -> 0..MaxFailures]
  BY <1>1, <1>2
<1>6. \A c \in Cameras : ~(failures[c] < failures[c])
  BY <1>1
<1> QED
  BY <1>3, <1>4, <1>5, <1>6, Zenon

LEMMA Forgetting ==
    ASSUME IInv, Backoffs, List
    PROVE  /\ failures' \in [Cameras -> 0..MaxFailures]
           /\ \A c \in Cameras : failures'[c] < failures[c] => Excused(c)
<1>1. /\ failures \in [Cameras -> 0..MaxFailures] /\ MaxFailures \in Nat
  BY FailuresAssumption DEF Backoffs
<1>2. \A c \in Cameras : failures'[c] = failures[c] \/ (failures'[c] = 0 /\ Enabled(doc[c]) = NoCamera)
  BY DEF List
<1>3. failures' \in [Cameras -> 0..MaxFailures]
  BY <1>1 DEF List
<1>4. \A c \in Cameras : Enabled(doc[c]) = NoCamera => ~doc[c].enabled
  BY DEF Enabled, NoCamera
<1>5. \A c \in Cameras : ~(failures[c] < failures[c])
  BY <1>1
<1> QED
  BY <1>2, <1>3, <1>4, <1>5 DEF Excused

(* Every step counts, clears or leaves the failures alone.                   *)
LEMMA FailuresStep ==
    ASSUME IInv, Backoffs, Next
    PROVE  /\ failures' \in [Cameras -> 0..MaxFailures]
           /\ \A c \in Cameras : failures'[c] < failures[c] => Excused(c)
<1> DEFINE Fine == /\ failures' \in [Cameras -> 0..MaxFailures]
                   /\ \A c \in Cameras : failures'[c] < failures[c] => Excused(c)
<1>a. ASSUME failures' = failures PROVE Fine
  <2>1. \A c \in Cameras : failures[c] \in 0..MaxFailures
    BY DEF Backoffs
  <2> QED
    BY <1>a, <2>1, FailuresAssumption DEF Backoffs
<1>b. ASSUME NEW c \in Cameras, ScheduleFailure(c) PROVE Fine
  <2>1. \A d \in Cameras : failures[d] \in 0..MaxFailures /\ failures'[d] \in 0..MaxFailures
    BY <1>b, FailureIsCounted DEF Backoffs
  <2> QED
    BY <1>b, <2>1, FailureIsCounted, FailuresAssumption
<1> HIDE DEF Fine
<1>1. ASSUME NEW c \in Cameras, FoundRunning(c) \/ Forget(c) \/ WriteStatus(c) PROVE Fine
  BY <1>1, Clearing DEF Fine
<1>2. ASSUME List
      PROVE  Fine
  BY <1>2, Forgetting DEF Fine
<1>3. ASSUME NEW c \in Cameras, FoundExited(c) \/ StartFails(c) PROVE Fine
  BY <1>3, <1>b DEF FoundExited, StartFails
<1>4. ASSUME NEW c \in Cameras,
             StopOne(c) \/ WriteStoppedOne(c) \/ StopOutdated(c) \/ ReadPersisted(c) \/ StartWorker(c)
      PROVE  Fine
  BY <1>4, <1>a DEF StopOne, WriteStoppedOne, StopOutdated, ReadPersisted, StartWorker, books
<1>5. ASSUME NEW c \in Cameras,
             Create(c) \/ Update(c) \/ Delete(c) \/ WorkerReports(c) \/ WorkerExits(c)
      PROVE  Fine
  BY <1>5, <1>a DEF Create, Update, Delete, Edit, WorkerReports, WorkerExits, books
<1>6. ASSUME InferenceRuns \/ InferenceLost \/ StartInference \/ InferenceCleanup \/ Close
      PROVE  Fine
  <2>1. failures' = failures
    BY <1>6, Zenon DEF InferenceRuns, InferenceLost, StopAll, StartInference, InferenceCleanup, Close,
       books
  <2> QED
    BY <1>a, <2>1
<1>7. ASSUME BeginStarts \/ Finish \/ Shutdown \/ PassFails \/ Tick \/ InferenceExits
      PROVE  Fine
  <2>1. failures' = failures
    BY <1>7, Zenon DEF BeginStarts, Finish, Shutdown, StopAll, PassFails, Tick, InferenceExits, books
  <2> QED
    BY <1>a, <2>1
<1> QED
  BY <1>1, <1>2, <1>3, <1>4, <1>5, <1>6, <1>7 DEF Next, Pass, Supervise, Fine

(* The rest of the books: what is written and how old the clock reading is.  *)
LEMMA BackoffsStep == IInv /\ Backoffs /\ [Next]_vars => Backoffs'
<1> SUFFICES ASSUME IInv, Backoffs, [Next]_vars PROVE Backoffs'
  OBVIOUS
<1> DEFINE Rest == /\ lag' >= 0
                   /\ writing'.renew => writing'.status # "OFFLINE"
                   /\ step' \in {"stopped", "forgetting"} => writing'.status # "OFFLINE"
<1>a. /\ lag \in Int /\ lag >= 0 /\ writing.renew \in BOOLEAN
      /\ writing \in [cams : SUBSET Cameras, status : {"none", "CONNECTING", "OFFLINE", "STOPPED"},
                      back : {"waiting", "checking", "starting"}, renew : BOOLEAN]
      /\ writing.renew => writing.status # "OFFLINE"
      /\ step \in {"stopped", "forgetting"} => writing.status # "OFFLINE"
  BY DEF IInv, Shape, Backoffs
<1>b. writing.back \notin {"stopped", "forgetting"}
  BY <1>a
<1>1. ASSUME NEW c \in Cameras, StopOne(c) \/ WriteStoppedOne(c) PROVE Rest
  BY <1>1, <1>a DEF StopOne, WriteStoppedOne, place
<1>2. ASSUME NEW c \in Cameras, StopOutdated(c) \/ FoundExited(c) \/ FoundRunning(c) PROVE Rest
  BY <1>2, <1>a DEF StopOutdated, FoundExited, FoundRunning, Check, NoWrite
<1>3. ASSUME NEW c \in Cameras, ReadPersisted(c) PROVE Rest
  BY <1>3, <1>a DEF ReadPersisted
<1>4. ASSUME NEW c \in Cameras, Forget(c) \/ WriteStatus(c) PROVE Rest
  BY <1>4, <1>a, <1>b DEF Forget, WriteStatus, NoWrite
<1>5. ASSUME NEW c \in Cameras, StartWorker(c) \/ StartFails(c) PROVE Rest
  BY <1>5, <1>a DEF StartWorker, StartFails, Start, NoWrite
<1>6. ASSUME NEW c \in Cameras,
             Create(c) \/ Update(c) \/ Delete(c) \/ WorkerReports(c) \/ WorkerExits(c)
      PROVE  Rest
  <2>1. UNCHANGED <<step, lag, writing>>
    BY <1>6, Zenon DEF Create, Update, Delete, Edit, WorkerReports, WorkerExits, place
  <2> QED
    BY <1>a, <2>1
<1>7. ASSUME InferenceCleanup \/ Finish \/ PassFails \/ List
      PROVE  Rest
  BY <1>7, <1>a DEF InferenceCleanup, Finish, PassFails, List, EndPass, NoWrite
<1>8. ASSUME InferenceRuns \/ InferenceLost \/ StartInference \/ Close \/ BeginStarts \/ Shutdown
      PROVE  Rest
  BY <1>8, <1>a DEF InferenceRuns, InferenceLost, StartInference, Close, BeginStarts, Shutdown, StopAll,
     NoWrite
<1>9. ASSUME Tick
      PROVE  Rest
  BY <1>9, <1>a DEF Tick
<1>10. ASSUME InferenceExits \/ UNCHANGED vars
      PROVE  Rest
  <2>1. UNCHANGED <<step, lag, writing>>
    BY <1>10, Zenon DEF InferenceExits, place, vars
  <2> QED
    BY <1>a, <2>1
<1> HIDE DEF Rest
<1>11. Rest
  BY <1>1, <1>2, <1>3, <1>4, <1>5, <1>6, <1>7, <1>8, <1>9, <1>10 DEF Next, Pass, Supervise
<1>12. failures' \in [Cameras -> 0..MaxFailures]
  <2>1. CASE Next
    BY <2>1, FailuresStep
  <2>2. CASE UNCHANGED vars
    BY <2>2 DEF vars, books, Backoffs
  <2> QED
    BY <2>1, <2>2
<1> QED
  BY <1>11, <1>12 DEF Backoffs, Rest

(* A camera's backoff starts over only when its worker was up for the        *)
(* stability interval, or the camera is disabled, deleted or changed.        *)
THEOREM BackoffsStartOver == Spec => BackoffStartsOver
<1> DEFINE Lawful == \A c \in Cameras : failures'[c] < failures[c] =>
                        \/ Running(c) /\ active[c].age >= Stability
                        \/ ~doc[c].enabled
                        \/ Replaced(c)
<1>1. IInv /\ Backoffs /\ [Next]_vars => [Lawful]_vars
  <2>1. ASSUME IInv, Backoffs, Next PROVE Lawful
    BY <2>1, FailuresStep DEF Excused
  <2> QED
    BY <2>1
<1>2. Spec => [](IInv /\ Backoffs)
  BY Initially, NextKeeps, BackoffsInitially, BackoffsStep, PTL DEF Spec
<1> QED
  BY <1>1, <1>2, PTL DEF Spec, BackoffStartsOver
==============================================================================
