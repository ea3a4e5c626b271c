----------------------------- MODULE VideoPipeline -----------------------------
(***************************************************************************)
(* The pipeline of a camera process over its RTSP source: it takes the     *)
(* newest frame or a heartbeat, follows the vehicles the tracker reports,  *)
(* and hands each track over to the finalizer once: when it crossed the    *)
(* line, was not seen for the time-out, belongs to an earlier stream       *)
(* epoch, or when the run ends.                                            *)
(*                                                                         *)
(* Every hand-over is awaited: it can fail, and the run can be cancelled   *)
(* in it, before or after the track was accepted.  What the detector and   *)
(* the tracker report on a frame is any set of tracker ids.                *)
(***************************************************************************)
EXTENDS RtspSource

CONSTANTS
    Ids,            \* ids the tracker gives within one epoch
    Timeout,        \* tracking.timeout_seconds, in ticks
    MaxPipelineFaults       \* bound: failures, cancellations and crashes

ASSUME PipelineAssumption ==
    /\ IsFiniteSet(Ids)
    /\ Timeout \in Nat \ {0} /\ MaxPipelineFaults \in Nat

VARIABLES
    active,     \* _active: last_seen of each track, whether it is FINALIZED
    completed,  \* _completed_track_ids: when an id was last observed
    current,    \* _stream_epoch of the pipeline
    item,       \* the source item in hand
    stage,      \* where run() is
    todo,       \* keys the stage has still to finalize
    ending,     \* primary_error, or a hand-over that failed at the end
    pending,    \* the health reporter's task has an earlier status to save
    final,      \* the health read for the last report
    owed,       \* tracks created for each key, less those the finalizer accepted
    lastSeen,   \* when a key was last observed, within the time-out
    pipelineFaults

trackState == <<active, completed, current>>
ghosts == <<owed, lastSeen>>
reporter == <<pending, final>>
pipelineVars == <<trackState, item, stage, todo, ending, reporter, ghosts, pipelineFaults>>
cameraVars == <<sourceVars, pipelineVars>>
------------------------------------------------------------------------------
Keys == Epochs \X Ids
Never == -1
NoTrack == [last |-> Never, finalized |-> FALSE]
NoEpoch == -1
NoItem == [image |-> FALSE, at |-> 0, epoch |-> 0]

Handing == {"epoch", "crossing", "timeouts", "final"}
Stages == Handing \cup {"wait", "observe", "close", "report", "done"}

PipelineTypeOK ==
    /\ SourceTypeOK
    /\ active \in [Keys -> [last : Never..MaxWallTime, finalized : BOOLEAN]]
    /\ completed \in [Keys -> Never..MaxWallTime]
    /\ current \in {NoEpoch} \cup Epochs
    /\ item \in [image : BOOLEAN, at : 0..MaxWallTime, epoch : Epochs]
    /\ stage \in Stages /\ todo \subseteq Keys
    /\ ending \in {"none", "cancelled", "source", "failed"}
    /\ pending \in BOOLEAN
    /\ final \in {"STOPPED", "live"}
    /\ owed \in [Keys -> Int]
    /\ lastSeen \in [Keys -> Never..MaxWallTime]
    /\ pipelineFaults \in 0..MaxPipelineFaults

PipelineInit ==
    /\ SourceInit
    /\ active = [k \in Keys |-> NoTrack]
    /\ completed = [k \in Keys |-> Never]
    /\ current = NoEpoch
    /\ item = NoItem
    /\ stage = "wait" /\ todo = {} /\ ending = "none"
    /\ pending = FALSE /\ final = "live"
    /\ owed = [k \in Keys |-> 0]
    /\ lastSeen = [k \in Keys |-> Never]
    /\ pipelineFaults = 0

ActiveKeys == {k \in Keys : active[k] # NoTrack}

TimedOut(at) == {k \in ActiveKeys : at - active[k].last >= Timeout}

(* Only whether the camera stopped matters of a status.                      *)
Health == IF cameraStatus = "STOPPED" THEN "STOPPED" ELSE "live"
------------------------------------------------------------------------------
(* run() takes an item, offers the health to the reporter and expires the    *)
(* completed ids.  An item of another epoch ends all tracks first.           *)
BugStillCompleted(at) == [k \in Keys |-> IF at > completed[k] THEN Never ELSE completed[k]]

StillCompleted(at) ==
    [k \in Keys |-> IF completed[k] # Never /\ at - completed[k] >= Timeout
                        THEN Never ELSE completed[k]]

EpochChanges == current # NoEpoch /\ NextItem.epoch # current

Starts == stage = "wait" /\ StartDecoder /\ UNCHANGED pipelineVars

TakeNewest ==
    /\ stage = "wait" /\ decoder # "new"
    /\ TakeItem
    /\ item' = NextItem
    /\ completed' = StillCompleted(item'.at)
    /\ lastSeen' = [k \in Keys |-> IF item'.at - lastSeen[k] < Timeout THEN lastSeen[k] ELSE Never]
    /\ stage' = IF EpochChanges THEN "epoch" ELSE "observe"
    /\ todo' = IF EpochChanges THEN ActiveKeys ELSE {}
    /\ current' = IF current = NoEpoch THEN item'.epoch ELSE current
    /\ UNCHANGED <<active, ending, reporter, owed, pipelineFaults>>

(* The stage s with these keys left, or what follows it.                     *)
GoOn(s, keys) ==
    /\ todo' = keys
    /\ stage' = IF keys # {} THEN s
                ELSE CASE s = "timeouts" -> "wait" [] s = "final" -> "close" [] OTHER -> s
    /\ item' = IF stage' \in {"wait", "final", "close"} THEN NoItem ELSE item

(* Once the loop is left no track can start.                                 *)
NothingSeen == lastSeen' = [k \in Keys |-> Never]

(* The iterator ends with _stop; a decoder that failed is an error.          *)
SourceEnds ==
    /\ stage = "wait" /\ decoder # "new" /\ stop
    /\ IF crashed THEN GoOn("close", {}) /\ ending' = "source"
                  ELSE GoOn("final", ActiveKeys) /\ UNCHANGED ending
    /\ NothingSeen
    /\ UNCHANGED <<sourceVars, trackState, reporter, owed, pipelineFaults>>

(* The tracker reports the ids on the frame: a completed one is remembered   *)
(* for longer, another starts or goes on with its track.  All tracks are     *)
(* updated before the first that has crossed the line is finalized.          *)
BugObserved(ids) == {epoch} \X ids

Observed(ids) == {item.epoch} \X ids

Observe ==
    /\ stage = "observe" /\ item.image
    /\ \E ids \in SUBSET Ids :
         LET on == Observed(ids)
             suppressed == {k \in on : completed[k] # Never}
             followed == on \ suppressed
         IN  /\ completed' = [k \in Keys |-> IF k \in suppressed THEN item.at ELSE completed[k]]
             /\ active' = [k \in Keys |-> IF k \in followed
                                             THEN [last |-> item.at, finalized |-> FALSE]
                                             ELSE active[k]]
             /\ owed' = [k \in Keys |-> IF k \in followed \ ActiveKeys THEN owed[k] + 1 ELSE owed[k]]
             /\ lastSeen' = [k \in Keys |-> IF k \in on THEN item.at ELSE lastSeen[k]]
             /\ \E crossed \in SUBSET followed : todo' = crossed
    /\ stage' = "crossing"
    /\ UNCHANGED <<sourceVars, current, item, ending, reporter, pipelineFaults>>

(* A heartbeat, or the end of a frame, looks for tracks that timed out.      *)
LookForTimeouts ==
    /\ \/ stage = "observe" /\ ~item.image
       \/ stage = "crossing" /\ todo = {}
    /\ GoOn("timeouts", TimedOut(item.at))
    /\ UNCHANGED <<sourceVars, trackState, ending, reporter, ghosts, pipelineFaults>>

(* The tracks of the earlier epoch are gone: the tracker starts over.        *)
EpochChanged ==
    /\ stage = "epoch" /\ todo = {}
    /\ completed' = [k \in Keys |-> Never]
    /\ current' = item.epoch
    /\ stage' = "observe"
    /\ UNCHANGED <<sourceVars, active, item, todo, ending, reporter, ghosts, pipelineFaults>>
------------------------------------------------------------------------------
(* The finalizer accepts a track once; the pipeline then forgets it.         *)
BugHandedOver(k) == owed' = [owed EXCEPT ![k] = @ - 1]

HandedOver(k) == owed' = [owed EXCEPT ![k] = @ - IF active[k].finalized THEN 0 ELSE 1]

Finalize(k) ==
    /\ stage \in Handing /\ k \in todo
    /\ HandedOver(k)
    /\ active' = [active EXCEPT ![k] = NoTrack]
    /\ completed' = [completed EXCEPT ![k] = active[k].last]
    /\ GoOn(stage, todo \ {k})
    /\ UNCHANGED <<sourceVars, current, ending, reporter, lastSeen, pipelineFaults>>

(* What leaves the loop with CancelledError or KeyboardInterrupt finalizes   *)
(* what is left; at the end it leaves the rest.                              *)
LeaveRun ==
    /\ NothingSeen
    /\ IF stage = "final" THEN GoOn("close", {}) /\ ending' = "failed"
                          ELSE GoOn("final", ActiveKeys) /\ ending' = "cancelled"

(* In an await other than a hand-over, or before the finalizer accepted.     *)
RunCancelled ==
    /\ \/ stage \in Handing /\ todo # {}
       \/ stage = "observe"
    /\ pipelineFaults < MaxPipelineFaults /\ pipelineFaults' = pipelineFaults + 1
    /\ LeaveRun
    /\ UNCHANGED <<sourceVars, trackState, reporter, owed>>

(* The stage ran to its end under a shield, the cancellation is raised after *)
(* it: the track is FINALIZED and still active.                              *)
CancelledAccepted(k) ==
    /\ stage \in Handing /\ k \in todo /\ ~active[k].finalized
    /\ pipelineFaults < MaxPipelineFaults /\ pipelineFaults' = pipelineFaults + 1
    /\ HandedOver(k)
    /\ active' = [active EXCEPT ![k].finalized = TRUE]
    /\ LeaveRun
    /\ UNCHANGED <<sourceVars, completed, current, reporter>>

(* Any other failure leaves the tracks to a process that is about to end.    *)
Fails ==
    /\ \/ stage \in Handing /\ todo # {}
       \/ stage = "observe"
    /\ pipelineFaults < MaxPipelineFaults /\ pipelineFaults' = pipelineFaults + 1
    /\ GoOn("close", {}) /\ ending' = "failed" /\ NothingSeen
    /\ UNCHANGED <<sourceVars, trackState, reporter, owed>>
------------------------------------------------------------------------------
SourceCloses ==
    /\ stage = "close"
    /\ \/ CloseBegins \/ CloseReleases \/ CloseEnds
    /\ UNCHANGED pipelineVars

(* The last report is forced: it reads the health, waits for the report of   *)
(* an item that may still be under way, and is saved after it.               *)
SourceClosed ==
    /\ stage = "close" /\ closing \in {"joined", "abandoned"}
    /\ stage' = "report" /\ final' = Health
    /\ pending' \in BOOLEAN
    /\ UNCHANGED <<sourceVars, trackState, item, todo, ending, ghosts, pipelineFaults>>

SaveHealth ==
    /\ pending
    /\ pending' = FALSE
    /\ UNCHANGED <<sourceVars, trackState, item, stage, todo, ending, final, ghosts, pipelineFaults>>

LastReport ==
    /\ stage = "report" /\ ~pending
    /\ stage' = "done"
    /\ UNCHANGED <<sourceVars, trackState, item, todo, ending, reporter, ghosts, pipelineFaults>>
------------------------------------------------------------------------------
Source == (Decode \/ WallTick \/ RequestStop) /\ UNCHANGED pipelineVars

Run == \/ Starts \/ TakeNewest \/ SourceEnds \/ Observe \/ LookForTimeouts \/ EpochChanged
       \/ \E k \in Keys : Finalize(k)
       \/ SourceCloses \/ SourceClosed \/ LastReport \/ SaveHealth

Disturb == RunCancelled \/ Fails \/ \E k \in Keys : CancelledAccepted(k)

PipelineNext == Source \/ Run \/ Disturb

PipelineSpec == PipelineInit /\ [][PipelineNext]_cameraVars

(* The loops of run(), of close() and of the reporter go on: the consumer's  *)
(* wait, the join and every await end.  Of the decoder only the calls to     *)
(* the camera have to end, which their time-outs see to.                     *)
PipelineFairness ==
    /\ WF_cameraVars(Run)
    /\ WF_cameraVars(Decode /\ UNCHANGED pipelineVars)

FairPipelineSpec == PipelineSpec /\ PipelineFairness
------------------------------------------------------------------------------
(* Every track is handed over once: whatever is cancelled or fails between   *)
(* the finalizer and the pipeline's own books, a track that was created is   *)
(* accepted or still active, never both, and none is left when the run ends  *)
(* without a failure (CAMERA_PIPELINE.md: EOF, Ctrl-C and cancellation       *)
(* finalize active tracks once).                                             *)
HandedOverOnce ==
    /\ \A k \in Keys : owed[k] = IF k \in ActiveKeys /\ ~active[k].finalized THEN 1 ELSE 0
    /\ stage = "done" /\ ending \in {"none", "cancelled"} => \A k \in Keys : owed[k] = 0

(* A vehicle that stays in view is one event, also after its track was       *)
(* finalized by crossing or by a heartbeat: a key starts another track only  *)
(* when it was not observed for the time-out.                                *)
NoSecondEvent == [][\A k \in Keys : owed'[k] > owed[k] => lastSeen[k] = Never]_cameraVars

(* Tracker ids of two connections never meet: the stream epoch of what the   *)
(* pipeline takes never goes back, whatever was queued when the connection   *)
(* was lost, and no track of another epoch is active beside it.              *)
EpochsNeverMix == [][current' >= current /\ {k[1] : k \in ActiveKeys'} \subseteq {current'}]_cameraVars

(* A decoder that ended has released every connection it opened, also those  *)
(* it opened while close() was waiting; a close() that saw it end leaves     *)
(* STOPPED as the camera's last status, behind every report under way.       *)
CleanClose ==
    /\ decoder = "ended" => open = {}
    /\ stage = "done" /\ closing = "joined" => open = {} /\ final = "STOPPED"
                                             /\ ~pending

(* A signal, and a decoder that dies, end the run and with it the process,   *)
(* wherever the pipeline and the decoder are.                                *)
StopEndsRun == stop \/ crashed ~> stage = "done" /\ decoder = "ended"
==============================================================================
