------------------------- MODULE CameraProcess_proofs -------------------------
(* Proofs about VideoPipeline and FinalizationOutbox, the two halves of a    *)
(* camera process: for any frames, tracks and epochs, any set of events, any *)
(* capacities and any number of processes and failures.                      *)
EXTENDS VideoPipeline, FinalizationOutbox, SequenceTheorems, WellFoundedInduction, TLAPS

(* The video pipeline and its source.                                       *)

(* Only the last capture can be open, and the decoder holds it: close() has  *)
(* released what it found, the thread releases what it opened after that.    *)
CapturesAreHeld ==
    /\ open \subseteq {opened}
    /\ decoder \in {"new", "top", "opening", "offline", "ended"} => open = {}
    /\ decoder \in {"reading", "stamped"} /\ closing \in {"no", "release"} => capture = opened
    /\ decoder = "stamped" /\ closing \notin {"no", "release"} => open = {}
    /\ decoder = "leaving" => /\ open \subseteq {capture}
                              /\ closing \notin {"no", "release"} => open = {}
    /\ closing # "no" => stop
    /\ closing = "joined" => decoder = "ended"
    /\ decoder = "ended" => cameraStatus = "STOPPED"

(* The last report is read after the source is closed and saved last.        *)
ReportIsLast ==
    /\ stage \in {"report", "done"} /\ closing = "joined" => final = "STOPPED"
    /\ pending => stage = "report"

(* What is being finalized is active; a track is FINALIZED and still active  *)
(* only after a cancellation; at the end all that is active is finalized.    *)
Looping == {"wait", "epoch", "observe", "crossing", "timeouts"}

BooksAgree ==
    /\ \A k \in Keys : owed[k] = IF k \in ActiveKeys /\ ~active[k].finalized THEN 1 ELSE 0
    /\ todo \subseteq ActiveKeys
    /\ stage \in {"wait", "observe", "close", "report", "done"} => todo = {}
    /\ stage \in Looping => \A k \in Keys : ~active[k].finalized
    /\ stage \in {"epoch", "final"} => todo = ActiveKeys
    /\ stage \in {"close", "report", "done"} /\ ending \in {"none", "cancelled"} => ActiveKeys = {}

(* Epochs grow on their way from the decoder to the tracks.                  *)
EpochsInOrder ==
    /\ epoch <= opened /\ (opened > 0 => epoch <= opened - 1)
    /\ decoder = "opened" => opened > 0
    /\ decoder = "stamped" => frame.epoch = epoch
    /\ current <= epoch
    /\ \A i \in DOMAIN queue : current <= queue[i].epoch /\ queue[i].epoch <= epoch
    /\ stage \in Looping \ {"wait"} =>
          /\ item.epoch <= epoch
          /\ \A i \in DOMAIN queue : item.epoch <= queue[i].epoch
          /\ IF stage = "epoch" THEN NoEpoch < current /\ current < item.epoch
                                ELSE current = item.epoch
    /\ \A k \in ActiveKeys : k[1] = current

(* A key that was observed within the time-out has a track that knows it, or *)
(* is remembered as completed for as long.                                   *)
SeenIsKnown ==
    /\ \A k \in ActiveKeys : completed[k] = Never
    /\ \A k \in Keys : lastSeen[k] # Never =>
          /\ k[1] <= current
          /\ k[1] = current => IF k \in ActiveKeys THEN active[k].last >= lastSeen[k]
                                                   ELSE completed[k] >= lastSeen[k]

PipelineInv ==
    /\ PipelineTypeOK
    /\ CapturesAreHeld
    /\ ReportIsLast
    /\ BooksAgree
    /\ EpochsInOrder
    /\ SeenIsKnown
------------------------------------------------------------------------------
(* Steps by what they move: the source only, the pipeline only, or both.     *)
SourceMove ==
    \/ StartDecoder \/ Decode \/ WallTick \/ RequestStop
    \/ CloseBegins \/ CloseReleases \/ CloseEnds

PipelineMove ==
    \/ SourceEnds \/ Observe \/ LookForTimeouts \/ EpochChanged
    \/ \E k \in Keys : Finalize(k) \/ CancelledAccepted(k)
    \/ RunCancelled \/ Fails \/ SourceClosed \/ SaveHealth \/ LastReport

LEMMA PipelineSteps ==
    ASSUME [PipelineNext]_cameraVars
    PROVE  \/ SourceMove /\ UNCHANGED pipelineVars /\ (closing' # closing => stage = "close")
           \/ TakeNewest
           \/ PipelineMove /\ UNCHANGED sourceVars
           \/ UNCHANGED cameraVars
<1>1. CASE Source
  BY <1>1 DEF Source, SourceMove, Decode, Connect, OpenFails, OpenSucceeds, InstallCapture, ReadFrame,
     Enqueue, ReadFails, DecoderCrash, Release, ConnectionLost, DecoderEnds, WallTick, RequestStop
<1>2. CASE Starts \/ SourceCloses
  BY <1>2 DEF Starts, StartDecoder, SourceCloses, SourceMove
<1>3. CASE SourceEnds \/ Observe \/ LookForTimeouts \/ EpochChanged \/ SourceClosed \/ LastReport
           \/ SaveHealth \/ RunCancelled \/ Fails \/ \E k \in Keys : Finalize(k) \/ CancelledAccepted(k)
  BY <1>3 DEF PipelineMove, SourceEnds, Observe, LookForTimeouts, EpochChanged, SourceClosed,
     LastReport, SaveHealth, RunCancelled, Fails, Finalize, CancelledAccepted
<1> QED
  BY <1>1, <1>2, <1>3 DEF PipelineNext, Run, Disturb
------------------------------------------------------------------------------
(* The queue.                                                                *)
LEMMA EnqueueFacts ==
    ASSUME NEW q \in Seq(Frame), NEW f \in Frame, Len(q) <= QueueSize
    PROVE  LET r == Append(IF Len(q) >= QueueSize THEN Tail(q) ELSE q, f)
           IN  /\ r \in Seq(Frame) /\ Len(r) <= QueueSize
               /\ \A i \in DOMAIN r : r[i] = f \/ \E j \in DOMAIN q : r[i] = q[j]
<1> USE SourceAssumption
<1> DEFINE kept == IF Len(q) >= QueueSize THEN Tail(q) ELSE q
<1>1. kept \in Seq(Frame) /\ Len(kept) < QueueSize
  <2>1. CASE Len(q) >= QueueSize
    <3>1. q # <<>>
      BY <2>1
    <3> QED
      BY <2>1, <3>1, HeadTailProperties
  <2> QED
    BY <2>1
<1>2. \A i \in 1..Len(kept) : \E j \in DOMAIN q : kept[i] = q[j]
  <2>1. CASE Len(q) >= QueueSize
    <3>1. q # <<>> /\ kept = Tail(q)
      BY <2>1
    <3>2. Len(kept) = Len(q) - 1 /\ \A i \in 1..Len(kept) : kept[i] = q[i + 1]
      BY <3>1, HeadTailProperties
    <3> QED
      BY <3>2
  <2> QED
    BY <2>1
<1> HIDE DEF kept
<1>3. /\ Append(kept, f) \in Seq(Frame) /\ Len(Append(kept, f)) = Len(kept) + 1
      /\ \A i \in 1..Len(kept) : Append(kept, f)[i] = kept[i]
      /\ Append(kept, f)[Len(kept) + 1] = f
  BY <1>1, AppendProperties
<1> QED
  BY <1>1, <1>2, <1>3 DEF kept

LEMMA NoFrameIsOne == NoFrame \in Frame
BY SourceAssumption DEF NoFrame, Frame, Epochs

LEMMA QueueFacts ==
    ASSUME SourceTypeOK
    PROVE  \A i \in DOMAIN queue : queue[i] \in Frame /\ queue[i].epoch \in Int
<1>1. \A i \in DOMAIN queue : queue[i] \in Frame
  BY DEF SourceTypeOK
<1> QED
  BY <1>1 DEF Frame, Epochs

LEMMA NextItemFacts ==
    ASSUME SourceTypeOK
    PROVE  /\ NextItem \in [image : BOOLEAN, at : 0..MaxWallTime, epoch : Epochs]
           /\ NextItem.epoch = epoch \/ \E i \in DOMAIN queue : NextItem.epoch = queue[i].epoch
<1>1. CASE queue = <<>>
  BY <1>1 DEF NextItem, SourceTypeOK
<1>2. CASE queue # <<>>
  <2>1. Len(queue) \in DOMAIN queue /\ queue[Len(queue)] \in Frame
    BY <1>2 DEF SourceTypeOK
  <2> QED
    BY <1>2, <2>1 DEF NextItem, Frame
<1> QED
  BY <1>1, <1>2
------------------------------------------------------------------------------
LEMMA PipelineInitially == PipelineInit => PipelineInv
<1> SUFFICES ASSUME PipelineInit PROVE PipelineInv
  OBVIOUS
<1> USE SourceAssumption, PipelineAssumption
<1>1. ActiveKeys = {}
  BY DEF PipelineInit, ActiveKeys
<1>2. SourceTypeOK
  <2>1. queue \in Seq(Frame) /\ Len(queue) = 0
    BY DEF PipelineInit, SourceInit
  <2>2. epoch \in Epochs /\ opened \in 0..MaxConnections /\ open = {} /\ capture \in 0..opened
    BY DEF PipelineInit, SourceInit, Epochs
  <2>3. stop \in BOOLEAN /\ crashed \in BOOLEAN
    BY DEF PipelineInit, SourceInit
  <2>4. now \in 0..MaxWallTime /\ Len(queue) <= QueueSize
    BY <2>1 DEF PipelineInit, SourceInit
  <2> QED
    BY <2>1, <2>2, <2>3, <2>4, NoFrameIsOne DEF PipelineInit, SourceInit, SourceTypeOK
<1>3. PipelineTypeOK
  <2>1. NoTrack \in [last : Never..MaxWallTime, finalized : BOOLEAN] /\ Never \in Never..MaxWallTime
    BY DEF NoTrack, Never
  <2>2. NoItem \in [image : BOOLEAN, at : 0..MaxWallTime, epoch : Epochs]
    BY DEF NoItem, Epochs
  <2>3. /\ active \in [Keys -> [last : Never..MaxWallTime, finalized : BOOLEAN]]
        /\ completed \in [Keys -> Never..MaxWallTime] /\ lastSeen \in [Keys -> Never..MaxWallTime]
    BY <2>1 DEF PipelineInit
  <2>4. owed \in [Keys -> Int] /\ pipelineFaults \in 0..MaxPipelineFaults
    BY DEF PipelineInit
  <2>5. pending \in BOOLEAN
    BY DEF PipelineInit
  <2> QED
    BY <1>2, <2>2, <2>3, <2>4, <2>5 DEF PipelineInit, PipelineTypeOK, NoEpoch, Stages, Handing
<1>4. CapturesAreHeld /\ ReportIsLast
  BY DEF PipelineInit, SourceInit, CapturesAreHeld, ReportIsLast
<1>5. BooksAgree /\ SeenIsKnown
  BY <1>1 DEF PipelineInit, BooksAgree, SeenIsKnown, NoTrack, Looping
<1>6. EpochsInOrder
  BY <1>1 DEF PipelineInit, SourceInit, EpochsInOrder, NoEpoch, Looping
<1> QED
  BY <1>3, <1>4, <1>5, <1>6 DEF PipelineInv
------------------------------------------------------------------------------
(* The source keeps its part, whoever moves it.                              *)
LEMMA SourceKeepsTypes ==
    ASSUME SourceTypeOK, EpochsInOrder, SourceMove
    PROVE  SourceTypeOK'
<1> USE SourceAssumption DEF SourceTypeOK
<1>1. CASE StartDecoder
  BY <1>1 DEF StartDecoder
<1>11. CASE Connect
  BY <1>11 DEF Connect
<1>12. CASE OpenFails
  BY <1>12 DEF OpenFails
<1>13. CASE ReadFails
  BY <1>13 DEF ReadFails
<1>14. CASE ConnectionLost
  BY <1>14 DEF ConnectionLost
<1>15. CASE RequestStop \/ CloseBegins
  BY <1>15 DEF RequestStop, CloseBegins
<1>2. CASE OpenSucceeds
  BY <1>2 DEF OpenSucceeds
<1>3. CASE InstallCapture
  BY <1>3 DEF InstallCapture, EpochsInOrder, Epochs
<1>4. CASE ReadFrame
  BY <1>4 DEF ReadFrame, Frame
<1>5. CASE Enqueue
  <2>1. queue' \in Seq(Frame) /\ Len(queue') <= QueueSize
    BY <1>5, EnqueueFacts DEF Enqueue
  <2> QED
    BY <1>5, <2>1, NoFrameIsOne DEF Enqueue
<1>6. CASE DecoderCrash
  BY <1>6, NoFrameIsOne DEF DecoderCrash
<1>9. CASE DecoderEnds
  BY <1>9 DEF DecoderEnds
<1>10. CASE CloseEnds
  BY <1>10 DEF CloseEnds
<1>7. CASE WallTick
  BY <1>7 DEF WallTick
<1>8. CASE Release \/ CloseReleases
  <2>1. open' \subseteq open /\ capture' \in {0, capture} /\ opened' = opened
    BY <1>8 DEF Release, CloseReleases
  <2>2. open' \subseteq 1..opened' /\ capture' \in 0..opened'
    BY <2>1
  <2> QED
    BY <1>8, <2>2 DEF Release, CloseReleases
<1> QED
  BY <1>1, <1>2, <1>3, <1>4, <1>5, <1>6, <1>7, <1>8, <1>9, <1>10, <1>11, <1>12, <1>13, <1>14, <1>15
  DEF SourceMove, Decode

LEMMA SourceHoldsCaptures ==
    ASSUME SourceTypeOK, CapturesAreHeld, SourceMove
    PROVE  CapturesAreHeld'
<1> USE DEF CapturesAreHeld
<1>1. CASE StartDecoder \/ Connect \/ OpenFails \/ ReadFails \/ ConnectionLost \/ RequestStop \/ WallTick
  BY <1>1 DEF StartDecoder, Connect, OpenFails, ReadFails, ConnectionLost, RequestStop, WallTick
<1>2. CASE OpenSucceeds \/ InstallCapture
  BY <1>2 DEF OpenSucceeds, InstallCapture
<1>3. CASE ReadFrame \/ Enqueue \/ DecoderCrash
  BY <1>3 DEF ReadFrame, Enqueue, DecoderCrash
<1>4. CASE Release \/ DecoderEnds
  BY <1>4 DEF Release, DecoderEnds
<1>5. CASE CloseBegins \/ CloseReleases \/ CloseEnds
  BY <1>5, 0 \notin 1..opened DEF CloseBegins, CloseReleases, CloseEnds, SourceTypeOK
<1> QED
  BY <1>1, <1>2, <1>3, <1>4, <1>5 DEF SourceMove, Decode
------------------------------------------------------------------------------
(* A step of the source alone.                                               *)
LEMMA SourceKeepsInv ==
    ASSUME PipelineInv, SourceMove, UNCHANGED pipelineVars, closing' # closing => stage = "close"
    PROVE  PipelineInv'
<1> USE DEF PipelineInv
<1>0. UNCHANGED <<active, completed, current, item, stage, todo, ending, pending, final, owed,
                  lastSeen, pipelineFaults>>
  BY DEF pipelineVars, trackState, ghosts, reporter
<1>1. SourceTypeOK /\ SourceTypeOK'
  BY SourceKeepsTypes DEF PipelineTypeOK
<1>2. PipelineTypeOK'
  BY <1>0, <1>1 DEF PipelineTypeOK
<1>3. CapturesAreHeld'
  BY <1>1, SourceHoldsCaptures
<1>4. ReportIsLast'
  BY <1>0 DEF ReportIsLast
<1>5. ActiveKeys' = ActiveKeys
  BY <1>0 DEF ActiveKeys
<1>6. BooksAgree'
  BY <1>0, <1>5 DEF BooksAgree
<1>7. SeenIsKnown'
  BY <1>0, <1>5 DEF SeenIsKnown
<1>8. EpochsInOrder'
  <2>0. current \in Int /\ epoch \in Int /\ item.epoch \in Int /\ opened \in Nat
    BY <1>1 DEF PipelineTypeOK, SourceTypeOK, NoEpoch, Epochs
  <2>1. CASE UNCHANGED <<queue, epoch, opened>> /\ (decoder' \in {"opened", "stamped"} => UNCHANGED <<decoder, frame>>)
    BY <1>0, <1>5, <2>1 DEF EpochsInOrder
  <2>2. CASE OpenSucceeds
    BY <1>0, <1>5, <2>0, <2>2 DEF EpochsInOrder, OpenSucceeds
  <2>3. CASE InstallCapture
    <3>1. epoch' = opened - 1 /\ epoch <= epoch' /\ opened > 0
      BY <2>0, <2>3 DEF EpochsInOrder, InstallCapture
    <3>2. UNCHANGED <<queue, opened>> /\ decoder' = "reading"
      BY <2>3 DEF InstallCapture
    <3>3. \A i \in DOMAIN queue : queue[i].epoch \in Int
      BY <1>1, QueueFacts
    <3> QED
      BY <1>0, <1>5, <2>0, <3>1, <3>2, <3>3 DEF EpochsInOrder
  <2>4. CASE ReadFrame
    BY <1>0, <1>5, <2>0, <2>4 DEF EpochsInOrder, ReadFrame
  <2>5. CASE Enqueue
    <3>1. \A i \in DOMAIN queue' : queue'[i] = frame \/ \E j \in DOMAIN queue : queue'[i] = queue[j]
      BY <1>1, <2>5, EnqueueFacts DEF Enqueue, SourceTypeOK
    <3>2. UNCHANGED <<epoch, opened>> /\ decoder' = "reading" /\ frame.epoch = epoch
      BY <2>5 DEF Enqueue, EpochsInOrder
    <3> QED
      BY <1>0, <1>5, <2>0, <3>1, <3>2 DEF EpochsInOrder
  <2> QED
    BY <2>1, <2>2, <2>3, <2>4, <2>5 DEF SourceMove, Decode, StartDecoder, Connect, OpenFails, ReadFails,
       ConnectionLost, RequestStop, CloseBegins, CloseReleases, Release, DecoderCrash, DecoderEnds,
       CloseEnds, WallTick
<1> QED
  BY <1>2, <1>3, <1>4, <1>6, <1>7, <1>8
------------------------------------------------------------------------------
(* The pipeline takes an item: what it forgets by time it forgets on both    *)
(* sides, and the epoch of the item is not older than the current one.       *)
LEMMA TakeKeepsInv ==
    ASSUME PipelineInv, TakeNewest
    PROVE  PipelineInv'
<1> USE DEF PipelineInv
<1> DEFINE at == NextItem.at
<1>0. /\ stage = "wait" /\ item' = NextItem /\ queue' = <<>>
      /\ completed' = [k \in Keys |-> IF completed[k] # Never /\ at - completed[k] >= Timeout
                                         THEN Never ELSE completed[k]]
      /\ lastSeen' = [k \in Keys |-> IF at - lastSeen[k] < Timeout THEN lastSeen[k] ELSE Never]
      /\ stage' = IF EpochChanges THEN "epoch" ELSE "observe"
      /\ todo' = IF EpochChanges THEN ActiveKeys ELSE {}
      /\ current' = IF current = NoEpoch THEN NextItem.epoch ELSE current
      /\ UNCHANGED <<active, ending, pending, final, owed, pipelineFaults>>
  BY DEF TakeNewest, TakeItem, StillCompleted, reporter
<1>1. UNCHANGED <<now, stop, cameraStatus, epoch, capture, opened, open, decoder, frame, crashed, closing>>
  BY DEF TakeNewest, TakeItem
<1>2. SourceTypeOK /\ SourceTypeOK'
  <2>1. <<>> \in Seq(Frame) /\ Len(<<>>) <= QueueSize
    BY SourceAssumption
  <2> QED
    BY <1>0, <1>1, <2>1 DEF PipelineTypeOK, SourceTypeOK
<1>3. /\ NextItem \in [image : BOOLEAN, at : 0..MaxWallTime, epoch : Epochs]
      /\ current <= NextItem.epoch /\ NextItem.epoch <= epoch
  <2>1. epoch \in Int /\ current \in Int
    BY <1>2 DEF PipelineTypeOK, SourceTypeOK, NoEpoch, Epochs
  <2> QED
    BY <1>2, <2>1, NextItemFacts DEF EpochsInOrder
<1>4. ActiveKeys' = ActiveKeys
  BY <1>0 DEF ActiveKeys
<1>5. PipelineTypeOK'
  <2>1. /\ completed' \in [Keys -> Never..MaxWallTime] /\ lastSeen' \in [Keys -> Never..MaxWallTime]
    <3>1. /\ completed \in [Keys -> Never..MaxWallTime] /\ lastSeen \in [Keys -> Never..MaxWallTime]
          /\ Never \in Never..MaxWallTime
      BY SourceAssumption DEF PipelineTypeOK, Never
    <3>2. /\ \A k \in Keys : completed[k] \in Never..MaxWallTime
          /\ \A k \in Keys : lastSeen[k] \in Never..MaxWallTime
      BY <3>1
    <3> QED
      BY <1>0, <3>1, <3>2
  <2>2. todo' \subseteq Keys /\ current' \in {NoEpoch} \cup Epochs /\ stage' \in Stages
    BY <1>0, <1>3 DEF PipelineTypeOK, ActiveKeys, Stages, Handing
  <2> QED
    BY <1>0, <1>2, <1>3, <2>1, <2>2 DEF PipelineTypeOK
<1>6. CapturesAreHeld' /\ ReportIsLast'
  BY <1>0, <1>1 DEF CapturesAreHeld, ReportIsLast
<1>7. BooksAgree'
  BY <1>0, <1>4 DEF BooksAgree, Looping
<1>8. NoEpoch < NextItem.epoch /\ current \in Int /\ NoEpoch \in Int /\ NextItem.epoch \in Int
  BY <1>3 DEF PipelineTypeOK, NoEpoch, Epochs
<1>9. ActiveKeys = {} \/ current # NoEpoch
  BY DEF EpochsInOrder, ActiveKeys, Keys, Epochs, NoEpoch
<1>10. EpochsInOrder'
  <2>1. DOMAIN queue' = {} /\ item'.epoch = NextItem.epoch
    BY <1>0
  <2>2. current' <= epoch /\ (current # NoEpoch => current' = current)
        /\ \A k \in ActiveKeys : k[1] = current'
    BY <1>0, <1>3, <1>9 DEF EpochsInOrder
  <2>3. IF stage' = "epoch" THEN NoEpoch < current' /\ current' < NextItem.epoch
                            ELSE current' = NextItem.epoch
    BY <1>0, <1>3, <1>8 DEF EpochChanges, PipelineTypeOK, NoEpoch, Epochs
  <2>4. /\ epoch' <= opened' /\ (opened' > 0 => epoch' <= opened' - 1)
        /\ decoder' = "opened" => opened' > 0
        /\ decoder' = "stamped" => frame'.epoch = epoch'
    BY <1>1 DEF EpochsInOrder
  <2> QED
    BY <1>1, <1>3, <1>4, <2>1, <2>2, <2>3, <2>4 DEF EpochsInOrder
<1>11. SeenIsKnown'
  <2>0. /\ Timeout \in Int /\ at \in Int /\ Never \in Int
        /\ \A k \in Keys : completed[k] \in Int /\ lastSeen[k] \in Int /\ active[k].last \in Int
                             /\ k[1] \in Int
    BY <1>3, PipelineAssumption DEF PipelineTypeOK, Never, Keys, Epochs
  <2>1. ASSUME NEW k \in Keys, lastSeen'[k] # Never
        PROVE  lastSeen[k] = lastSeen'[k] /\ at - lastSeen[k] < Timeout
    BY <1>0, <2>1
  <2>2. \A k \in ActiveKeys : completed'[k] = Never
    BY <1>0 DEF SeenIsKnown, ActiveKeys
  <2>3. ASSUME NEW k \in Keys, lastSeen'[k] # Never
        PROVE  /\ k[1] <= current'
               /\ k[1] = current' => IF k \in ActiveKeys THEN active[k].last >= lastSeen[k]
                                                         ELSE completed'[k] >= lastSeen[k]
    <3>1. current # NoEpoch /\ current' = current
      <4>1. k[1] <= current /\ k[1] > NoEpoch
        BY <2>1, <2>3 DEF SeenIsKnown, Keys, Epochs, NoEpoch
      <4> QED
        BY <1>0, <1>8, <2>0, <4>1
    <3>2. completed[k] >= lastSeen[k] => completed'[k] = completed[k]
      BY <1>0, <2>0, <2>1, <2>3
    <3> QED
      BY <2>1, <2>3, <3>1, <3>2 DEF SeenIsKnown
  <2> QED
    BY <1>0, <1>4, <2>1, <2>2, <2>3 DEF SeenIsKnown
<1> QED
  BY <1>5, <1>6, <1>7, <1>10, <1>11
------------------------------------------------------------------------------
(* Steps of the pipeline alone: what most of them leave as it is.            *)
LEMMA StillHeld ==
    ASSUME PipelineInv, UNCHANGED sourceVars
    PROVE  SourceTypeOK' /\ CapturesAreHeld'
BY DEF PipelineInv, PipelineTypeOK, sourceVars, SourceTypeOK, CapturesAreHeld

LEMMA NotReporting ==
    ASSUME PipelineInv, UNCHANGED reporter, stage \notin {"report", "done"},
           stage' \notin {"report", "done"}
    PROVE  ReportIsLast'
BY DEF PipelineInv, ReportIsLast, reporter

LEMMA SameEpochs ==
    ASSUME PipelineInv, UNCHANGED <<sourceVars, current>>, ActiveKeys' \subseteq ActiveKeys,
           stage' \in Looping \ {"wait"} =>
              /\ item' = item /\ stage \in Looping \ {"wait"}
              /\ stage' = "epoch" <=> stage = "epoch"
    PROVE  EpochsInOrder'
BY DEF PipelineInv, EpochsInOrder, sourceVars

(* The loop is left: no more sightings are compared.                         *)
LEMMA NothingSeenIsKnown ==
    ASSUME PipelineInv, NothingSeen, UNCHANGED <<completed, current>>, ActiveKeys' \subseteq ActiveKeys
    PROVE  SeenIsKnown'
BY DEF PipelineInv, PipelineTypeOK, SeenIsKnown, NothingSeen, ActiveKeys

LEMMA Recompute ==
    ASSUME PipelineInv, UNCHANGED <<active, completed, current, lastSeen>>
    PROVE  ActiveKeys' = ActiveKeys /\ SeenIsKnown'
BY DEF PipelineInv, SeenIsKnown, ActiveKeys

LEMMA ItemTypes ==
    PipelineInv => /\ item \in [image : BOOLEAN, at : 0..MaxWallTime, epoch : Epochs]
                   /\ NoItem \in [image : BOOLEAN, at : 0..MaxWallTime, epoch : Epochs]
                   /\ ActiveKeys \subseteq Keys
BY SourceAssumption DEF PipelineInv, PipelineTypeOK, NoItem, Epochs, ActiveKeys

LEMMA GoOnFacts ==
    ASSUME PipelineInv, NEW s \in Handing, NEW keys \in SUBSET Keys, GoOn(s, keys)
    PROVE  /\ todo' = keys
           /\ \/ stage' = s
              \/ keys = {} /\ s = "timeouts" /\ stage' = "wait"
              \/ keys = {} /\ s = "final" /\ stage' = "close"
           /\ keys = {} /\ s \in {"timeouts", "final"} => stage' # s
           /\ item' \in [image : BOOLEAN, at : 0..MaxWallTime, epoch : Epochs]
           /\ stage' \in Looping \ {"wait"} => item' = item
<1>1. todo' = keys /\ item' \in {item, NoItem}
  BY DEF GoOn
<1>2. item' \in [image : BOOLEAN, at : 0..MaxWallTime, epoch : Epochs]
  BY <1>1, ItemTypes
<1>3. /\ keys # {} => stage' = s
      /\ keys = {} /\ s = "timeouts" => stage' = "wait"
      /\ keys = {} /\ s = "final" => stage' = "close"
      /\ keys = {} /\ s # "timeouts" /\ s # "final" => stage' = s
  BY DEF GoOn
<1>4. stage' \in Looping \ {"wait"} => item' = item
  BY DEF GoOn, Looping
<1>5. \/ stage' = s
      \/ keys = {} /\ s = "timeouts" /\ stage' = "wait"
      \/ keys = {} /\ s = "final" /\ stage' = "close"
  BY <1>3
<1>6. keys = {} /\ s \in {"timeouts", "final"} => stage' # s
  BY <1>3
<1> QED
  BY <1>1, <1>2, <1>4, <1>5, <1>6

LEMMA EndsAt ==
    ASSUME PipelineInv, GoOn("close", {})
    PROVE  todo' = {} /\ stage' = "close" /\ item' = NoItem
BY DEF GoOn
------------------------------------------------------------------------------
LEMMA SourceEndsKeeps ==
    ASSUME PipelineInv, SourceEnds
    PROVE  PipelineInv'
<1>0. /\ stage = "wait" /\ NothingSeen /\ UNCHANGED <<sourceVars, trackState, reporter, owed, pipelineFaults>>
      /\ UNCHANGED <<active, completed, current>>
  BY DEF SourceEnds, trackState
<1>1. ActiveKeys' = ActiveKeys
  BY <1>0 DEF ActiveKeys
<1>2. /\ item' \in [image : BOOLEAN, at : 0..MaxWallTime, epoch : Epochs]
      /\ \/ todo' = {} /\ stage' = "close" /\ ending' = "source"
         \/ /\ todo' = ActiveKeys /\ ending' = ending
            /\ (stage' = "final") \/ (ActiveKeys = {} /\ stage' = "close")
  <2>1. CASE GoOn("close", {}) /\ ending' = "source"
    BY <2>1, EndsAt, ItemTypes
  <2>2. CASE GoOn("final", ActiveKeys) /\ UNCHANGED ending
    <3>1. ActiveKeys \in SUBSET Keys /\ "final" \in Handing
      BY ItemTypes DEF Handing
    <3> QED
      BY <2>2, <3>1, GoOnFacts
  <2> QED
    BY <2>1, <2>2 DEF SourceEnds
<1>3. PipelineTypeOK'
  <2>1. lastSeen' \in [Keys -> Never..MaxWallTime]
    BY <1>0, SourceAssumption DEF NothingSeen, Never
  <2>2. /\ ending' \in {"none", "cancelled", "source", "failed"} /\ stage' \in Stages /\ todo' \subseteq Keys
        /\ item' \in [image : BOOLEAN, at : 0..MaxWallTime, epoch : Epochs]
    BY <1>2, ItemTypes DEF PipelineInv, PipelineTypeOK, Stages, Handing
  <2> QED
    BY <1>0, <2>1, <2>2, StillHeld DEF PipelineInv, PipelineTypeOK, reporter
<1>4. BooksAgree'
  BY <1>0, <1>1, <1>2 DEF PipelineInv, BooksAgree, Looping
<1> QED
  BY <1>0, <1>1, <1>2, <1>3, <1>4, StillHeld, NotReporting, SameEpochs, NothingSeenIsKnown
     DEF PipelineInv, Looping

(* The tracks on a frame: each key on it is suppressed or followed, never    *)
(* both.                                                                     *)
LEMMA ObserveKeeps ==
    ASSUME PipelineInv, Observe
    PROVE  PipelineInv'
<1>0. /\ stage = "observe" /\ stage' = "crossing"
      /\ UNCHANGED <<sourceVars, current, item, ending, reporter, pipelineFaults>>
  BY DEF Observe
<1>1. PICK ids \in SUBSET Ids :
         LET on == Observed(ids)
             suppressed == {k \in on : completed[k] # Never}
             followed == on \ suppressed
         IN  /\ completed' = [k \in Keys |-> IF k \in suppressed THEN item.at ELSE completed[k]]
             /\ active' = [k \in Keys |-> IF k \in followed
                                             THEN [last |-> item.at, finalized |-> FALSE]
                                             ELSE active[k]]
             /\ owed' = [k \in Keys |-> IF k \in followed \ ActiveKeys THEN owed[k] + 1 ELSE owed[k]]
             /\ lastSeen' = [k \in Keys |-> IF k \in on THEN item.at ELSE lastSeen[k]]
             /\ \E crossed \in SUBSET followed : todo' = crossed
  BY DEF Observe
<1> DEFINE on == Observed(ids)
           suppressed == {k \in on : completed[k] # Never}
           followed == on \ suppressed
           track == [last |-> item.at, finalized |-> FALSE]
<1>2. /\ on \subseteq Keys /\ \A k \in on : k[1] = current
      /\ item.at \in 0..MaxWallTime /\ item.epoch = current
  BY <1>0, ItemTypes DEF Observed, Keys, PipelineInv, EpochsInOrder, Looping
<1>3. track \in [last : Never..MaxWallTime, finalized : BOOLEAN] /\ track # NoTrack
  BY <1>2 DEF NoTrack, Never
<1>4. /\ \A k \in Keys : completed'[k] = IF k \in suppressed THEN item.at ELSE completed[k]
      /\ \A k \in Keys : active'[k] = IF k \in followed THEN track ELSE active[k]
      /\ \A k \in Keys : owed'[k] = IF k \in followed \ ActiveKeys THEN owed[k] + 1 ELSE owed[k]
      /\ \A k \in Keys : lastSeen'[k] = IF k \in on THEN item.at ELSE lastSeen[k]
      /\ todo' \subseteq followed
  BY <1>1
<1>5. ActiveKeys' = ActiveKeys \cup followed
  BY <1>2, <1>3, <1>4 DEF ActiveKeys
<1>6. followed \subseteq Keys /\ suppressed \subseteq Keys
  BY <1>2
<1>7. PipelineTypeOK'
  <2>1. completed' \in [Keys -> Never..MaxWallTime] /\ lastSeen' \in [Keys -> Never..MaxWallTime]
    <3>1. item.at \in Never..MaxWallTime
      BY <1>2 DEF Never
    <3> HIDE DEF on, suppressed, followed
    <3>2. completed \in [Keys -> Never..MaxWallTime] /\ lastSeen \in [Keys -> Never..MaxWallTime]
      BY DEF PipelineInv, PipelineTypeOK
    <3>3. /\ completed' = [k \in Keys |-> IF k \in suppressed THEN item.at ELSE completed[k]]
          /\ lastSeen' = [k \in Keys |-> IF k \in on THEN item.at ELSE lastSeen[k]]
      BY <1>1 DEF on, suppressed
    <3> QED
      BY <3>1, <3>2, <3>3
  <2>2. active' \in [Keys -> [last : Never..MaxWallTime, finalized : BOOLEAN]]
    <3> HIDE DEF followed, track
    <3>1. active' = [k \in Keys |-> IF k \in followed THEN track ELSE active[k]]
      BY <1>1 DEF followed, track
    <3>2. active \in [Keys -> [last : Never..MaxWallTime, finalized : BOOLEAN]]
      BY DEF PipelineInv, PipelineTypeOK
    <3> QED
      BY <1>3, <3>1, <3>2
  <2>3. owed' \in [Keys -> Int]
    <3> HIDE DEF followed
    <3>1. owed' = [k \in Keys |-> IF k \in followed \ ActiveKeys THEN owed[k] + 1 ELSE owed[k]]
      BY <1>1 DEF followed
    <3>2. owed \in [Keys -> Int]
      BY DEF PipelineInv, PipelineTypeOK
    <3> QED
      BY <3>1, <3>2
  <2>4. todo' \subseteq Keys /\ stage' \in Stages
    BY <1>0, <1>4, <1>6 DEF Stages, Handing
  <2> QED
    BY <1>0, <2>1, <2>2, <2>3, <2>4, StillHeld DEF PipelineInv, PipelineTypeOK, reporter
<1> HIDE DEF on, suppressed, followed, track
<1>8. BooksAgree'
  <2>1. \A k \in Keys : ~active'[k].finalized
    BY <1>0, <1>4 DEF PipelineInv, BooksAgree, Looping, track
  <2>2. \A k \in Keys : owed'[k] = IF k \in ActiveKeys' /\ ~active'[k].finalized THEN 1 ELSE 0
    BY <1>0, <1>4, <1>5, <2>1 DEF PipelineInv, BooksAgree, Looping
  <2> QED
    BY <1>0, <1>4, <1>5, <2>1, <2>2 DEF BooksAgree, Looping
<1>9. EpochsInOrder'
  <2>1. \A k \in ActiveKeys' : k[1] = current
    BY <1>2, <1>5 DEF followed, PipelineInv, EpochsInOrder
  <2> QED
    BY <1>0, <2>1 DEF PipelineInv, EpochsInOrder, Looping, sourceVars
<1>10. SeenIsKnown'
  <2>0. \A k \in suppressed : k \notin ActiveKeys /\ k \notin followed /\ k \in on
    BY <1>6 DEF PipelineInv, SeenIsKnown, suppressed, followed
  <2>1. \A k \in on : (k \in suppressed) \/ (k \in followed)
    BY DEF suppressed, followed
  <2>2. \A k \in ActiveKeys' : completed'[k] = Never
    <3> SUFFICES ASSUME NEW k \in ActiveKeys' PROVE completed'[k] = Never
      OBVIOUS
    <3>1. k \in Keys /\ k \notin suppressed
      BY <1>5, <1>6, <2>0, ItemTypes
    <3>2. completed[k] = Never
      <4>1. CASE k \in ActiveKeys
        BY <4>1 DEF PipelineInv, SeenIsKnown
      <4>2. CASE k \in followed
        BY <4>2 DEF followed, suppressed
      <4> QED
        BY <1>5, <4>1, <4>2
    <3> QED
      BY <1>4, <3>1, <3>2
  <2>3. ASSUME NEW k \in Keys, lastSeen'[k] # Never
        PROVE  /\ k[1] <= current
               /\ k[1] = current => IF k \in ActiveKeys' THEN active'[k].last >= lastSeen'[k]
                                                         ELSE completed'[k] >= lastSeen'[k]
    <3>0. item.at \in Int /\ k[1] \in Int
      BY <1>2 DEF Keys, Epochs
    <3>1. CASE k \in followed
      <4>1. active'[k].last = item.at /\ lastSeen'[k] = item.at /\ k[1] = current /\ k \in ActiveKeys'
        BY <1>2, <1>4, <1>5, <3>1 DEF track, followed
      <4> QED
        BY <3>0, <4>1
    <3>2. CASE k \in suppressed
      <4>1. completed'[k] = item.at /\ lastSeen'[k] = item.at /\ k[1] = current /\ k \notin ActiveKeys'
        BY <1>2, <1>4, <1>5, <2>0, <3>2
      <4> QED
        BY <3>0, <4>1
    <3>3. CASE k \notin on
      <4>1. k \notin followed /\ k \notin suppressed
        BY <3>3 DEF followed, suppressed
      <4>2. /\ active'[k] = active[k] /\ completed'[k] = completed[k] /\ lastSeen'[k] = lastSeen[k]
            /\ k \in ActiveKeys' <=> k \in ActiveKeys
        BY <1>4, <1>5, <3>3, <4>1
      <4> QED
        BY <2>3, <4>2 DEF PipelineInv, SeenIsKnown
    <3> QED
      BY <2>1, <3>1, <3>2, <3>3
  <2> QED
    BY <1>0, <2>2, <2>3 DEF SeenIsKnown
<1> QED
  BY <1>0, <1>7, <1>8, <1>9, <1>10, StillHeld, NotReporting DEF PipelineInv
------------------------------------------------------------------------------
LEMMA LookForTimeoutsKeeps ==
    ASSUME PipelineInv, LookForTimeouts
    PROVE  PipelineInv'
<1>0. /\ stage \in {"observe", "crossing"} /\ GoOn("timeouts", TimedOut(item.at))
      /\ UNCHANGED <<sourceVars, active, completed, current, ending, pending, final, owed, lastSeen,
                     pipelineFaults>>
  BY DEF LookForTimeouts, trackState, ghosts, reporter
<1>1. TimedOut(item.at) \subseteq ActiveKeys /\ TimedOut(item.at) \in SUBSET Keys /\ "timeouts" \in Handing
  BY ItemTypes DEF TimedOut, Handing
<1>2. /\ todo' = TimedOut(item.at)
      /\ (stage' = "timeouts") \/ (todo' = {} /\ stage' = "wait")
      /\ item' \in [image : BOOLEAN, at : 0..MaxWallTime, epoch : Epochs]
      /\ stage' = "timeouts" => item' = item
  BY <1>0, <1>1, GoOnFacts DEF Looping
<1>3. ActiveKeys' = ActiveKeys /\ SeenIsKnown'
  BY <1>0, Recompute
<1>4. PipelineTypeOK'
  <2>1. stage' \in Stages /\ todo' \subseteq Keys
    BY <1>1, <1>2 DEF Stages, Handing
  <2> QED
    BY <1>0, <1>2, <2>1, StillHeld DEF PipelineInv, PipelineTypeOK
<1>5. BooksAgree'
  BY <1>0, <1>1, <1>2, <1>3 DEF PipelineInv, BooksAgree, Looping
<1>6. EpochsInOrder'
  BY <1>0, <1>2, <1>3, SameEpochs DEF Looping
<1>7. ReportIsLast'
  BY <1>0, <1>2, NotReporting DEF reporter
<1> QED
  BY <1>0, <1>3, <1>4, <1>5, <1>6, <1>7, StillHeld DEF PipelineInv

(* No track of the earlier epoch is left, and none of the new one was seen.  *)
LEMMA EpochChangedKeeps ==
    ASSUME PipelineInv, EpochChanged
    PROVE  PipelineInv'
<1>0. /\ stage = "epoch" /\ stage' = "observe" /\ todo = {}
      /\ completed' = [k \in Keys |-> Never] /\ current' = item.epoch
      /\ UNCHANGED <<sourceVars, active, item, todo, ending, pending, final, owed, lastSeen, pipelineFaults>>
  BY DEF EpochChanged, reporter, ghosts
<1>1. ActiveKeys = {} /\ ActiveKeys' = {}
  BY <1>0 DEF PipelineInv, BooksAgree, ActiveKeys
<1>2. /\ item.epoch \in Epochs /\ current < item.epoch /\ item.epoch <= epoch
      /\ \A i \in DOMAIN queue : item.epoch <= queue[i].epoch
  BY <1>0, ItemTypes DEF PipelineInv, EpochsInOrder, Looping
<1>3. PipelineTypeOK'
  <2>1. completed' \in [Keys -> Never..MaxWallTime]
    BY <1>0, SourceAssumption DEF Never
  <2>2. current' \in {NoEpoch} \cup Epochs /\ stage' \in Stages
    BY <1>0, <1>2 DEF Stages, Handing
  <2> QED
    BY <1>0, <2>1, <2>2, StillHeld DEF PipelineInv, PipelineTypeOK
<1>4. BooksAgree'
  BY <1>0, <1>1 DEF PipelineInv, BooksAgree, Looping
<1>5. EpochsInOrder'
  BY <1>0, <1>1, <1>2 DEF PipelineInv, EpochsInOrder, sourceVars, Looping
<1>6. SeenIsKnown'
  <2>1. current \in Int /\ item.epoch \in Int /\ \A k \in Keys : k[1] \in Int
    BY <1>2 DEF PipelineInv, PipelineTypeOK, NoEpoch, Epochs, Keys
  <2>2. \A k \in Keys : lastSeen[k] # Never => k[1] <= current
    BY DEF PipelineInv, SeenIsKnown
  <2>3. \A k \in Keys : lastSeen'[k] # Never => k[1] <= current' /\ k[1] # current'
    BY <1>0, <1>2, <2>1, <2>2
  <2> QED
    BY <1>1, <2>3 DEF SeenIsKnown
<1>7. ReportIsLast'
  BY <1>0, NotReporting DEF reporter
<1> QED
  BY <1>0, <1>3, <1>4, <1>5, <1>6, <1>7, StillHeld DEF PipelineInv
------------------------------------------------------------------------------
(* What the finalizer accepted is paid off.                                  *)
LEMMA HandedOverFacts ==
    ASSUME PipelineInv, NEW k \in ActiveKeys, HandedOver(k)
    PROVE  /\ owed' \in [Keys -> Int] /\ owed'[k] = 0
           /\ \A j \in Keys \ {k} : owed'[j] = owed[j]
<1>1. k \in Keys /\ owed \in [Keys -> Int] /\ owed[k] = IF active[k].finalized THEN 0 ELSE 1
  BY DEF PipelineInv, PipelineTypeOK, BooksAgree, ActiveKeys
<1> QED
  BY <1>1 DEF HandedOver

LEMMA FinalizeKeeps ==
    ASSUME PipelineInv, NEW k \in Keys, Finalize(k)
    PROVE  PipelineInv'
<1>0. /\ stage \in Handing /\ k \in todo /\ GoOn(stage, todo \ {k}) /\ HandedOver(k)
      /\ active' = [active EXCEPT ![k] = NoTrack]
      /\ completed' = [completed EXCEPT ![k] = active[k].last]
      /\ UNCHANGED <<sourceVars, current, ending, pending, final, lastSeen, pipelineFaults>>
  BY DEF Finalize, reporter
<1>1. /\ active \in [Keys -> [last : Never..MaxWallTime, finalized : BOOLEAN]]
      /\ completed \in [Keys -> Never..MaxWallTime] /\ todo \subseteq ActiveKeys
  BY DEF PipelineInv, PipelineTypeOK, BooksAgree
<1>2. ActiveKeys' = ActiveKeys \ {k} /\ k \in ActiveKeys
  BY <1>0, <1>1 DEF ActiveKeys
<1>3. todo \ {k} \in SUBSET Keys
  BY <1>1, ItemTypes
<1>4. /\ todo' = todo \ {k}
      /\ \/ stage' = stage
         \/ todo' = {} /\ stage = "timeouts" /\ stage' = "wait"
         \/ todo' = {} /\ stage = "final" /\ stage' = "close"
      /\ item' \in [image : BOOLEAN, at : 0..MaxWallTime, epoch : Epochs]
      /\ stage' \in Looping \ {"wait"} => item' = item
  BY <1>0, <1>3, GoOnFacts
<1>5. PipelineTypeOK'
  <2>1. active' \in [Keys -> [last : Never..MaxWallTime, finalized : BOOLEAN]]
    <3>1. NoTrack \in [last : Never..MaxWallTime, finalized : BOOLEAN]
      BY SourceAssumption DEF NoTrack, Never
    <3> QED
      BY <1>0, <1>1, <3>1
  <2>2. completed' \in [Keys -> Never..MaxWallTime]
    BY <1>0, <1>1
  <2>3. stage' \in Stages /\ todo' \subseteq Keys /\ owed' \in [Keys -> Int]
    BY <1>0, <1>2, <1>3, <1>4, HandedOverFacts DEF Stages
  <2> QED
    BY <1>0, <1>4, <2>1, <2>2, <2>3, StillHeld DEF PipelineInv, PipelineTypeOK
<1>6. BooksAgree'
  <2>1. \A j \in Keys : owed'[j] = IF j \in ActiveKeys' /\ ~active'[j].finalized THEN 1 ELSE 0
    BY <1>0, <1>1, <1>2, HandedOverFacts DEF PipelineInv, BooksAgree
  <2>2. stage' \in Looping => \A j \in Keys : ~active'[j].finalized
    BY <1>0, <1>1, <1>4 DEF PipelineInv, BooksAgree, Looping, NoTrack
  <2>3. stage \in {"epoch", "final"} => todo' = ActiveKeys'
    BY <1>2, <1>4 DEF PipelineInv, BooksAgree
  <2>4. todo' \subseteq ActiveKeys'
    BY <1>1, <1>2, <1>4
  <2>5. stage' \in {"wait", "observe", "close", "report", "done"} => todo' = {}
    BY <1>0, <1>4 DEF Handing
  <2>6. stage' \in {"epoch", "final"} => stage' = stage
    BY <1>4
  <2>7. stage' \in {"close", "report", "done"} => ActiveKeys' = {}
    BY <1>0, <1>4, <2>3 DEF Handing
  <2> QED
    BY <2>1, <2>2, <2>3, <2>4, <2>5, <2>6, <2>7 DEF BooksAgree
<1>7. EpochsInOrder'
  BY <1>0, <1>2, <1>4, SameEpochs DEF Looping, Handing
<1>8. SeenIsKnown'
  <2>1. \A j \in ActiveKeys' : completed'[j] = Never
    BY <1>0, <1>1, <1>2, ItemTypes DEF PipelineInv, SeenIsKnown
  <2>2. ASSUME NEW j \in Keys, lastSeen'[j] # Never
        PROVE  /\ j[1] <= current'
               /\ j[1] = current' => IF j \in ActiveKeys' THEN active'[j].last >= lastSeen'[j]
                                                          ELSE completed'[j] >= lastSeen'[j]
    <3>1. CASE j = k
      BY <1>0, <1>1, <1>2, <2>2, <3>1 DEF PipelineInv, SeenIsKnown
    <3>2. CASE j # k
      BY <1>0, <1>1, <1>2, <2>2, <3>2 DEF PipelineInv, SeenIsKnown
    <3> QED
      BY <3>1, <3>2
  <2> QED
    BY <2>1, <2>2 DEF SeenIsKnown
<1>9. ReportIsLast'
  BY <1>0, <1>4, NotReporting DEF reporter, Handing
<1> QED
  BY <1>0, <1>5, <1>6, <1>7, <1>8, <1>9, StillHeld DEF PipelineInv
------------------------------------------------------------------------------
(* What leaves the loop.                                                     *)
LEMMA LeaveRunFacts ==
    ASSUME PipelineInv, LeaveRun, stage \notin {"close", "report", "done"}
    PROVE  /\ NothingSeen /\ lastSeen' \in [Keys -> Never..MaxWallTime]
           /\ item' \in [image : BOOLEAN, at : 0..MaxWallTime, epoch : Epochs]
           /\ \/ todo' = {} /\ stage' = "close" /\ ending' = "failed"
              \/ /\ todo' = ActiveKeys /\ ending' = "cancelled"
                 /\ (stage' = "final") \/ (ActiveKeys = {} /\ stage' = "close")
<1> DEFINE left == /\ item' \in [image : BOOLEAN, at : 0..MaxWallTime, epoch : Epochs]
                   /\ \/ todo' = {} /\ stage' = "close" /\ ending' = "failed"
                      \/ /\ todo' = ActiveKeys /\ ending' = "cancelled"
                         /\ (stage' = "final") \/ (ActiveKeys = {} /\ stage' = "close")
<1>1. ASSUME stage = "final" PROVE left
  <2>1. GoOn("close", {}) /\ ending' = "failed"
    BY <1>1 DEF LeaveRun
  <2>2. todo' = {} /\ stage' = "close" /\ item' = NoItem
    BY <2>1, EndsAt
  <2> QED
    BY <2>1, <2>2, ItemTypes
<1>2. ASSUME stage # "final" PROVE left
  <2>1. ActiveKeys \in SUBSET Keys /\ "final" \in Handing
    BY ItemTypes DEF Handing
  <2>2. GoOn("final", ActiveKeys) /\ ending' = "cancelled"
    BY <1>2 DEF LeaveRun
  <2>3. /\ item' \in [image : BOOLEAN, at : 0..MaxWallTime, epoch : Epochs]
        /\ todo' = ActiveKeys
        /\ (stage' = "final") \/ (ActiveKeys = {} /\ stage' = "close")
    BY <2>1, <2>2, GoOnFacts
  <2> QED
    BY <2>2, <2>3
<1>3. NothingSeen /\ lastSeen' \in [Keys -> Never..MaxWallTime]
  BY SourceAssumption DEF LeaveRun, NothingSeen, Never
<1> QED
  BY <1>1, <1>2, <1>3

LEMMA RunCancelledKeeps ==
    ASSUME PipelineInv, RunCancelled
    PROVE  PipelineInv'
<1>0. /\ stage \notin {"close", "report", "done"} /\ LeaveRun
      /\ pipelineFaults' \in 0..MaxPipelineFaults
      /\ UNCHANGED <<sourceVars, active, completed, current, pending, final, owed>>
  BY PipelineAssumption DEF RunCancelled, trackState, reporter, Handing, PipelineInv, PipelineTypeOK
<1>1. ActiveKeys' = ActiveKeys
  BY <1>0 DEF ActiveKeys
<1>2. PipelineTypeOK'
  <2>1. ending' \in {"none", "cancelled", "source", "failed"} /\ stage' \in Stages /\ todo' \subseteq Keys
    BY <1>0, LeaveRunFacts, ItemTypes DEF Stages, Handing
  <2> QED
    BY <1>0, <2>1, LeaveRunFacts, StillHeld DEF PipelineInv, PipelineTypeOK
<1>3. BooksAgree'
  BY <1>0, <1>1, LeaveRunFacts DEF PipelineInv, BooksAgree, Looping
<1>4. SeenIsKnown' /\ EpochsInOrder' /\ ReportIsLast'
  BY <1>0, <1>1, LeaveRunFacts, NothingSeenIsKnown, SameEpochs, NotReporting DEF Looping, reporter
<1> QED
  BY <1>0, <1>2, <1>3, <1>4, StillHeld DEF PipelineInv

(* The track is paid off and marked: the end finalizes it without owing it.  *)
LEMMA CancelledAcceptedKeeps ==
    ASSUME PipelineInv, NEW k \in Keys, CancelledAccepted(k)
    PROVE  PipelineInv'
<1>0. /\ stage \in Handing /\ k \in todo /\ LeaveRun /\ HandedOver(k)
      /\ pipelineFaults' \in 0..MaxPipelineFaults
      /\ active' = [active EXCEPT ![k].finalized = TRUE]
      /\ UNCHANGED <<sourceVars, completed, current, pending, final>>
  BY PipelineAssumption DEF CancelledAccepted, reporter, PipelineInv, PipelineTypeOK
<1>1. active \in [Keys -> [last : Never..MaxWallTime, finalized : BOOLEAN]] /\ k \in ActiveKeys
  BY <1>0 DEF PipelineInv, PipelineTypeOK, BooksAgree
<1>2. /\ active' \in [Keys -> [last : Never..MaxWallTime, finalized : BOOLEAN]]
      /\ active'[k].finalized = TRUE /\ active'[k] # NoTrack
      /\ \A j \in Keys \ {k} : active'[j] = active[j]
  <2>1. active' = [active EXCEPT ![k] = [active[k] EXCEPT !.finalized = TRUE]]
    BY <1>0
  <2>2. [active[k] EXCEPT !.finalized = TRUE] \in [last : Never..MaxWallTime, finalized : BOOLEAN]
    BY <1>1
  <2> QED
    BY <1>1, <2>1, <2>2 DEF NoTrack
<1>3. ActiveKeys' = ActiveKeys
  BY <1>1, <1>2 DEF ActiveKeys
<1>4. stage \notin {"close", "report", "done"}
  BY <1>0 DEF Handing
<1>5. PipelineTypeOK'
  <2>1. ending' \in {"none", "cancelled", "source", "failed"} /\ stage' \in Stages /\ todo' \subseteq Keys
    BY <1>0, <1>4, LeaveRunFacts, ItemTypes DEF Stages, Handing
  <2>2. owed' \in [Keys -> Int]
    BY <1>0, <1>1, HandedOverFacts
  <2> QED
    BY <1>0, <1>2, <1>4, <2>1, <2>2, LeaveRunFacts, StillHeld DEF PipelineInv, PipelineTypeOK
<1>6. BooksAgree'
  <2>1. \A j \in Keys : owed'[j] = IF j \in ActiveKeys' /\ ~active'[j].finalized THEN 1 ELSE 0
    BY <1>0, <1>1, <1>2, <1>3, HandedOverFacts DEF PipelineInv, BooksAgree
  <2> QED
    BY <1>0, <1>3, <1>4, <2>1, LeaveRunFacts DEF PipelineInv, BooksAgree, Looping
<1>7. SeenIsKnown' /\ EpochsInOrder' /\ ReportIsLast'
  BY <1>0, <1>3, <1>4, LeaveRunFacts, NothingSeenIsKnown, SameEpochs, NotReporting DEF Looping, reporter
<1> QED
  BY <1>0, <1>5, <1>6, <1>7, StillHeld DEF PipelineInv

LEMMA FailsKeeps ==
    ASSUME PipelineInv, Fails
    PROVE  PipelineInv'
<1>0. /\ stage \notin {"close", "report", "done"} /\ GoOn("close", {}) /\ ending' = "failed" /\ NothingSeen
      /\ pipelineFaults' \in 0..MaxPipelineFaults
      /\ UNCHANGED <<sourceVars, active, completed, current, pending, final, owed>>
  BY PipelineAssumption DEF Fails, trackState, reporter, Handing, PipelineInv, PipelineTypeOK
<1>1. todo' = {} /\ stage' = "close" /\ item' = NoItem
  BY <1>0, EndsAt
<1>2. ActiveKeys' = ActiveKeys
  BY <1>0 DEF ActiveKeys
<1>3. PipelineTypeOK'
  <2>1. lastSeen' \in [Keys -> Never..MaxWallTime] /\ stage' \in Stages
    BY <1>0, <1>1, SourceAssumption DEF NothingSeen, Never, Stages
  <2> QED
    BY <1>0, <1>1, <2>1, ItemTypes, StillHeld DEF PipelineInv, PipelineTypeOK
<1>4. BooksAgree'
  BY <1>0, <1>1, <1>2 DEF PipelineInv, BooksAgree, Looping
<1>5. SeenIsKnown' /\ EpochsInOrder' /\ ReportIsLast'
  BY <1>0, <1>1, <1>2, NothingSeenIsKnown, SameEpochs, NotReporting DEF Looping, reporter
<1> QED
  BY <1>0, <1>3, <1>4, <1>5, StillHeld DEF PipelineInv
------------------------------------------------------------------------------
(* The last report: close() saw the decoder end, and a decoder that ended    *)
(* left STOPPED.                                                             *)
LEMMA ReportingKeeps ==
    ASSUME PipelineInv, SourceClosed \/ SaveHealth \/ LastReport
    PROVE  PipelineInv'
<1>0. UNCHANGED <<sourceVars, active, completed, current, item, todo, ending, owed, lastSeen, pipelineFaults>>
  BY DEF SourceClosed, SaveHealth, LastReport, trackState, ghosts, reporter
<1>1. /\ UNCHANGED stage \/ (stage \in {"close", "report"} /\ stage' \in {"report", "done"})
      /\ pending' \in BOOLEAN /\ final' \in {"STOPPED", "live"}
      /\ stage' \in Looping => stage = stage'
  <2>1. CASE SourceClosed
    BY <2>1 DEF SourceClosed, Health, Looping
  <2>2. CASE SaveHealth
    BY <2>2 DEF SaveHealth, PipelineInv, PipelineTypeOK
  <2>3. CASE LastReport
    BY <2>3 DEF LastReport, reporter, PipelineInv, PipelineTypeOK, Looping
  <2> QED
    BY <2>1, <2>2, <2>3
<1>2. ActiveKeys' = ActiveKeys /\ SeenIsKnown'
  BY <1>0, Recompute
<1>3. PipelineTypeOK'
  <2>1. stage' \in Stages
    BY <1>1 DEF Stages, PipelineInv, PipelineTypeOK
  <2>2. pending' \in BOOLEAN
    BY <1>1
  <2> QED
    BY <1>0, <1>1, <2>1, <2>2, StillHeld DEF PipelineInv, PipelineTypeOK
<1>4. BooksAgree'
  BY <1>0, <1>1, <1>2 DEF PipelineInv, BooksAgree, Looping
<1>5. EpochsInOrder'
  BY <1>0, <1>1, <1>2, SameEpochs DEF Looping
<1>6. ReportIsLast'
  <2>1. CASE SourceClosed
    <3>1. closing = "joined" => cameraStatus = "STOPPED"
      BY DEF PipelineInv, CapturesAreHeld
    <3> QED
      BY <1>0, <2>1, <3>1 DEF SourceClosed, Health, ReportIsLast, sourceVars
  <2>2. CASE SaveHealth
    BY <1>0, <2>2 DEF SaveHealth, PipelineInv, ReportIsLast, sourceVars
  <2>3. CASE LastReport
    BY <1>0, <2>3 DEF LastReport, reporter, PipelineInv, ReportIsLast, sourceVars
  <2> QED
    BY <2>1, <2>2, <2>3
<1> QED
  BY <1>0, <1>2, <1>3, <1>4, <1>5, <1>6, StillHeld DEF PipelineInv
------------------------------------------------------------------------------
LEMMA PipelineMoveKeeps ==
    ASSUME PipelineInv, PipelineMove
    PROVE  PipelineInv'
BY SourceEndsKeeps, ObserveKeeps, LookForTimeoutsKeeps, EpochChangedKeeps, FinalizeKeeps,
   CancelledAcceptedKeeps, RunCancelledKeeps, FailsKeeps, ReportingKeeps DEF PipelineMove

LEMMA PipelineInductive == PipelineInv /\ [PipelineNext]_cameraVars => PipelineInv'
<1> SUFFICES ASSUME PipelineInv, [PipelineNext]_cameraVars PROVE PipelineInv'
  OBVIOUS
<1>1. CASE UNCHANGED cameraVars
  <2>1. UNCHANGED sourceVars /\ UNCHANGED pipelineVars
    BY <1>1 DEF cameraVars
  <2>2. UNCHANGED <<active, completed, current, item, stage, todo, ending, pending, final, owed,
                    lastSeen, pipelineFaults>>
    BY <2>1 DEF pipelineVars, trackState, ghosts, reporter
  <2>3. ActiveKeys' = ActiveKeys /\ SeenIsKnown'
    BY <2>2, Recompute
  <2>4. PipelineTypeOK' /\ CapturesAreHeld'
    BY <2>1, <2>2, StillHeld DEF PipelineInv, PipelineTypeOK
  <2>5. EpochsInOrder'
    BY <2>1, <2>2, <2>3, SameEpochs
  <2>6. BooksAgree'
    BY <2>2, <2>3 DEF PipelineInv, BooksAgree
  <2>7. ReportIsLast'
    BY <2>1, <2>2 DEF PipelineInv, ReportIsLast, sourceVars
  <2> QED
    BY <2>3, <2>4, <2>5, <2>6, <2>7 DEF PipelineInv
<1> QED
  BY <1>1, PipelineSteps, SourceKeepsInv, TakeKeepsInv, PipelineMoveKeeps

LEMMA PipelineInvHolds == PipelineSpec => []PipelineInv
BY PipelineInitially, PipelineInductive, PTL DEF PipelineSpec
------------------------------------------------------------------------------
(* Every variable keeps its type.                                            *)
THEOREM PipelineTypeCorrect == PipelineSpec => []PipelineTypeOK
<1>1. PipelineInv => PipelineTypeOK
  BY DEF PipelineInv
<1> QED
  BY <1>1, PipelineInvHolds, PTL

(* Every track is accepted once or still active, and none is left.           *)
THEOREM TracksHandedOver == PipelineSpec => []HandedOverOnce
<1>1. PipelineInv => HandedOverOnce
  BY DEF PipelineInv, BooksAgree, HandedOverOnce
<1> QED
  BY <1>1, PipelineInvHolds, PTL

(* close() leaves no capture open and STOPPED as the last status.            *)
THEOREM SourceIsClosed == PipelineSpec => []CleanClose
<1>1. PipelineInv => CleanClose
  BY DEF PipelineInv, CapturesAreHeld, ReportIsLast, CleanClose
<1> QED
  BY <1>1, PipelineInvHolds, PTL

(* A key starts another track only when it was not seen for the time-out.    *)
LEMMA OnlyNewTracks ==
    ASSUME PipelineInv, [PipelineNext]_cameraVars, NEW k \in Keys, owed'[k] > owed[k]
    PROVE  lastSeen[k] = Never
<1>0. owed \in [Keys -> Int]
  BY DEF PipelineInv, PipelineTypeOK
<1>1. ASSUME NEW j \in Keys, Finalize(j) \/ CancelledAccepted(j)
      PROVE  FALSE
  <2>1. j \in ActiveKeys /\ HandedOver(j)
    BY <1>1 DEF Finalize, CancelledAccepted, PipelineInv, BooksAgree
  <2>2. owed[j] >= 0
    BY DEF PipelineInv, BooksAgree
  <2>3. owed'[k] <= owed[k]
    BY <1>0, <2>1, <2>2, HandedOverFacts
  <2> QED
    BY <1>0, <2>1, <2>3, HandedOverFacts
<1>2. CASE UNCHANGED owed
  BY <1>0, <1>2
<1>3. CASE Observe
  <2>1. k \in Observed(Ids) /\ k \notin ActiveKeys /\ completed[k] = Never
    BY <1>0, <1>3 DEF Observe, Observed
  <2>2. k[1] = current
    BY <1>3, <2>1 DEF Observe, Observed, PipelineInv, EpochsInOrder, Looping
  <2>3. lastSeen[k] \in Never..MaxWallTime
    BY DEF PipelineInv, PipelineTypeOK
  <2> QED
    BY <2>1, <2>2, <2>3 DEF PipelineInv, SeenIsKnown, Never
<1> QED
  BY <1>1, <1>2, <1>3, PipelineSteps DEF PipelineMove, TakeNewest, SourceEnds, LookForTimeouts, ghosts,
     EpochChanged, RunCancelled, Fails, SourceClosed, SaveHealth, LastReport, pipelineVars, cameraVars

(* A vehicle that stays in view is one event.                                *)
THEOREM OneEventPerVisit == PipelineSpec => NoSecondEvent
<1>1. PipelineInv /\ [PipelineNext]_cameraVars
        => [\A k \in Keys : owed'[k] > owed[k] => lastSeen[k] = Never]_cameraVars
  BY OnlyNewTracks
<1> QED
  BY <1>1, PipelineInvHolds, PTL DEF PipelineSpec, NoSecondEvent

LEMMA EpochGrows ==
    ASSUME PipelineInv, PipelineInv', [PipelineNext]_cameraVars
    PROVE  current' >= current /\ {k[1] : k \in ActiveKeys'} \subseteq {current'}
<1>0. current \in Int /\ item.epoch \in Int /\ NextItem.epoch \in Int /\ NextItem.epoch >= 0
  BY ItemTypes, NextItemFacts DEF PipelineInv, PipelineTypeOK, NoEpoch, Epochs
<1>1. UNCHANGED current \/ TakeNewest \/ EpochChanged
  BY PipelineSteps DEF PipelineMove, TakeNewest, SourceEnds, LookForTimeouts, trackState, Observe,
     EpochChanged, RunCancelled, Fails, SourceClosed, SaveHealth, LastReport, pipelineVars, cameraVars,
     Finalize, CancelledAccepted
<1>2. current' >= current
  <2>1. CASE UNCHANGED current
    BY <1>0, <2>1
  <2>2. CASE TakeNewest
    BY <1>0, <2>2 DEF TakeNewest, NoEpoch
  <2>3. CASE EpochChanged
    BY <1>0, <2>3 DEF EpochChanged, PipelineInv, EpochsInOrder, Looping
  <2> QED
    BY <1>1, <2>1, <2>2, <2>3
<1>3. \A k \in ActiveKeys' : k[1] = current'
  BY DEF PipelineInv, EpochsInOrder
<1> QED
  BY <1>2, <1>3

(* The epoch never goes back, and the active tracks are of the current one.  *)
THEOREM EpochsStayApart == PipelineSpec => EpochsNeverMix
<1>1. PipelineInv /\ PipelineInv' /\ [PipelineNext]_cameraVars
        => [current' >= current /\ {k[1] : k \in ActiveKeys'} \subseteq {current'}]_cameraVars
  BY EpochGrows
<1> QED
  BY <1>1, PipelineInvHolds, PTL DEF PipelineSpec, EpochsNeverMix
------------------------------------------------------------------------------
(* The finalization outbox.                                                 *)

(* Oldest picks an entry of the set, and no entry of it is older.            *)
Before == {p \in Nat \X Nat : p[1] < p[2]}

LEMMA HasLeast ==
    ASSUME NEW T \in SUBSET Nat, T # {}
    PROVE  \E x \in T : \A y \in T : x <= y
<1>1. IsWellFoundedOn(Before, Nat)
  BY NatLessThanWellFounded DEF OpToRel, Before
<1>2. PICK x \in T : \A y \in T : ~(<<y, x>> \in Before)
  BY <1>1, WFMin
<1>3. ASSUME NEW y \in T PROVE x <= y
  <2>1. x \in Nat /\ y \in Nat /\ <<y, x>> \notin Before
    BY <1>2
  <2>2. <<y, x>> \in Nat \X Nat
    BY <2>1
  <2>3. ~(y < x)
    BY <2>1, <2>2 DEF Before
  <2> QED
    BY <2>1, <2>3
<1> QED
  BY <1>3

LEMMA OldestIsFirst ==
    ASSUME NEW S \in SUBSET Events, S # {}
    PROVE  Oldest(S) \in S /\ \A f \in S : OccurredAt[Oldest(S)] <= OccurredAt[f]
<1> DEFINE T == {OccurredAt[e] : e \in S}
<1>1. T \in SUBSET Nat /\ T # {}
  BY OrderAssumption
<1>2. PICK x \in T : \A y \in T : x <= y
  BY <1>1, HasLeast
<1>3. PICK e \in S : OccurredAt[e] = x
  OBVIOUS
<1>4. \A f \in S : OccurredAt[e] <= OccurredAt[f]
  BY <1>2, <1>3
<1> QED
  BY <1>4 DEF Oldest
------------------------------------------------------------------------------
TaskState ==
    [pc : TaskPC, todo : SUBSET Events, pass : SUBSET Events,
     cur : Events \cup {NoEvent}, loaded : Bytes]

Busy == {"loading", "storing", "publishing", "removing"}

(* The pass: what it has left behind is published, what is left is in the    *)
(* order of the paths, and the current entry is the oldest of it.            *)
PassIsOrdered ==
    task.pc \in Busy =>
       /\ task.todo # {} /\ task.todo \subseteq task.pass
       /\ task.cur = Oldest(task.todo)
       /\ \A f \in task.pass \ task.todo : f \in published

(* An entry is removed, now or late, only when it is delivered.              *)
RemovedIsDelivered ==
    /\ task.pc \in {"publishing", "removing"} => task.cur \in media
    /\ task.pc = "removing" => task.cur \in published
    /\ \A r \in late : r[1] \in published \cap media

Delivered(e) == e \in published \cap media

(* An accepted entry is in the directory and on disk.  An entry of a process *)
(* that lives is on disk as soon as its stage has returned, unless its flush *)
(* failed.                                                                   *)
EntryIsSafe(e) ==
    /\ tracks[e] \in {"staging", "replaced"} => mode \notin {"down", "drain", "exit"}
    /\ tracks[e] = "replaced" => dir[e] # Absent
    /\ mode # "down" /\ tracks[e] # "replaced" /\ dir[e] # Absent =>
          disk[e] # Absent \/ e \in unflushed
    /\ e \in accepted =>
          Delivered(e) \/ e \in unflushed \/ (dir[e] # Absent /\ disk[e] # Absent)

OutboxInv ==
    /\ OutboxTypeOK
    /\ mode # "down" => boot # Absent
    /\ PassIsOrdered
    /\ RemovedIsDelivered
    /\ \A e \in Events : EntryIsSafe(e)
------------------------------------------------------------------------------
USE EventsAreFinite, NoEventAssumption, BoundsAssumption DEF Absent, Bad

LEMMA InitEstablishes == OutboxInit => OutboxInv
<1> SUFFICES ASSUME OutboxInit PROVE OutboxInv
  OBVIOUS
<1>1. IdleTask \in TaskState
  BY DEF IdleTask, TaskState, TaskPC, Bytes
<1>2. OutboxTypeOK
  <2>1. /\ dir \in [Events -> Bytes] /\ disk \in [Events -> Bytes]
        /\ tracks \in [Events -> {"active", "staging", "replaced", "finalized"}]
    BY DEF OutboxInit, Bytes
  <2>2. /\ boot \in 0..MaxBoots /\ outboxFaults \in 0..MaxOutboxFaults
        /\ late \subseteq Events \X Bytes /\ mode \in Modes
    BY DEF OutboxInit, Modes
  <2>3. task \in TaskState
    BY <1>1 DEF OutboxInit
  <2> QED
    BY <2>1, <2>2, <2>3 DEF OutboxInit, OutboxTypeOK, TaskState
<1>3. PassIsOrdered /\ RemovedIsDelivered /\ \A e \in Events : EntryIsSafe(e)
  BY DEF OutboxInit, PassIsOrdered, RemovedIsDelivered, EntryIsSafe, IdleTask, Busy
<1> QED
  BY <1>2, <1>3 DEF OutboxInv, OutboxInit

(* What a step leaves of the task: nothing to do, or a record well formed.   *)
LEMMA TaskWrites ==
    ASSUME OutboxInv
    PROVE  /\ task \in TaskState
           /\ IdleTask \in TaskState
           /\ [IdleTask EXCEPT !.pc = "dead"] \in TaskState
           /\ [IdleTask EXCEPT !.pc = "scanning"] \in TaskState
           /\ \A p \in TaskPC : [task EXCEPT !.pc = p] \in TaskState
           /\ task.pc \in Busy => task.cur \in Events /\ task.cur \in task.todo
<1>1. task \in TaskState
  BY DEF OutboxInv, OutboxTypeOK, TaskState
<1>2. /\ IdleTask \in TaskState
      /\ [IdleTask EXCEPT !.pc = "dead"] \in TaskState
      /\ [IdleTask EXCEPT !.pc = "scanning"] \in TaskState
  BY DEF IdleTask, TaskState, TaskPC, Bytes
<1>3. \A p \in TaskPC : [task EXCEPT !.pc = p] \in TaskState
  BY <1>1 DEF TaskState
<1>4. task.pc \in Busy => task.cur \in Events /\ task.cur \in task.todo
  BY <1>1, OldestIsFirst DEF OutboxInv, PassIsOrdered, TaskState
<1> QED
  BY <1>1, <1>2, <1>3, <1>4

(* The steps of the process, of the stages and of the delivery.              *)
ProcessStep ==
    \/ Start \/ StartRefused \/ Reconfigure
    \/ Stop \/ Close \/ DrainDeadline \/ Exit \/ OutboxCrash \/ PowerLoss

StageStep(e) ==
    \/ Tamper(e) \/ StageBegin(e) \/ StageRefused(e) \/ StageExisting(e) \/ StageConflict(e)
    \/ StageFull(e) \/ StageReplace(e) \/ StageFlush(e) \/ StageError(e) \/ StageFlushError(e)

DeliverStep == Deliver \/ DeliveryError \/ RemoveUnflushed \/ RemoveTimeout \/ LateRemove

LEMMA Steps ==
    OutboxNext => ProcessStep \/ DeliverStep \/ \E e \in Events : StageStep(e)
BY DEF OutboxNext, ProcessStep, DeliverStep, StageStep, Stage

(* The pass goes on with the rest of its paths, or another one starts.       *)
LEMMA PassGoesOn ==
    ASSUME OutboxInv, NEW rest \in SUBSET Events, rest # {}, NEW pass \in SUBSET Events
    PROVE  [task EXCEPT !.pc = "loading", !.todo = rest, !.pass = pass, !.cur = Oldest(rest)]
              \in TaskState
           /\ [task EXCEPT !.pc = "loading", !.todo = rest, !.cur = Oldest(rest), !.loaded = Absent]
              \in TaskState
<1>1. task \in TaskState /\ Oldest(rest) \in Events
  BY TaskWrites, OldestIsFirst
<1> QED
  BY <1>1 DEF TaskState, TaskPC, Bytes

LEMMA TaskStep ==
    ASSUME OutboxInv, OutboxNext
    PROVE  task' \in TaskState
<1>0. /\ task \in TaskState /\ task.todo \in SUBSET Events
      /\ dir \in [Events -> Bytes] /\ Entries \in SUBSET Events
  BY TaskWrites DEF TaskState, OutboxInv, OutboxTypeOK, Entries
<1>1. CASE ProcessStep
  BY <1>1, TaskWrites DEF ProcessStep, Start, StartRefused, Reconfigure,
     Initializes, Stop, Close, DrainDeadline, Exit, OutboxCrash, PowerLoss,
     Die
<1>2. ASSUME NEW e \in Events, StageStep(e) PROVE task' = task
  BY <1>2 DEF StageStep, Tamper, StageBegin, StageRefused, StageExisting, StageConflict, StageFull,
     StageReplace, StageFlush, StageError, StageFlushError, StageFailed, StageAccepted
<1>3. CASE Scan
  <2>1. task' = IdleTask \/
        /\ Entries # {}
        /\ task' = [task EXCEPT !.pc = "loading", !.todo = Entries, !.pass = Entries,
                                !.cur = Oldest(Entries)]
    BY <1>3 DEF Scan, EndPass
  <2>2. ASSUME Entries # {}
        PROVE  [task EXCEPT !.pc = "loading", !.todo = Entries, !.pass = Entries,
                            !.cur = Oldest(Entries)] \in TaskState
    BY <1>0, <2>2, PassGoesOn
  <2> QED
    BY <2>1, <2>2, TaskWrites
<1>4. CASE Load
  <2>1. dir[task.cur] \in Bytes
    BY <1>0, <1>4, TaskWrites DEF Load, Busy
  <2> QED
    BY <1>0, <1>4, <2>1 DEF Load, TaskState, TaskPC
<1>5. CASE RemoveEntry
  <2> DEFINE rest == task.todo \ {task.cur}
  <2>1. task' = IdleTask \/ (rest # {} /\ LoadNext(rest))
    BY <1>5 DEF RemoveEntry, EndPass
  <2>2. rest \in SUBSET Events
    BY <1>0
  <2> QED
    BY <2>1, <2>2, TaskWrites, PassGoesOn DEF LoadNext
<1>6. CASE Wake \/ PutMedia \/ PublishEvent
  BY <1>6, TaskWrites DEF Wake, PutMedia, PublishEvent, TaskPC
<1>7. CASE LoadGone \/ LoadCorrupt \/ RemoveCorrupt \/ DeliveryError \/ RemoveUnflushed \/ RemoveTimeout
  BY <1>7, TaskWrites DEF LoadGone, LoadCorrupt, RemoveCorrupt, DeliveryError, RemoveUnflushed,
     RemoveTimeout, Defer, Deferred, Corrupted, EndPass
<1>8. CASE LateRemove
  BY <1>0, <1>8 DEF LateRemove
<1> QED
  BY <1>0, <1>1, <1>2, <1>3, <1>4, <1>5, <1>6, <1>7, <1>8, Steps DEF DeliverStep, Deliver

(* What is in the directory and on disk.                                     *)
LEMMA FilesStep ==
    ASSUME OutboxInv, OutboxNext
    PROVE  dir' \in [Events -> Bytes] /\ disk' \in [Events -> Bytes]
<1>0. /\ dir \in [Events -> Bytes] /\ disk \in [Events -> Bytes] /\ boot \in 0..MaxBoots
      /\ late \subseteq Events \X Bytes
      /\ mode # "down" => boot # Absent
  BY DEF OutboxInv, OutboxTypeOK
<1>1. CASE ProcessStep
  BY <1>0, <1>1 DEF ProcessStep, Start, StartRefused, Reconfigure,
     Initializes, Stop, Close, DrainDeadline, Exit, OutboxCrash, PowerLoss,
     Synced, files
<1>2. ASSUME NEW e \in Events, StageStep(e)
      PROVE  dir' \in [Events -> Bytes] /\ disk' \in [Events -> Bytes]
  <2>1. tracks[e] = "staging" => boot \in Bytes
    BY <1>0 DEF OutboxInv, EntryIsSafe, Bytes
  <2>2. CASE Tamper(e)
    BY <1>0, <2>2 DEF Tamper, Bytes
  <2>3. CASE StageReplace(e)
    BY <1>0, <2>1, <2>3 DEF StageReplace
  <2>4. CASE ~Tamper(e) /\ ~StageReplace(e)
    BY <1>0, <1>2, <2>4 DEF StageStep, StageBegin, StageRefused, StageExisting, StageConflict,
       StageFull, StageFlush, StageError, StageFlushError, StageFailed, StageAccepted, Synced, files
  <2> QED
    BY <2>2, <2>3, <2>4
<1>3. CASE DeliverStep
  <2>1. (dir' = dir \/ \E e : dir' = [dir EXCEPT ![e] = Absent]) /\ (disk' = disk \/ disk' = dir')
    BY <1>3 DEF DeliverStep, Deliver, Wake, Scan, Load, LoadGone, LoadCorrupt, PutMedia, PublishEvent,
       RemoveEntry, RemoveCorrupt, DeliveryError, RemoveUnflushed, RemoveTimeout, LateRemove, Synced, files
  <2> QED
    BY <1>0, <2>1 DEF Bytes
<1> QED
  BY <1>1, <1>2, <1>3, Steps

LEMMA TypeStep == OutboxInv /\ [OutboxNext]_outboxVars => OutboxTypeOK'
<1> SUFFICES ASSUME OutboxInv, [OutboxNext]_outboxVars PROVE OutboxTypeOK'
  OBVIOUS
<1>0. OutboxTypeOK /\ task \in TaskState /\ (task.pc \in Busy => task.cur \in Events)
  BY TaskWrites DEF OutboxInv
<1>1. CASE UNCHANGED outboxVars
  BY <1>0, <1>1 DEF outboxVars, OutboxTypeOK
<1>2. CASE ProcessStep /\ OutboxNext
  <2>1. /\ boot' \in 0..MaxBoots /\ capacity' \in Capacities /\ mode' \in Modes /\ fatal' \in BOOLEAN
        /\ outboxFaults' \in 0..MaxOutboxFaults
    <3>1. boot' \in 0..MaxBoots
      BY <1>0, <1>2 DEF ProcessStep, Start, StartRefused, Reconfigure,
     Initializes, Stop, Close, DrainDeadline, Exit, OutboxCrash, PowerLoss, Die,
         OutboxTypeOK
    <3>2. outboxFaults' \in 0..MaxOutboxFaults
      BY <1>0, <1>2 DEF ProcessStep, Start, StartRefused, Reconfigure,
     Initializes, Stop, Close, DrainDeadline, Exit, OutboxCrash, PowerLoss,
         OutboxFault, OutboxTypeOK
    <3>3. capacity' \in Capacities /\ mode' \in Modes /\ fatal' \in BOOLEAN
      BY <1>0, <1>2 DEF ProcessStep, Start, StartRefused, Reconfigure,
     Initializes, Stop, Close, DrainDeadline, Exit, OutboxCrash, PowerLoss, Die,
         OutboxTypeOK, Modes
    <3> QED
      BY <3>1, <3>2, <3>3
  <2>2. late' \subseteq Events \X Bytes
    BY <1>0, <1>2 DEF ProcessStep, Start, StartRefused, Reconfigure,
     Initializes, Stop, Close, DrainDeadline, Exit, OutboxCrash, PowerLoss, Die,
       Abandon, OutboxTypeOK, TaskState, Busy
  <2>3. /\ tracks' \in [Events -> {"active", "staging", "replaced", "finalized"}]
        /\ UNCHANGED <<accepted, media, published, unflushed>>
    BY <1>0, <1>2 DEF ProcessStep, Start, StartRefused, Reconfigure,
     Initializes, Stop, Close, DrainDeadline, Exit, OutboxCrash, PowerLoss, Die,
       OutboxTypeOK, outside
  <2> QED
    BY <1>0, <1>2, <2>1, <2>2, <2>3, TaskStep, FilesStep DEF OutboxTypeOK, TaskState
<1>3. ASSUME NEW e \in Events, StageStep(e), OutboxNext PROVE OutboxTypeOK'
  <2>1. /\ UNCHANGED <<boot, capacity, late, media, published>> /\ mode' \in Modes
        /\ fatal' \in BOOLEAN /\ outboxFaults' \in 0..MaxOutboxFaults
        /\ accepted' \subseteq Events /\ unflushed' \subseteq Events
    BY <1>0, <1>3 DEF StageStep, Tamper, StageBegin, StageRefused, StageExisting, StageConflict,
       StageFull, StageReplace, StageFlush, StageError, StageFlushError, StageFailed, StageAccepted,
       OutboxFault, OutboxTypeOK, Modes, outside
  <2>2. tracks' \in [Events -> {"active", "staging", "replaced", "finalized"}]
    BY <1>0, <1>3 DEF StageStep, Tamper, StageBegin, StageRefused, StageExisting, StageConflict,
       StageFull, StageReplace, StageFlush, StageError, StageFlushError, StageFailed, StageAccepted,
       OutboxTypeOK
  <2> QED
    BY <1>0, <1>3, <2>1, <2>2, TaskStep, FilesStep DEF OutboxTypeOK, TaskState
<1>4. CASE DeliverStep /\ OutboxNext
  <2>1. /\ UNCHANGED <<boot, capacity, tracks, accepted, unflushed>> /\ mode' \in Modes
        /\ fatal' \in BOOLEAN /\ outboxFaults' \in 0..MaxOutboxFaults
    <3>1. UNCHANGED <<boot, capacity, tracks, accepted, unflushed>>
      BY <1>4 DEF DeliverStep, Deliver, Wake, Scan, Load, LoadGone, LoadCorrupt, PutMedia,
         PublishEvent, RemoveEntry, RemoveCorrupt, DeliveryError, RemoveUnflushed, RemoveTimeout, LateRemove,
         taskOnly
    <3>2. outboxFaults' \in 0..MaxOutboxFaults
      BY <1>0, <1>4 DEF DeliverStep, Deliver, Wake, Scan, Load, LoadGone, LoadCorrupt, PutMedia,
         PublishEvent, RemoveEntry, RemoveCorrupt, DeliveryError, RemoveUnflushed, RemoveTimeout, LateRemove,
         OutboxFault, OutboxTypeOK
    <3>3. mode' \in Modes /\ fatal' \in BOOLEAN
      BY <1>0, <1>4 DEF DeliverStep, Deliver, Wake, Scan, Load, LoadGone, LoadCorrupt, PutMedia,
         PublishEvent, RemoveEntry, RemoveCorrupt, DeliveryError, RemoveUnflushed, RemoveTimeout, LateRemove,
         OutboxTypeOK, Modes, EndPass, Defer, Corrupted, LoadNext
    <3> QED
      BY <3>1, <3>2, <3>3
  <2>2. media' \subseteq Events /\ published' \subseteq Events
    BY <1>0, <1>4 DEF DeliverStep, Deliver, Wake, Scan, Load, LoadGone, LoadCorrupt, PutMedia,
       PublishEvent, RemoveEntry, RemoveCorrupt, DeliveryError, RemoveUnflushed, RemoveTimeout, LateRemove,
       outside, OutboxTypeOK, Busy
  <2>3. late' \subseteq Events \X Bytes
    BY <1>0, <1>4 DEF DeliverStep, Deliver, Wake, Scan, Load, LoadGone, LoadCorrupt, PutMedia,
       PublishEvent, RemoveEntry, RemoveCorrupt, DeliveryError, RemoveUnflushed, RemoveTimeout, LateRemove,
       OutboxTypeOK, TaskState, Busy
  <2> QED
    BY <1>0, <1>4, <2>1, <2>2, <2>3, TaskStep, FilesStep DEF OutboxTypeOK, TaskState
<1> QED
  BY <1>1, <1>2, <1>3, <1>4, Steps
------------------------------------------------------------------------------
(* A new or continued pass, whose paths before the current one are published. *)
LEMMA PassStep == OutboxInv /\ [OutboxNext]_outboxVars => PassIsOrdered'
<1> SUFFICES ASSUME OutboxInv, [OutboxNext]_outboxVars PROVE PassIsOrdered'
  OBVIOUS
<1>0. PassIsOrdered /\ task \in TaskState /\ Entries \in SUBSET Events
  BY TaskWrites DEF OutboxInv, Entries
<1>1. published \subseteq published'
  BY DEF outboxVars, OutboxNext, Start, StartRefused, Reconfigure,
     Initializes, Stop, Close, DrainDeadline, Exit, OutboxCrash, PowerLoss, Die,
     Tamper, StageBegin, StageRefused, Stage, StageExisting, StageConflict, StageFull, StageReplace,
     StageFlush, StageError, StageFlushError, StageFailed, StageAccepted, Deliver, Wake, Scan, Load,
     LoadGone, LoadCorrupt, PutMedia, PublishEvent, RemoveEntry, RemoveCorrupt, DeliveryError,
     RemoveUnflushed, RemoveTimeout, LateRemove, outside
<1>2. ASSUME task' = task PROVE PassIsOrdered'
  BY <1>0, <1>1, <1>2 DEF PassIsOrdered
<1>3. ASSUME task'.pc \notin Busy PROVE PassIsOrdered'
  BY <1>3 DEF PassIsOrdered
<1>4. ASSUME task.pc \in Busy, task'.todo = task.todo, task'.pass = task.pass, task'.cur = task.cur
      PROVE  PassIsOrdered'
  BY <1>0, <1>1, <1>4 DEF PassIsOrdered
<1>5. CASE UNCHANGED outboxVars
  BY <1>2, <1>5 DEF outboxVars
<1>6. CASE ProcessStep
  <2>1. task' = task \/ task'.pc \in {"waiting", "scanning"}
    BY <1>6 DEF ProcessStep, Start, StartRefused, Reconfigure,
     Initializes, Stop, Close, DrainDeadline, Exit, OutboxCrash, PowerLoss, Die,
       IdleTask
  <2> QED
    BY <1>2, <1>3, <2>1 DEF Busy
<1>7. ASSUME NEW e \in Events, StageStep(e) PROVE PassIsOrdered'
  BY <1>2, <1>7 DEF StageStep, Tamper, StageBegin, StageRefused, StageExisting, StageConflict,
     StageFull, StageReplace, StageFlush, StageError, StageFlushError, StageFailed, StageAccepted
<1>8. CASE Scan
  <2>1. CASE task' = IdleTask
    BY <1>3, <2>1 DEF IdleTask, Busy
  <2>2. CASE Entries # {} /\ task' = [task EXCEPT !.pc = "loading", !.todo = Entries,
                                                  !.pass = Entries, !.cur = Oldest(Entries)]
    <3>1. task'.todo = Entries /\ task'.pass = Entries /\ task'.cur = Oldest(Entries)
      BY <1>0, <2>2 DEF TaskState
    <3>2. (task.cur = Oldest(task.todo))' <=> (task'.cur = Oldest(task'.todo))
      BY DEF Oldest
    <3> QED
      BY <2>2, <3>1, <3>2 DEF PassIsOrdered
  <2> QED
    BY <1>8, <2>1, <2>2 DEF Scan, EndPass
<1>9. CASE Load \/ PutMedia \/ PublishEvent
  <2>1. /\ task.pc \in Busy /\ task'.todo = task.todo /\ task'.pass = task.pass /\ task'.cur = task.cur
    BY <1>0, <1>9 DEF Load, PutMedia, PublishEvent, TaskState, Busy
  <2> QED
    BY <1>4, <2>1
<1>10. CASE RemoveEntry
  <2> DEFINE rest == task.todo \ {task.cur}
  <2>1. CASE task' = IdleTask
    BY <1>3, <2>1 DEF IdleTask, Busy
  <2>2. CASE rest # {} /\ LoadNext(rest)
    <3>1. /\ task'.todo = rest /\ task'.pass = task.pass /\ task'.cur = Oldest(rest)
          /\ published' = published
      BY <1>0, <1>10, <2>2 DEF LoadNext, TaskState, RemoveEntry, outside
    <3>2. task.pc = "removing" /\ task.cur \in published
      BY <1>10 DEF RemoveEntry, OutboxInv, RemovedIsDelivered
    <3>3. /\ task.todo \subseteq task.pass
          /\ \A f \in task.pass \ task.todo : f \in published
      BY <1>0, <3>2 DEF PassIsOrdered, Busy
    <3>4. rest \subseteq task.pass /\ \A f \in task.pass \ rest : f \in published
      BY <3>2, <3>3
    <3> QED
      BY <2>2, <3>1, <3>4 DEF PassIsOrdered
  <2> QED
    BY <1>10, <2>1, <2>2 DEF RemoveEntry, EndPass
<1>11. CASE \/ Wake \/ LoadGone \/ LoadCorrupt \/ RemoveCorrupt \/ DeliveryError \/ RemoveUnflushed
            \/ RemoveTimeout \/ LateRemove
  <2>1. task' = task \/ task'.pc \notin Busy
    BY <1>0, <1>11 DEF Wake, LoadGone, LoadCorrupt, RemoveCorrupt, DeliveryError, RemoveUnflushed,
       RemoveTimeout, LateRemove, Defer, Deferred, Corrupted, EndPass, IdleTask, Busy, TaskState
  <2> QED
    BY <1>2, <1>3, <2>1
<1> QED
  BY <1>5, <1>6, <1>7, <1>8, <1>9, <1>10, <1>11, Steps DEF DeliverStep, Deliver

(* An entry is removed after its images and its event, whenever it happens.  *)
LEMMA RemovalStep == OutboxInv /\ [OutboxNext]_outboxVars => RemovedIsDelivered'
<1> SUFFICES ASSUME OutboxInv, [OutboxNext]_outboxVars PROVE RemovedIsDelivered'
  OBVIOUS
<1>0. RemovedIsDelivered /\ task \in TaskState
  BY TaskWrites DEF OutboxInv
<1>1. CASE UNCHANGED outboxVars
  BY <1>0, <1>1 DEF RemovedIsDelivered, outboxVars
<1>2. CASE ProcessStep
  <2>1. /\ UNCHANGED <<media, published>>
        /\ task' = task \/ task'.pc \in {"waiting", "scanning"}
        /\ late' \subseteq late \/ (task.pc = "removing" /\ late' = late \cup {<<task.cur, task.loaded>>})
    BY <1>2 DEF ProcessStep, Start, StartRefused, Reconfigure,
     Initializes, Stop, Close, DrainDeadline, Exit, OutboxCrash, PowerLoss, Die,
       Abandon, outside, IdleTask
  <2> QED
    BY <1>0, <2>1 DEF RemovedIsDelivered
<1>3. ASSUME NEW e \in Events, StageStep(e) PROVE RemovedIsDelivered'
  <2>1. UNCHANGED <<media, published, task, late>>
    BY <1>3 DEF StageStep, Tamper, StageBegin, StageRefused, StageExisting, StageConflict, StageFull,
       StageReplace, StageFlush, StageError, StageFlushError, StageFailed, StageAccepted, outside
  <2> QED
    BY <1>0, <2>1 DEF RemovedIsDelivered
<1>4. CASE \/ Wake \/ Scan \/ Load \/ LoadGone \/ LoadCorrupt \/ RemoveEntry \/ RemoveCorrupt
           \/ DeliveryError \/ RemoveUnflushed \/ RemoveTimeout \/ LateRemove
  <2>1. task' = task \/ task'.pc \notin {"publishing", "removing"}
    <3>0. IdleTask.pc = "waiting"
      BY DEF IdleTask
    <3>1. CASE Wake \/ Load
      BY <1>0, <3>1 DEF Wake, Load, TaskState
    <3>2. CASE Scan \/ RemoveEntry
      <4>1. ASSUME NEW rest, NEW cur
            PROVE  /\ [task EXCEPT !.pc = "loading", !.todo = rest, !.pass = rest, !.cur = cur].pc
                         = "loading"
                   /\ [task EXCEPT !.pc = "loading", !.todo = rest, !.cur = cur, !.loaded = Absent].pc
                         = "loading"
        BY <1>0 DEF TaskState
      <4>2. task' = IdleTask \/ task'.pc = "loading"
        <5>1. \/ task' = IdleTask
              \/ \E rest, cur :
                    \/ task' = [task EXCEPT !.pc = "loading", !.todo = rest, !.pass = rest, !.cur = cur]
                    \/ task' = [task EXCEPT !.pc = "loading", !.todo = rest, !.cur = cur,
                                            !.loaded = Absent]
          BY <3>2 DEF Scan, RemoveEntry, EndPass, LoadNext
        <5> QED
          BY <4>1, <5>1
      <4> QED
        BY <3>0, <4>2
    <3>3. CASE LoadGone \/ DeliveryError \/ RemoveUnflushed \/ RemoveTimeout
      BY <3>3 DEF LoadGone, DeliveryError, RemoveUnflushed, RemoveTimeout, Defer, Deferred, IdleTask
    <3>4. CASE LoadCorrupt \/ RemoveCorrupt
      BY <3>4 DEF LoadCorrupt, RemoveCorrupt, Corrupted, EndPass, IdleTask
    <3>5. CASE LateRemove
      BY <3>5 DEF LateRemove
    <3> QED
      BY <1>4, <3>1, <3>2, <3>3, <3>4, <3>5
  <2>2. late' \subseteq late \/ (task.pc = "removing" /\ late' = late \cup {<<task.cur, task.loaded>>})
    BY <1>4 DEF Wake, Scan, Load, LoadGone, LoadCorrupt, RemoveEntry, RemoveCorrupt, DeliveryError,
       RemoveUnflushed, RemoveTimeout, LateRemove
  <2>3. media \subseteq media' /\ published \subseteq published'
    BY <1>4 DEF Wake, Scan, Load, LoadGone, LoadCorrupt, RemoveEntry, RemoveCorrupt, DeliveryError,
       RemoveUnflushed, RemoveTimeout, LateRemove, outside
  <2> QED
    BY <1>0, <2>1, <2>2, <2>3 DEF RemovedIsDelivered
<1>5. CASE PutMedia \/ PublishEvent
  <2>1. /\ late' = late /\ task'.cur = task.cur
        /\ \/ /\ task'.pc = "publishing" /\ media' = media \cup {task.cur} /\ published' = published
           \/ /\ task.pc = "publishing" /\ media' = media /\ published' = published \cup {task.cur}
    BY <1>0, <1>5 DEF PutMedia, PublishEvent, TaskState
  <2> QED
    BY <1>0, <2>1 DEF RemovedIsDelivered
<1> QED
  BY <1>1, <1>2, <1>3, <1>4, <1>5, Steps DEF DeliverStep, Deliver
------------------------------------------------------------------------------
(* A process that lives has written with its own number.                     *)
LEMMA BootStep == OutboxInv /\ [OutboxNext]_outboxVars => (mode' # "down" => boot' # Absent)
<1> SUFFICES ASSUME OutboxInv, [OutboxNext]_outboxVars, mode' # "down" PROVE boot' # Absent
  OBVIOUS
<1>1. boot \in 0..MaxBoots /\ (mode # "down" => boot # Absent)
  BY DEF OutboxInv, OutboxTypeOK
<1>2. CASE UNCHANGED outboxVars
  BY <1>1, <1>2 DEF outboxVars
<1>3. CASE ProcessStep
  BY <1>1, <1>3 DEF ProcessStep, Start, StartRefused, Reconfigure,
     Initializes, Stop, Close, DrainDeadline, Exit, OutboxCrash, PowerLoss, Die
<1>4. ASSUME NEW e \in Events, StageStep(e) PROVE boot' # Absent
  <2>1. boot' = boot /\ (mode = "down" => mode' = "down")
    BY <1>4 DEF StageStep, Tamper, StageBegin, StageRefused, StageExisting, StageConflict, StageFull,
       StageReplace, StageFlush, StageError, StageFlushError, StageFailed, StageAccepted, OutboxInv,
       EntryIsSafe
  <2> QED
    BY <1>1, <2>1
<1>5. CASE DeliverStep
  <2>1. boot' = boot /\ mode # "down"
    BY <1>5 DEF DeliverStep, Deliver, Wake, Scan, Load, LoadGone, LoadCorrupt, PutMedia, PublishEvent,
       RemoveEntry, RemoveCorrupt, DeliveryError, RemoveUnflushed, RemoveTimeout, LateRemove, taskOnly,
       Delivering
  <2> QED
    BY <1>1, <2>1
<1> QED
  BY <1>2, <1>3, <1>4, <1>5, Steps

(* The process starts, stops and dies: a power failure leaves of an entry    *)
(* what was in the directory or what was on disk.                            *)
LEMMA ProcessKeepsEntries ==
    ASSUME OutboxInv, ProcessStep, NEW e \in Events
    PROVE  EntryIsSafe(e)'
<1>0. EntryIsSafe(e) /\ OutboxTypeOK
  BY DEF OutboxInv
<1>1. UNCHANGED <<accepted, media, published, unflushed>>
  BY DEF ProcessStep, Start, StartRefused, Reconfigure,
     Initializes, Stop, Close, DrainDeadline, Exit, OutboxCrash, PowerLoss, Die, outside
<1>2. CASE Start
  BY <1>0, <1>1, <1>2 DEF Start, Initializes, EntryIsSafe, Delivered, Synced, OutboxTypeOK
<1>7. CASE StartRefused \/ Reconfigure
  <2>1. /\ dir' = dir /\ (disk' = disk \/ disk' = dir)
        /\ UNCHANGED <<tracks, mode>> /\ mode = "down"
    BY <1>7 DEF StartRefused, Reconfigure, Initializes, Synced, files
  <2> QED
    BY <1>0, <1>1, <2>1 DEF EntryIsSafe, Delivered
<1>3. CASE Stop \/ DrainDeadline \/ Exit
  BY <1>0, <1>1, <1>3 DEF Stop, DrainDeadline, Exit, EntryIsSafe, Delivered, files
<1>4. CASE Close
  <2>1. tracks[e] \notin {"staging", "replaced"} /\ UNCHANGED <<dir, disk, tracks>>
        /\ mode # "down" /\ mode' # "down"
    BY <1>4 DEF Close, Staging, files
  <2> QED
    BY <1>0, <1>1, <2>1 DEF EntryIsSafe, Delivered
<1>5. CASE OutboxCrash
  BY <1>0, <1>1, <1>5 DEF OutboxCrash, Die, EntryIsSafe, Delivered, files
<1>6. CASE PowerLoss
  <2>1. /\ dir'[e] \in {dir[e], disk[e]} /\ disk'[e] = dir'[e]
        /\ mode' = "down" /\ tracks'[e] = "active"
    BY <1>6 DEF PowerLoss, Die
  <2> QED
    BY <1>0, <1>1, <2>1 DEF EntryIsSafe, Delivered
<1> QED
  BY <1>2, <1>3, <1>4, <1>5, <1>6, <1>7 DEF ProcessStep

(* A stage: its track is accepted when the entry is flushed, or found with a *)
(* flush behind it or a failed one.                                          *)
LEMMA StageKeepsEntries ==
    ASSUME OutboxInv, NEW c \in Events, StageStep(c), NEW e \in Events
    PROVE  EntryIsSafe(e)'
<1>0. EntryIsSafe(e) /\ EntryIsSafe(c) /\ OutboxTypeOK /\ (mode # "down" => boot # Absent)
  BY DEF OutboxInv
<1>1. UNCHANGED <<media, published>>
  BY DEF StageStep, Tamper, StageBegin, StageRefused, StageExisting, StageConflict, StageFull,
     StageReplace, StageFlush, StageError, StageFlushError, StageFailed, StageAccepted, outside
<1>2. CASE Tamper(c)
  <2>1. /\ UNCHANGED <<tracks, mode, unflushed, accepted>>
        /\ dir'[e] # Absent <=> dir[e] # Absent
        /\ disk[e] # Absent => disk'[e] # Absent
    BY <1>0, <1>2 DEF Tamper, OutboxTypeOK
  <2> QED
    BY <1>0, <1>1, <2>1 DEF EntryIsSafe, Delivered
<1>3. CASE StageBegin(c)
  <2>1. UNCHANGED <<dir, disk, mode, unflushed, accepted>> /\ mode \in {"run", "finalizing"}
        /\ (tracks'[e] = tracks[e] \/ (tracks[e] = "active" /\ tracks'[e] = "staging"))
    BY <1>0, <1>3 DEF StageBegin, OutboxTypeOK, files
  <2> QED
    BY <1>0, <1>1, <2>1 DEF EntryIsSafe, Delivered
<1>4. CASE StageRefused(c) \/ StageConflict(c) \/ StageFull(c) \/ StageError(c)
  <2>1. /\ UNCHANGED <<dir, disk, unflushed, accepted>> /\ mode' \in {"finalizing", "closing"}
        /\ mode # "down" /\ tracks[c] # "replaced"
        /\ (tracks'[e] = tracks[e] \/ (c = e /\ tracks'[e] = "active"))
    BY <1>0, <1>4 DEF StageRefused, StageConflict, StageFull, StageError, StageFailed, OutboxTypeOK,
       files, EntryIsSafe
  <2> QED
    BY <1>0, <1>1, <2>1 DEF EntryIsSafe, Delivered
<1>5. CASE StageExisting(c)
  <2>1. /\ UNCHANGED <<dir, disk, unflushed>> /\ mode # "down" /\ tracks[c] = "staging"
        /\ (mode' = mode \/ mode' = "finalizing") /\ accepted' = accepted \cup {c}
        /\ (IF c = e THEN tracks'[e] = "finalized" ELSE tracks'[e] = tracks[e])
    BY <1>0, <1>5 DEF StageExisting, StageAccepted, OutboxTypeOK, EntryIsSafe
  <2>2. dir[c] # Absent
    BY <1>0, <1>5, <2>1 DEF StageExisting
  <2> QED
    BY <1>0, <1>1, <2>1, <2>2 DEF EntryIsSafe, Delivered
<1>6. CASE StageReplace(c)
  <2>1. /\ UNCHANGED <<disk, mode, unflushed, accepted>> /\ mode # "down" /\ tracks[c] = "staging"
        /\ dir[c] = Absent /\ boot # Absent
        /\ (IF c = e THEN tracks'[e] = "replaced" /\ dir'[e] = boot
                     ELSE tracks'[e] = tracks[e] /\ dir'[e] = dir[e])
    BY <1>0, <1>6 DEF StageReplace, OutboxTypeOK, EntryIsSafe
  <2> QED
    BY <1>0, <1>1, <2>1 DEF EntryIsSafe, Delivered
<1>7. CASE StageFlush(c)
  <2>1. /\ dir' = dir /\ disk' = dir /\ unflushed' = unflushed /\ tracks[c] = "replaced" /\ mode # "down"
        /\ (mode' = mode \/ mode' = "finalizing") /\ accepted' = accepted \cup {c}
        /\ (IF c = e THEN tracks'[e] = "finalized" ELSE tracks'[e] = tracks[e])
    BY <1>0, <1>7 DEF StageFlush, StageAccepted, OutboxTypeOK, EntryIsSafe, Synced
  <2> QED
    BY <1>0, <1>1, <2>1 DEF EntryIsSafe, Delivered
<1>8. CASE StageFlushError(c)
  <2>1. /\ UNCHANGED <<dir, disk, accepted>> /\ unflushed' = unflushed \cup {c}
        /\ tracks[c] = "replaced" /\ mode # "down" /\ mode' \in {"finalizing", "closing"}
        /\ (IF c = e THEN tracks'[e] = "active" ELSE tracks'[e] = tracks[e])
    BY <1>0, <1>8 DEF StageFlushError, StageFailed, OutboxTypeOK, EntryIsSafe, files
  <2> QED
    BY <1>0, <1>1, <2>1 DEF EntryIsSafe, Delivered
<1> QED
  BY <1>2, <1>3, <1>4, <1>5, <1>6, <1>7, <1>8 DEF StageStep

(* The delivery removes what it has delivered, while no stage is between its *)
(* rename and its flush.                                                     *)
LEMMA DeliveryKeepsEntries ==
    ASSUME OutboxInv, DeliverStep, NEW e \in Events
    PROVE  EntryIsSafe(e)'
<1>0. EntryIsSafe(e) /\ OutboxTypeOK /\ RemovedIsDelivered
  BY DEF OutboxInv
<1>1. /\ UNCHANGED <<tracks, accepted, unflushed>>
      /\ media \subseteq media' /\ published \subseteq published'
      /\ mode # "down"
  BY DEF DeliverStep, Deliver, Wake, Scan, Load, LoadGone, LoadCorrupt, PutMedia, PublishEvent, RemoveEntry,
     RemoveCorrupt, DeliveryError, RemoveUnflushed, RemoveTimeout, LateRemove, taskOnly, outside,
     Delivering
<1>2. mode' = mode \/ (mode = "drain" /\ mode' = "exit")
  BY DEF DeliverStep, Deliver, Wake, Scan, Load, LoadGone, LoadCorrupt, PutMedia, PublishEvent, RemoveEntry,
     RemoveCorrupt, DeliveryError, RemoveUnflushed, RemoveTimeout, LateRemove, EndPass, Defer,
     Corrupted, LoadNext
<1>3. CASE UNCHANGED <<dir, disk>>
  BY <1>0, <1>1, <1>2, <1>3 DEF EntryIsSafe, Delivered
<1>4. CASE ~UNCHANGED <<dir, disk>>
  <2>1. PICK r : /\ dir' = [dir EXCEPT ![r] = Absent] /\ (disk' = disk \/ disk' = dir')
                 /\ Unlocked /\ r \in media /\ r \in published
    <3>1. CASE RemoveEntry \/ RemoveUnflushed
      <4>1. /\ dir' = [dir EXCEPT ![task.cur] = Absent] /\ (disk' = disk \/ disk' = dir')
            /\ Unlocked /\ task.pc = "removing"
        BY <1>4, <3>1 DEF RemoveEntry, RemoveUnflushed, Synced, files
      <4> QED
        BY <1>0, <4>1 DEF RemovedIsDelivered
    <3>2. CASE LateRemove
      <4>1. PICK l \in late : dir' = [dir EXCEPT ![l[1]] = Absent] /\ disk' = dir' /\ Unlocked
        BY <1>4, <3>2 DEF LateRemove, Synced, files
      <4> QED
        BY <1>0, <4>1 DEF RemovedIsDelivered
    <3> QED
      BY <1>4, <3>1, <3>2 DEF DeliverStep, Deliver, Wake, Scan, Load, LoadGone, LoadCorrupt, PutMedia,
         PublishEvent, RemoveCorrupt, DeliveryError, RemoveTimeout, files
  <2>2. tracks[e] # "replaced"
    BY <2>1 DEF Unlocked
  <2>3. IF r = e THEN dir'[e] = Absent ELSE dir'[e] = dir[e]
    BY <1>0, <2>1 DEF OutboxTypeOK
  <2> QED
    BY <1>0, <1>1, <1>2, <2>1, <2>2, <2>3 DEF EntryIsSafe, Delivered
<1> QED
  BY <1>3, <1>4

LEMMA EntryStep ==
    ASSUME OutboxInv, [OutboxNext]_outboxVars, NEW e \in Events
    PROVE  EntryIsSafe(e)'
<1>1. CASE UNCHANGED outboxVars
  BY <1>1 DEF OutboxInv, EntryIsSafe, Delivered, outboxVars
<1>2. CASE OutboxNext
  BY <1>2, Steps, ProcessKeepsEntries, StageKeepsEntries, DeliveryKeepsEntries
<1> QED
  BY <1>1, <1>2

LEMMA Inductive == OutboxInv /\ [OutboxNext]_outboxVars => OutboxInv'
BY TypeStep, PassStep, RemovalStep, BootStep, EntryStep DEF OutboxInv

LEMMA OutboxInvariantHolds == OutboxSpec => []OutboxInv
BY InitEstablishes, Inductive, PTL DEF OutboxSpec
------------------------------------------------------------------------------
(* Every reachable state of the outbox is well formed.                       *)
THEOREM OutboxTypeCorrect == OutboxSpec => []OutboxTypeOK
<1>1. OutboxInv => OutboxTypeOK
  BY DEF OutboxInv
<1> QED
  BY <1>1, OutboxInvariantHolds, PTL

(* A finalized track is delivered or its entry is in the directory, whatever *)
(* dies, loses power, times out or is staged again; the exception is an      *)
(* entry whose directory flush failed (stage, _deliver, _remove_entry_sync). *)
THEOREM AcceptedAreKept == OutboxSpec => []AcceptedIsKept
<1>1. OutboxInv => AcceptedIsKept
  BY DEF OutboxInv, OutboxTypeOK, EntryIsSafe, Delivered, AcceptedIsKept
<1> QED
  BY <1>1, OutboxInvariantHolds, PTL

(* No event is published before an older one of the same pass, over failed,  *)
(* deferred and last passes (replay_once).                                   *)
THEOREM OlderGoFirst == OutboxSpec => NoOvertaking
<1> DEFINE InOrder ==
       \A e \in published' \ published, f \in task.pass :
          OccurredAt[f] < OccurredAt[e] => f \in published
<1>1. OutboxInv /\ OutboxNext => InOrder
  <2> SUFFICES ASSUME OutboxInv, OutboxNext, NEW e \in published' \ published, NEW f \in task.pass,
                      OccurredAt[f] < OccurredAt[e]
               PROVE  f \in published
    OBVIOUS
  <2>1. e = task.cur /\ task.pc = "publishing"
    BY DEF OutboxNext, Start, StartRefused, Reconfigure,
     Initializes, Stop, Close, DrainDeadline, Exit, OutboxCrash, PowerLoss, Die, Tamper,
       StageBegin, StageRefused, Stage, StageExisting, StageConflict, StageFull, StageReplace,
       StageFlush, StageError, StageFlushError, StageFailed, StageAccepted, Deliver, Wake, Scan, Load,
       LoadGone, LoadCorrupt, PutMedia, PublishEvent, RemoveEntry, RemoveCorrupt, DeliveryError,
       RemoveUnflushed, RemoveTimeout, LateRemove, outside
  <2>2. /\ task.todo \in SUBSET Events /\ task.pass \in SUBSET Events /\ task.todo # {}
        /\ task.cur = Oldest(task.todo) /\ \A g \in task.pass \ task.todo : g \in published
    BY <2>1, TaskWrites DEF OutboxInv, PassIsOrdered, Busy, TaskState
  <2>3. /\ Oldest(task.todo) \in task.todo
        /\ \A g \in task.todo : OccurredAt[Oldest(task.todo)] <= OccurredAt[g]
    BY <2>2, OldestIsFirst
  <2>4. OccurredAt[f] \in Nat /\ OccurredAt[e] \in Nat
    BY <2>1, <2>2, <2>3, OrderAssumption
  <2>5. f \notin task.todo
    BY <2>1, <2>2, <2>3, <2>4
  <2> QED
    BY <2>2, <2>5
<1>2. OutboxInv /\ [OutboxNext]_outboxVars => [InOrder]_outboxVars
  BY <1>1
<1> QED
  BY <1>2, OutboxInvariantHolds, PTL DEF OutboxSpec, NoOvertaking
===============================================================================
