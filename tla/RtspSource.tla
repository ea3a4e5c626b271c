------------------------------ MODULE RtspSource ------------------------------
(***************************************************************************)
(* The RTSP source of a camera process: a decoder thread that opens the    *)
(* camera, reads it and opens it again when the connection is lost, and    *)
(* the latest-frame queue it shares with its consumer.  close() comes from *)
(* the consumer's thread while the decoder may be anywhere, and waits for  *)
(* it only so long.                                                        *)
(*                                                                         *)
(* A step of the decoder ends where it holds the lock or calls the camera. *)
(* A frame is the time and the stream epoch it is stamped with: what is    *)
(* seen on it is decided by whoever looks at it.                           *)
(***************************************************************************)
EXTENDS Integers, Sequences, FiniteSets

CONSTANTS
    QueueSize,      \* rtsp.queue_size
    MaxConnections, \* bound: connections the camera accepts
    MaxWallTime         \* bound: ticks of the wall clock

ASSUME SourceAssumption ==
    /\ QueueSize \in Nat \ {0}
    /\ MaxConnections \in Nat \ {0}
    /\ MaxWallTime \in Nat

VARIABLES
    now,        \* the wall clock
    stop,       \* _stop
    queue,      \* _queue
    cameraStatus,     \* _status
    epoch,      \* _stream_epoch
    capture,    \* _capture, by number; 0 for None
    opened,     \* captures the factory returned so far: the decoder's own is the last
    open,       \* those of them that are not released
    decoder,    \* where the decoder thread is
    frame,      \* the frame it has stamped and not yet queued
    crashed,    \* _terminal_error
    closing     \* where close() is
sourceVars == <<now, stop, queue, cameraStatus, epoch, capture, opened, open, decoder,
                frame, crashed, closing>>
------------------------------------------------------------------------------
Epochs == 0..(MaxConnections - 1)
Frame == [at : 0..MaxWallTime, epoch : Epochs]
NoFrame == [at |-> 0, epoch |-> 0]

SourceTypeOK ==
    /\ now \in 0..MaxWallTime
    /\ stop \in BOOLEAN /\ crashed \in BOOLEAN
    /\ queue \in Seq(Frame) /\ Len(queue) <= QueueSize
    /\ cameraStatus \in {"CONNECTING", "ONLINE", "OFFLINE", "STOPPED"}
    /\ epoch \in Epochs
    /\ opened \in 0..MaxConnections
    /\ capture \in 0..opened /\ open \subseteq 1..opened
    /\ decoder \in {"new", "top", "opening", "opened", "reading", "stamped", "lost",
                    "offline", "leaving", "ended"}
    /\ frame \in Frame
    /\ closing \in {"no", "release", "join", "abandoned", "joined"}

SourceInit ==
    /\ now = 0
    /\ stop = FALSE /\ crashed = FALSE
    /\ queue = <<>>
    /\ cameraStatus = "CONNECTING"
    /\ epoch = 0
    /\ capture = 0 /\ opened = 0 /\ open = {}
    /\ decoder = "new"
    /\ frame = NoFrame
    /\ closing = "no"

(* An iterator of frames() starts the thread, once.                          *)
StartDecoder ==
    /\ decoder = "new" /\ closing = "no"
    /\ decoder' = "top"
    /\ UNCHANGED <<now, stop, queue, cameraStatus, epoch, capture, opened, open, frame,
                   crashed, closing>>

(* Before another attempt a delay passes or _stop ends it.                   *)
Connect ==
    /\ decoder = "top"
    /\ IF stop THEN decoder' = "leaving" /\ UNCHANGED cameraStatus
               ELSE decoder' = "opening" /\ cameraStatus' = "CONNECTING"
    /\ UNCHANGED <<now, stop, queue, epoch, capture, opened, open, frame, crashed, closing>>

(* The factory fails or returns a capture that is not open.                  *)
OpenFails ==
    /\ decoder = "opening"
    /\ decoder' = "top" /\ cameraStatus' = "OFFLINE"
    /\ UNCHANGED <<now, stop, queue, epoch, capture, opened, open, frame, crashed, closing>>

OpenSucceeds ==
    /\ decoder = "opening" /\ opened < MaxConnections
    /\ decoder' = "opened"
    /\ opened' = opened + 1 /\ open' = open \cup {opened'}
    /\ UNCHANGED <<now, stop, queue, cameraStatus, epoch, capture, frame, crashed, closing>>

(* Every connection but the first is a new stream epoch.                     *)
InstallCapture ==
    /\ decoder = "opened"
    /\ decoder' = "reading"
    /\ capture' = opened /\ epoch' = opened - 1
    /\ cameraStatus' = "ONLINE"
    /\ UNCHANGED <<now, stop, queue, opened, open, frame, crashed, closing>>

(* A frame between two samples is only counted.                              *)
ReadFrame ==
    /\ decoder = "reading" /\ ~stop /\ opened \in open
    /\ decoder' = "stamped" /\ frame' = [at |-> now, epoch |-> epoch]
    /\ UNCHANGED <<now, stop, queue, cameraStatus, epoch, capture, opened, open, crashed, closing>>

Enqueue ==
    /\ decoder = "stamped"
    /\ queue' = Append(IF Len(queue) >= QueueSize THEN Tail(queue) ELSE queue, frame)
    /\ decoder' = "reading" /\ frame' = NoFrame
    /\ UNCHANGED <<now, stop, cameraStatus, epoch, capture, opened, open, crashed, closing>>

ReadFails ==
    /\ decoder = "reading"
    /\ decoder' = "lost"
    /\ UNCHANGED <<now, stop, queue, cameraStatus, epoch, capture, opened, open, frame,
                   crashed, closing>>

(* What fails while a frame is copied is not caught per read: the thread     *)
(* ends.                                                                     *)
DecoderCrash ==
    /\ decoder = "stamped"
    /\ decoder' = "leaving" /\ crashed' = TRUE /\ frame' = NoFrame
    /\ UNCHANGED <<now, stop, queue, cameraStatus, epoch, capture, opened, open, closing>>

Release ==
    /\ decoder = "lost"
    /\ open' = open \ {opened}
    /\ capture' = IF capture = opened THEN 0 ELSE capture
    /\ decoder' = IF stop THEN "top" ELSE "offline"
    /\ UNCHANGED <<now, stop, queue, cameraStatus, epoch, opened, frame, crashed, closing>>

ConnectionLost ==
    /\ decoder = "offline"
    /\ cameraStatus' = "OFFLINE" /\ decoder' = "top"
    /\ UNCHANGED <<now, stop, queue, epoch, capture, opened, open, frame, crashed, closing>>

(* Slips: the thread ends and leaves its capture open, or its consumer alone. *)
BugDecoderEndsOpen ==
    /\ decoder = "leaving"
    /\ decoder' = "ended"
    /\ capture' = 0
    /\ stop' = TRUE /\ cameraStatus' = "STOPPED"
    /\ UNCHANGED <<now, queue, epoch, opened, open, frame, crashed, closing>>

BugDecoderEndsQuietly ==
    /\ decoder = "leaving"
    /\ decoder' = "ended"
    /\ open' = open \ {capture} /\ capture' = 0
    /\ cameraStatus' = "STOPPED"
    /\ UNCHANGED <<now, stop, queue, epoch, opened, frame, crashed, closing>>

DecoderEnds ==
    /\ decoder = "leaving"
    /\ decoder' = "ended"
    /\ open' = open \ {capture} /\ capture' = 0
    /\ stop' = TRUE /\ cameraStatus' = "STOPPED"
    /\ UNCHANGED <<now, queue, epoch, opened, frame, crashed, closing>>

Decode == \/ Connect \/ OpenFails \/ OpenSucceeds \/ InstallCapture
          \/ ReadFrame \/ Enqueue \/ ReadFails \/ DecoderCrash
          \/ Release \/ ConnectionLost \/ DecoderEnds
------------------------------------------------------------------------------
(* A signal, or close().                                                     *)
RequestStop ==
    /\ ~stop
    /\ stop' = TRUE
    /\ UNCHANGED <<now, queue, cameraStatus, epoch, capture, opened, open, decoder, frame,
                   crashed, closing>>

(* The consumer's turn in frames(): the newest frame, and those before it    *)
(* are dropped; a heartbeat when none came in time.                          *)
NextItem ==
    IF queue = <<>> THEN [image |-> FALSE, at |-> now, epoch |-> epoch]
    ELSE LET newest == queue[Len(queue)]
         IN  [image |-> TRUE, at |-> newest.at, epoch |-> newest.epoch]

TakeItem ==
    /\ ~stop
    /\ queue' = <<>>
    /\ UNCHANGED <<now, stop, cameraStatus, epoch, capture, opened, open, decoder, frame,
                   crashed, closing>>

CloseBegins ==
    /\ closing = "no"
    /\ closing' = "release" /\ stop' = TRUE
    /\ UNCHANGED <<now, queue, cameraStatus, epoch, capture, opened, open, decoder, frame, crashed>>

(* The capture close() found under the lock; it may be the last one's.       *)
CloseReleases ==
    /\ closing = "release"
    /\ closing' = "join"
    /\ open' = open \ {capture}
    /\ UNCHANGED <<now, stop, queue, cameraStatus, epoch, capture, opened, decoder, frame, crashed>>

(* thread.join returns with the thread or with shutdown_join_seconds.        *)
CloseEnds ==
    /\ closing = "join"
    /\ closing' = IF decoder = "ended" THEN "joined" ELSE "abandoned"
    /\ capture' = 0 /\ cameraStatus' = "STOPPED"
    /\ UNCHANGED <<now, stop, queue, epoch, opened, open, decoder, frame, crashed>>

WallTick ==
    /\ now < MaxWallTime /\ closing = "no"
    /\ now' = now + 1
    /\ UNCHANGED <<stop, queue, cameraStatus, epoch, capture, opened, open, decoder, frame,
                   crashed, closing>>
==============================================================================
