----------------------------- MODULE ReceiverDecoder -----------------------------
(***************************************************************************)
(* The network thread of a receiver, ReceiverSession::RunNetwork, from its *)
(* first packet to the end of the thread, with the helpers of decoder.c it *)
(* feeds the codec with.  The poll thread queues packets beside it, except *)
(* while it holds the source lock; the codec works beside it on a fixed    *)
(* number of buffers; the application may stop it at any time.             *)
(*                                                                         *)
(* Packets are known by their index, the end marker is the last.  They are *)
(* queued in order, and any of them may have been lost (StreamReception is *)
(* about how they are ordered).  A frame larger than an input buffer takes *)
(* two.  The codec is external: it takes pieces in order and gives one     *)
(* output for each.                                                        *)
(***************************************************************************)
EXTENDS Integers, Sequences, FiniteSets

CONSTANTS
  Frames,         \* number of frames of the track
  Large,          \* frames that do not fit into one input buffer
  InputBuffers, OutputBuffers,
  MaxGap          \* SECOND_MICRO/20, in times of a frame

ASSUME DecoderAssumption ==
  /\ Frames \in Nat \ {0} /\ Large \subseteq 0 .. Frames - 1
  /\ InputBuffers \in Nat \ {0} /\ OutputBuffers \in Nat \ {0} /\ MaxGap \in Nat

VARIABLES
  stage,        \* where the thread is
  isRunning,
  codecMade,    \* codec # NULL
  nextIndex,    \* first packet the network has not brought or lost
  packetlist,   \* packets queued for the thread
  hasInput, hasOutput, status,
  lastIndex,    \* packet taken last, -1 before the first; stands for lastSeqNum
                \* and lastTimestamp
  rest,         \* pieces of the packet in hand that are not enqueued
  codecIn, codecOut,   \* pieces in the buffers of the codec
  flushed,      \* the codec has been flushed
  lastInfo,     \* what the info of the last dequeue was: "written" by the codec,
                \* "unwritten", or of a buffer whose release was an "error"
  endQueued     \* the codec has been given the end of the stream

packetVars == <<codecMade, nextIndex, packetlist>>
codecVars == <<codecIn, codecOut, flushed, endQueued>>
loopVars == <<hasInput, status, lastIndex, rest>>
outputVars == <<hasOutput, lastInfo>>
vars == <<stage, isRunning, packetVars, codecVars, loopVars, outputVars>>

EndMarker == Frames
NoPacket == -1

Piece == [index : 0 .. EndMarker, part : 1 .. 2]
End == [index |-> EndMarker, part |-> 1]      \* AMEDIACODEC_BUFFER_FLAG_END_OF_STREAM

Pieces(k) ==
  IF k \in Large THEN <<[index |-> k, part |-> 1], [index |-> k, part |-> 2]>>
  ELSE <<[index |-> k, part |-> 1]>>

\* StartReceiving makes the codec of the default format, if it can.
Init ==
  /\ stage = "hi" /\ isRunning = TRUE
  /\ codecMade \in BOOLEAN /\ nextIndex = 0 /\ packetlist = <<>>
  /\ hasInput = TRUE /\ hasOutput = TRUE /\ status = "ok"
  /\ lastIndex = NoPacket /\ rest = <<>>
  /\ codecIn = <<>> /\ codecOut = <<>> /\ flushed = FALSE /\ endQueued = FALSE
  /\ lastInfo = "written"
-----------------------------------------------------------------------------
(* Beside the thread: the application, the poll thread and the codec.      *)

Stop ==
  /\ isRunning /\ isRunning' = FALSE
  /\ UNCHANGED <<stage, packetVars, codecVars, loopVars, outputVars>>

\* The poll thread is there until BYEDestroy deletes it, and waits while the
\* thread has the source lock.
Polling == stage \in {"hi", "codec", "start", "receive"}

\* OnAPPPacket only sets a format when there is none.
SetFormat ==
  /\ Polling /\ ~codecMade /\ codecMade' = TRUE
  /\ UNCHANGED <<stage, isRunning, nextIndex, packetlist, codecVars, loopVars, outputVars>>

Deliver(k) ==
  /\ Polling /\ k >= nextIndex /\ nextIndex' = k + 1
  /\ packetlist' = Append(packetlist, k)
  /\ UNCHANGED <<stage, isRunning, codecMade, codecVars, loopVars, outputVars>>

\* AMediaCodec_start to AMediaCodec_stop.
Started == stage \in {"receive", "fetch", "enqueue", "dequeue", "bye", "drain"}

Decode ==
  /\ Started /\ codecIn # <<>> /\ Len(codecOut) < OutputBuffers
  /\ codecOut' = Append(codecOut, Head(codecIn)) /\ codecIn' = Tail(codecIn)
  /\ UNCHANGED <<stage, isRunning, packetVars, flushed, endQueued, loopVars, outputVars>>
-----------------------------------------------------------------------------
(* RunNetwork up to the first packet.                                      *)

SayHi ==
  /\ stage = "hi" /\ stage' = "codec"
  /\ UNCHANGED <<isRunning, packetVars, codecVars, loopVars, outputVars>>

AwaitCodec ==
  /\ stage = "codec" /\ (codecMade \/ ~isRunning)
  /\ stage' = IF isRunning THEN "start" ELSE "ended"
  /\ UNCHANGED <<isRunning, packetVars, codecVars, loopVars, outputVars>>

\* The codec may refuse to start.
StartCodec ==
  /\ stage = "start" /\ stage' \in {"receive", "ended"}
  /\ UNCHANGED <<isRunning, packetVars, codecVars, loopVars, outputVars>>
-----------------------------------------------------------------------------
(* The receive loop.                                                       *)

Receives == hasInput /\ isRunning

BeginDataAccess ==
  /\ stage = "receive" /\ Receives
  /\ stage' = "fetch"
  /\ UNCHANGED <<isRunning, packetVars, codecVars, loopVars, outputVars>>

EndReceiving ==
  /\ stage = "receive" /\ ~Receives
  /\ stage' = "bye"
  /\ UNCHANGED <<isRunning, packetVars, codecVars, loopVars, outputVars>>

EndDataAccess ==
  /\ stage = "fetch" /\ packetlist = <<>>
  /\ stage' = "receive"
  /\ UNCHANGED <<isRunning, packetVars, codecVars, loopVars, outputVars>>

\* Packet k carries the time of the frame before it.
Timestamp(k) == IF k = 0 THEN 0 ELSE k - 1

\* The thread flushes the codec, before it enqueues, when packets are missing
\* and so is more than MaxGap.
Flushes(k) ==
  /\ lastIndex # NoPacket /\ k # lastIndex + 1
  /\ Timestamp(k) - Timestamp(lastIndex) > MaxGap

GetNextPacket ==
  /\ stage = "fetch" /\ packetlist # <<>>
  /\ LET k == Head(packetlist) IN
       /\ hasInput' = (k # EndMarker)
       /\ lastIndex' = k /\ rest' = Pieces(k)
       /\ IF Flushes(k) THEN codecIn' = <<>> /\ codecOut' = <<>> /\ flushed' = TRUE
                        ELSE UNCHANGED <<codecIn, codecOut, flushed>>
  /\ packetlist' = Tail(packetlist) /\ stage' = "enqueue"
  /\ UNCHANGED <<isRunning, codecMade, nextIndex, endQueued, status, outputVars>>
-----------------------------------------------------------------------------
(* decoder_enqueueBuffer.  What it returns is looked at only when it was   *)
(* given a frame.                                                          *)

Returns(result) ==
  /\ rest' = <<>> /\ stage' = "dequeue"
  /\ IF hasInput THEN status' = result /\ hasInput' = (result = "ok")
                 ELSE UNCHANGED <<status, hasInput>>

QueueInputBuffer ==
  /\ stage = "enqueue" /\ Len(codecIn) < InputBuffers
  /\ codecIn' = Append(codecIn, Head(rest))
  /\ endQueued' = (endQueued \/ Head(rest) = End)
  /\ IF Len(rest) > 1 THEN rest' = Tail(rest) /\ UNCHANGED <<stage, status, hasInput>>
                      ELSE Returns("ok")
  /\ UNCHANGED <<isRunning, packetVars, codecOut, flushed, lastIndex, outputVars>>

\* No buffer for 5 ms: what is left of the packet is dropped, and taken for
\* enqueued.
NoInputBuffer ==
  /\ stage = "enqueue" /\ Len(codecIn) = InputBuffers
  /\ Returns("ok")
  /\ UNCHANGED <<isRunning, packetVars, codecVars, lastIndex, outputVars>>

\* A codec that was flushed between the pieces of a frame may report errors.
QueueInputBufferFails ==
  /\ stage = "enqueue" /\ Len(codecIn) < InputBuffers /\ flushed
  /\ Returns("error")
  /\ UNCHANGED <<isRunning, packetVars, codecVars, lastIndex, outputVars>>
-----------------------------------------------------------------------------
(* decoder_dequeueBuffer, after each packet and while draining.  The info  *)
(* is on the stack and only the codec writes it: without an output its     *)
(* flags are what happens to be there.                                     *)

\* Mutated form: the last frame is taken for the end.
EndFlagEarly(piece) == piece.index >= EndMarker - 1

\* info.flags & AMEDIACODEC_BUFFER_FLAG_END_OF_STREAM
EndFlag(piece) == piece = End

DequeueOutput ==
  /\ codecOut # <<>>
  /\ codecOut' = Tail(codecOut)
  /\ \/ hasOutput' = ~EndFlag(Head(codecOut)) /\ lastInfo' = "written"
     \/ flushed /\ hasOutput' = FALSE /\ lastInfo' = "error"

DequeueNothing ==
  /\ codecOut = <<>>
  /\ hasOutput' \in BOOLEAN
  /\ lastInfo' = "unwritten"
  /\ UNCHANGED codecOut

Dequeue ==
  /\ DequeueOutput \/ DequeueNothing
  /\ UNCHANGED <<isRunning, packetVars, codecIn, flushed, endQueued, loopVars>>

DequeueBuffer ==
  /\ stage = "dequeue" /\ Dequeue
  /\ stage' = "fetch"
-----------------------------------------------------------------------------
(* After the last packet.                                                  *)

BYEDestroy ==
  /\ stage = "bye" /\ stage' = "drain"
  /\ UNCHANGED <<isRunning, packetVars, codecVars, loopVars, outputVars>>

Drains == hasOutput /\ status = "ok" /\ isRunning

Drain ==
  /\ stage = "drain" /\ Drains /\ Dequeue
  /\ UNCHANGED stage

StopCodec ==
  /\ stage = "drain" /\ ~Drains
  /\ stage' = "play"
  /\ UNCHANGED <<isRunning, packetVars, codecVars, loopVars, outputVars>>

\* The thread monitors the player until it is stopped.
StopPlayback ==
  /\ stage = "play" /\ ~isRunning
  /\ stage' = "ended"
  /\ UNCHANGED <<isRunning, packetVars, codecVars, loopVars, outputVars>>

Thread ==
  \/ SayHi \/ AwaitCodec \/ StartCodec
  \/ BeginDataAccess \/ EndReceiving \/ EndDataAccess \/ GetNextPacket
  \/ QueueInputBuffer \/ NoInputBuffer \/ QueueInputBufferFails \/ DequeueBuffer
  \/ BYEDestroy \/ Drain \/ StopCodec \/ StopPlayback

Next ==
  \/ Stop \/ SetFormat \/ Decode \/ Thread
  \/ \E k \in 0 .. EndMarker : Deliver(k)

\* The system runs the thread, and the codec decodes what it was given.  That a
\* flag nobody wrote ends the draining is not assumed.
Spec ==
  /\ Init /\ [][Next]_vars
  /\ WF_vars(Thread /\ (stage = "drain" /\ Drains => codecOut # <<>>)) /\ WF_vars(Decode)
-----------------------------------------------------------------------------
TypeOK ==
  /\ stage \in {"hi", "codec", "start", "receive", "fetch", "enqueue", "dequeue", "bye",
                "drain", "play", "ended"}
  /\ isRunning \in BOOLEAN /\ codecMade \in BOOLEAN
  /\ nextIndex \in 0 .. EndMarker + 1 /\ packetlist \in Seq(0 .. EndMarker)
  /\ hasInput \in BOOLEAN /\ hasOutput \in BOOLEAN /\ status \in {"ok", "error"}
  /\ lastIndex \in NoPacket .. EndMarker /\ rest \in Seq(Piece)
  /\ codecIn \in Seq(Piece) /\ Len(codecIn) <= InputBuffers
  /\ codecOut \in Seq(Piece) /\ Len(codecOut) <= OutputBuffers
  /\ flushed \in BOOLEAN /\ endQueued \in BOOLEAN
  /\ lastInfo \in {"written", "unwritten", "error"}

EndIn(buffers) == \E i \in DOMAIN buffers : buffers[i] = End
EndLast(buffers) == \A i \in DOMAIN buffers : buffers[i] = End => i = Len(buffers)

\* What the drain loop is for (ReceiverSession.cpp:139): a thread that goes
\* over to playing because the codec said it was done, and not because of an
\* error, of being stopped or of a flag nobody wrote, leaves nothing of the
\* track in the codec.
AllHeardAtEnd ==
  stage = "play" /\ isRunning /\ status = "ok" /\ lastInfo = "written" =>
    endQueued /\ codecIn = <<>> /\ codecOut = <<>>

\* The end of the stream is the last the codec is given: nothing is queued
\* behind it and no flush throws it away, so that draining has an end to wait for.
EndStaysLast ==
  endQueued => /\ ~hasOutput \/ EndIn(codecIn) \/ EndIn(codecOut)
               /\ EndLast(codecIn) /\ EndLast(codecOut)
               /\ EndIn(codecOut) => codecIn = <<>>

\* A stopped thread ends, wherever it was: AudioCore joins it before it
\* deletes the session (AudioStreamSession::Stop).
StopEnds == ~isRunning ~> stage = "ended"
=============================================================================
