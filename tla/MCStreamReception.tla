-------------------------- MODULE MCStreamReception --------------------------
(* Tracks and streams for StreamReception.                                 *)
EXTENDS Integers, Sequences

CONSTANTS
  Times, PlaybackStart, Streams, FirstTimestamps, SeqNumMod, TimestampMod,
  PROBATIONCOUNT, MAXPROBATIONPACKETS, GapLimit

VARIABLES
  packets, nextSeqNum, nextTimestamp, lastTime, stream, copies,
  validated, packetlist, sentdata, probation, prevseqnr, numcycles, exthighseqnr,
  loop, isRunning, hasInput, beginTimestamp, lastTimestamp, lastSeqNum, syncTime, decoded

Stream == INSTANCE StreamReception WITH stage <- loop, RTP_PROBATIONCOUNT <- PROBATIONCOUNT

ASSUME StreamAssumption == Stream!Constants

StreamSpec == Stream!Spec
-----------------------------------------------------------------------------
\* Durations are even, so an even first timestamp never comes to 2^32 - 1.
Varying == <<0, 2, 6, 8, 12>>

OneStream(seq, known, reorders, atMost) ==
  [firstSeqNum |-> seq, known |-> known, reorders |-> reorders, copies |-> atMost]

\* Sequence numbers that stay below 16 while the source is on probation, ones
\* that wrap when it is known already, and a network that reorders.
AllStreams ==
  {OneStream(0, FALSE, FALSE, 2), OneStream(3, FALSE, FALSE, 2),
   OneStream(13, TRUE, FALSE, 2), OneStream(14, TRUE, FALSE, 2), OneStream(3, FALSE, TRUE, 1)}
-----------------------------------------------------------------------------
(* The properties of StreamReception.                                      *)

\* The decoder is given the stream in its order, and told to begin anew only where
\* it has a gap (ReceiverSession.cpp:68 to 110).
DecoderGetsStream == Stream!DecoderGetsStream

\* As long as the network keeps the order, every frame is scheduled within the duration
\* of one frame of the time the sender means it to be played (ReceiverSession.cpp:105, 110).
WithinOneFrame == Stream!WithinOneFrame

\* When the end marker has been taken the receive loop ends, although every packet of a
\* batch overwrites hasInput (ReceiverSession.cpp:76).
EndMarkerEndsLoop == Stream!EndMarkerEndsLoop
=============================================================================
