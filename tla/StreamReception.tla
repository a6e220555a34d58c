---------------------------- MODULE StreamReception ----------------------------
(***************************************************************************)
(* One stream from sender to receiver: SenderSession::RunNetwork puts each *)
(* frame of the track into an RTP packet, the network carries it, jrtplib  *)
(* of the receiver validates the source and queues its packets, and        *)
(* ReceiverSession::RunNetwork hands them to the decoder, deciding when    *)
(* each is to be played.                                                   *)
(*                                                                         *)
(* Packets are known by their index in the stream; the last one is the end *)
(* marker.  Times are in ticks.  A packet that is never delivered is lost; *)
(* a receiver that joins late has lost the packets before.  The decoder is *)
(* only an error code here.                                                *)
(***************************************************************************)
EXTENDS Integers, Sequences, FiniteSets, SequencesExt

CONSTANTS
  Times,                \* presentation time of each frame of the track
  PlaybackStart,        \* playbackStartUs
  Streams,              \* first sequence number the sender draws, whether its CNAME
                        \* arrives before the stream, whether the network reorders,
                        \* how often it may deliver a packet
  FirstTimestamps,      \* first timestamps the sender may draw
  SeqNumMod,            \* 2^16: sequence numbers are uint16_t
  TimestampMod,         \* 2^32: RTP timestamps are uint32_t
  RTP_PROBATIONCOUNT,
  MAXPROBATIONPACKETS,  \* RTPINTERNALSOURCEDATA_MAXPROBATIONPACKETS
  GapLimit              \* SECOND_MICRO/20

EndMarker == Len(Times)             \* index of the end marker, frames are 0 .. EndMarker - 1
Time(k) == Times[k + 1]
Duration(k) == Time(k + 1) - Time(k)

\* What they are.
Constants ==
  /\ Times \in Seq(Nat) /\ Len(Times) > 1
  /\ \A j, k \in 0 .. EndMarker - 1 : j < k => Time(j) < Time(k)
  /\ SeqNumMod \in Nat \ {0} /\ TimestampMod \in Nat \ {0}
  /\ \A k \in 0 .. EndMarker - 1 : Time(k) < TimestampMod
  /\ Streams \subseteq [firstSeqNum : 0 .. SeqNumMod - 1, known : BOOLEAN, reorders : BOOLEAN,
                 copies : Nat]
  /\ FirstTimestamps \subseteq 0 .. TimestampMod - 1
  /\ PlaybackStart \in Nat \ {0} /\ GapLimit \in Nat
  /\ RTP_PROBATIONCOUNT \in Nat /\ MAXPROBATIONPACKETS \in Nat \ {0}

VARIABLES
  \* sender
  packets,       \* what it has sent
  nextSeqNum, nextTimestamp, lastTime,
  \* network
  stream,        \* the member of Streams this behaviour is about
  copies,        \* of each packet, the copies under way
  \* the receiver's entry for the sender
  validated, packetlist,
  sentdata, probation, prevseqnr, numcycles, exthighseqnr,
  \* the receiver's network thread
  stage, isRunning, hasInput,
  beginTimestamp, lastTimestamp, lastSeqNum,
  syncTime,      \* current_syncSystemTimeUs, 0 until set
  decoded        \* what the decoder was given

senderVars == <<stream, packets, nextSeqNum, nextTimestamp, lastTime>>
statsVars == <<sentdata, probation, prevseqnr, numcycles, exthighseqnr>>
entryVars == <<validated, packetlist, statsVars>>
loopVars == <<hasInput, beginTimestamp, lastTimestamp, lastSeqNum, syncTime, decoded>>
vars == <<senderVars, copies, entryVars, stage, isRunning, loopVars>>

NoTime == -1
\* beginTimestamp starts as -1 but is compared with what a uint32_t was
\* assigned to.
NoTimestamp == TimestampMod - 1

Init ==
  /\ stream \in Streams
  /\ packets = <<>> /\ lastTime = NoTime
  /\ nextSeqNum = stream.firstSeqNum /\ nextTimestamp \in FirstTimestamps
  /\ copies = [k \in 0 .. EndMarker |-> 0]
  /\ validated = stream.known /\ packetlist = <<>>
  /\ sentdata = FALSE /\ probation = 0 /\ prevseqnr = 0 /\ numcycles = 0 /\ exthighseqnr = 0
  /\ stage = "poll" /\ isRunning = TRUE /\ hasInput = TRUE
  /\ beginTimestamp = NoTimestamp /\ lastTimestamp = 0 /\ lastSeqNum = 0
  /\ syncTime = 0 /\ decoded = <<>>
-----------------------------------------------------------------------------
(* The sender: RunNetwork from line 56, and PrivateBuildPacket.            *)

\* The packet carries the timestamp of its predecessor's time: the builder
\* adds the increment after it has built the packet.
BuildPacket(mark, ext, timestampinc) ==
  /\ packets' = Append(packets,
       [seq |-> nextSeqNum, timestamp |-> nextTimestamp, mark |-> mark, ext |-> ext])
  /\ nextTimestamp' = (nextTimestamp + timestampinc) % TimestampMod
  /\ nextSeqNum' = (nextSeqNum + 1) % SeqNumMod
  /\ copies' = [copies EXCEPT ![Len(packets)] = stream.copies]
  /\ UNCHANGED stream

\* Mutated form: the increment is taken from the start of the track.
TimestampIncFromStart(time) == (time - Time(0)) % TimestampMod

TimestampInc(time) == (time - (IF lastTime = NoTime THEN time ELSE lastTime)) % TimestampMod

SendFrame ==
  /\ Len(packets) < EndMarker
  /\ LET time == Time(Len(packets)) IN
       /\ BuildPacket(FALSE, PlaybackStart + time, TimestampInc(time))
       /\ lastTime' = time
  /\ UNCHANGED <<entryVars, stage, isRunning, loopVars>>

\* At the end of the track the extractor has no time, it returns -1.
SendEndMarker ==
  /\ Len(packets) = EndMarker
  /\ BuildPacket(TRUE, NoTime, TimestampInc(NoTime))
  /\ lastTime' = NoTime
  /\ UNCHANGED <<entryVars, stage, isRunning, loopVars>>
-----------------------------------------------------------------------------
(* The network delivers a copy; in order, it loses what it has overtaken.  *)
Deliver(k) ==
  /\ copies[k] > 0
  /\ copies' = [j \in 0 .. EndMarker |->
       IF j = k THEN copies[k] - 1 ELSE IF j < k /\ ~stream.reorders THEN 0 ELSE copies[j]]
-----------------------------------------------------------------------------
(* The receiver's poll thread, under the source lock: RTPSourceStats::     *)
(* ProcessPacket numbers the packet, RTPInternalSourceData::               *)
(* ProcessRTPPacket queues it.                                             *)

\* Mutated form: without the step past the packet with the lower number.
InsertTooEarly(list, k, ext) ==
  LET before == Cardinality({i \in DOMAIN list : list[i].ext < ext})
  IN InsertAt(list, IF before = 0 THEN 1 ELSE before, [index |-> k, ext |-> ext])

\* Before the packets with a higher extended number; an equal one is kept and
\* the new one dropped.
InsertPacket(list, k, ext) ==
  IF \E i \in DOMAIN list : list[i].ext = ext THEN list
  ELSE LET before == Cardinality({i \in DOMAIN list : list[i].ext < ext})
       IN InsertAt(list, before + 1, [index |-> k, ext |-> ext])

\* A source on probation only keeps its last packets.
Unvalidated(list) == IF Len(list) = MAXPROBATIONPACKETS THEN Tail(list) ELSE list

\* First packets of a source that is not validated: stored, until one follows
\* its predecessor RTP_PROBATIONCOUNT times.
EndsProbation(seq) == probation = 1 /\ seq = (prevseqnr + 1) % SeqNumMod

OnProbation(k) ==
  LET seq == packets[k + 1].seq IN
  /\ ~sentdata /\ ~validated /\ ~EndsProbation(seq)
  /\ probation' = IF probation > 0 /\ seq = (prevseqnr + 1) % SeqNumMod
                    THEN probation - 1 ELSE RTP_PROBATIONCOUNT
  /\ prevseqnr' = seq
  /\ packetlist' = InsertPacket(Unvalidated(packetlist), k, seq)
  /\ UNCHANGED <<validated, sentdata, numcycles, exthighseqnr>>

\* ACCEPTPACKETCODE
AcceptFirst(k) ==
  LET seq == packets[k + 1].seq
      ext == IF seq = 0 THEN SeqNumMod ELSE seq IN
  /\ ~sentdata /\ (validated \/ EndsProbation(seq))
  /\ sentdata' = TRUE /\ validated' = TRUE
  /\ numcycles' = IF seq = 0 THEN SeqNumMod ELSE numcycles
  /\ exthighseqnr' = ext
  /\ IF ~validated THEN probation' = 0 /\ prevseqnr' = seq ELSE UNCHANGED <<probation, prevseqnr>>
  /\ packetlist' = InsertPacket(packetlist, k, ext)

\* Mutated form: a wrapped sequence number does not begin a new cycle.
CycleNeverWraps(seq) == numcycles

\* numcycles after this packet: a much lower number means a wrap.
CycleOf(seq) ==
  LET max == exthighseqnr % SeqNumMod
      wrapped == seq < max /\ (seq - max) % SeqNumMod < (max - seq) % SeqNumMod
  IN IF wrapped THEN numcycles + SeqNumMod ELSE numcycles

AcceptNext(k) ==
  LET seq == packets[k + 1].seq
      ext == CycleOf(seq) + seq
      max == exthighseqnr % SeqNumMod IN
  /\ sentdata
  /\ numcycles' = CycleOf(seq)
  /\ exthighseqnr' = IF seq >= max \/ CycleOf(seq) # numcycles THEN ext ELSE exthighseqnr
  /\ packetlist' = InsertPacket(packetlist, k, ext)
  /\ validated' = TRUE
  /\ UNCHANGED <<sentdata, probation, prevseqnr>>

ReceivePacket(k) ==
  /\ stage # "access"
  /\ Deliver(k)
  /\ OnProbation(k) \/ AcceptFirst(k) \/ AcceptNext(k)
  /\ UNCHANGED <<senderVars, stage, isRunning, loopVars>>

\* The CNAME in a report of the sender validates it.
ReceiveCNAME ==
  /\ stage # "access" /\ ~validated
  /\ validated' = TRUE
  /\ UNCHANGED <<senderVars, copies, packetlist, statsVars, stage, isRunning, loopVars>>
-----------------------------------------------------------------------------
(* The receiver's network thread, lines 59 to 137.                         *)

BeginDataAccess ==
  /\ stage = "poll" /\ hasInput /\ isRunning
  /\ validated /\ packetlist # <<>>
  /\ stage' = "access"
  /\ UNCHANGED <<senderVars, copies, entryVars, isRunning, loopVars>>

SeqBefore(seq) == (seq - 1) % SeqNumMod

SinceBegin(timestamp, begin) == (timestamp - begin) % TimestampMod

\* lastSeqNum + 1 is an int: 65535 is never followed.
FlushNeeded(seq, last, timestamp) ==
  seq # last + 1 /\ (timestamp - lastTimestamp) % TimestampMod > GapLimit

\* audioplayer_syncPlayback: only the first packet counts.
SyncPlayback(p, timestamp) ==
  syncTime' = IF ~p.mark /\ syncTime = 0 THEN p.ext - timestamp ELSE syncTime

\* GetNextPacket and what is done with the packet.  ok: the decoder took it.
TakePacket(ok) ==
  LET k == Head(packetlist).index
      p == packets[k + 1]
      isFirst == beginTimestamp = NoTimestamp
      begin == IF isFirst THEN p.timestamp ELSE beginTimestamp
      last == IF isFirst THEN SeqBefore(p.seq) ELSE lastSeqNum
      timestamp == SinceBegin(p.timestamp, begin)
  IN
  /\ stage = "access" /\ packetlist # <<>>
  /\ packetlist' = Tail(packetlist)
  /\ hasInput' = (~p.mark /\ ok)
  /\ beginTimestamp' = begin
  /\ SyncPlayback(p, timestamp)
  /\ lastSeqNum' = p.seq /\ lastTimestamp' = timestamp
  /\ decoded' = Append(decoded, [index |-> k, at |-> syncTime' + timestamp,
                                 flush |-> FlushNeeded(p.seq, last, timestamp)])
  /\ UNCHANGED <<senderVars, copies, validated, statsVars, stage, isRunning>>

EndDataAccess ==
  /\ stage = "access" /\ packetlist = <<>>
  /\ stage' = "poll"
  /\ UNCHANGED <<senderVars, copies, entryVars, isRunning, loopVars>>

\* The loop ends: BYE, and playing what the decoder still has.
LeaveLoop ==
  /\ stage = "poll" /\ ~(hasInput /\ isRunning)
  /\ stage' = "ended"
  /\ UNCHANGED <<senderVars, copies, entryVars, isRunning, loopVars>>

Stop ==
  /\ isRunning /\ isRunning' = FALSE
  /\ UNCHANGED <<senderVars, copies, entryVars, stage, loopVars>>

NetworkThread ==
  BeginDataAccess \/ (\E ok \in BOOLEAN : TakePacket(ok)) \/ EndDataAccess \/ LeaveLoop

Next ==
  \/ SendFrame \/ SendEndMarker
  \/ \E k \in 0 .. EndMarker : ReceivePacket(k)
  \/ ReceiveCNAME
  \/ NetworkThread
  \/ Stop

\* The network thread of the receiver polls every millisecond.
Spec == Init /\ [][Next]_vars /\ WF_vars(NetworkThread)
-----------------------------------------------------------------------------
(* Properties.                                                             *)

TypeOK ==
  /\ stream \in Streams /\ Len(packets) <= EndMarker + 1
  /\ nextSeqNum \in 0 .. SeqNumMod - 1 /\ nextTimestamp \in 0 .. TimestampMod - 1
  /\ lastTime \in {NoTime} \cup {Time(k) : k \in 0 .. EndMarker - 1}
  /\ copies \in [0 .. EndMarker -> 0 .. stream.copies]
  /\ {validated, sentdata, isRunning, hasInput} \subseteq BOOLEAN
  /\ \A i \in DOMAIN packetlist : packetlist[i].index \in 0 .. Len(packets) - 1
  /\ probation \in 0 .. RTP_PROBATIONCOUNT /\ prevseqnr \in 0 .. SeqNumMod - 1
  /\ numcycles % SeqNumMod = 0 /\ exthighseqnr \in Nat
  /\ stage \in {"poll", "access", "ended"}
  /\ beginTimestamp \in 0 .. TimestampMod - 1 /\ lastTimestamp \in 0 .. TimestampMod - 1
  /\ lastSeqNum \in 0 .. SeqNumMod - 1

Frames == {i \in DOMAIN decoded : decoded[i].index # EndMarker}
Ideal(k) == PlaybackStart + Time(k)
Off(i) == decoded[i].at - Ideal(decoded[i].index)

LongestFrame == CHOOSE d \in {Duration(k) : k \in 0 .. EndMarker - 2} :
                  \A k \in 0 .. EndMarker - 2 : Duration(k) <= d

(* Whatever is lost or repeated on the way, and wherever sequence numbers  *)
(* and timestamps wrap, the decoder is given the stream in its order.      *)
TakenInOrder ==
  ~stream.reorders =>
    \A i, j \in DOMAIN decoded : i < j => decoded[i].index <= decoded[j].index

(* As long as the network keeps the order, every frame is scheduled within *)
(* the duration of one frame of the time the sender means it to be played. *)
WithinOneFrame ==
  ~stream.reorders => \A i \in Frames : Off(i) \in -LongestFrame .. LongestFrame

(* Line 97, "According to the docs we need to flushIf data is not          *)
(* adjacent": only where packets are missing, not where the sequence       *)
(* number wraps, unless a frame is longer than the gap (a track of few     *)
(* samples a second).                                                      *)
FlushOnlyAtGap ==
  LongestFrame <= GapLimit =>
    \A i \in DOMAIN decoded : decoded[i].flush =>
      i > 1 /\ decoded[i].index # decoded[i - 1].index + 1

(* The decoder is given the stream in its order, and told to begin anew    *)
(* only where it has a gap (ReceiverSession.cpp:68 to 110).                *)
DecoderGetsStream == TakenInOrder /\ FlushOnlyAtGap

(* When the end marker has been taken the receive loop ends, although      *)
(* every packet of a batch overwrites hasInput.                            *)
EndMarkerEndsLoop ==
  (\E i \in DOMAIN decoded : decoded[i].index = EndMarker) ~> stage = "ended"
=============================================================================
