----------------------------- MODULE AudioPlayer -----------------------------
(***************************************************************************)
(* jni/audioplayer.cpp: the network thread feeds decoded frames into the   *)
(* FIFO and posts one playback mark per packet; the OpenSL callback takes  *)
(* frames out, compares the media position the marks give with the clock,  *)
(* and skips frames or inserts silence to close the gap.                   *)
(*                                                                         *)
(* The FIFO is the bounded queue that AudioFifo is proved to implement: a  *)
(* call settles its frame count when it begins and the queue changes when  *)
(* it returns.  A frame is its media time, the end of the frame, counted   *)
(* in frames from the start of the stream; one clock tick is one frame, so *)
(* SECOND_MICRO / samplesPerSec disappears.  The clock is relative to      *)
(* current_syncSystemTimeUs: the frame with media time t is due from       *)
(* clock = t - 1 to clock = t.  Left out: playback rate, device latency,   *)
(* OpenSL errors, the averaging of two frames around a skipped one.        *)
(***************************************************************************)
EXTENDS Integers, Sequences, FiniteSets, SequencesExt

CONSTANTS
  framesPerBuffer,  \* global_framesPerBuffers
  MaxFrames,        \* MAX_BUFFER_SIZE / frameSize
  FifoFrames,       \* capacity of the FIFO
  accuracy,         \* audiosync_coarseAccuracyUs, in ticks
  Packets,          \* number of packets in the stream
  PacketFrames,     \* frames a packet decodes to
  Early, Late,      \* by how much the stream may start ahead of the clock, and too late
  Jitters,          \* deviation of a buffer's playing time from its length
  Forth, Back,      \* offsets that the SNTP thread moves the clock on by, and back by
  LastDiffs,        \* values of diff an earlier session may have ended with
  Lossy,            \* whether packets may be lost on the network
  MaxBuffered,      \* bound: bufferedFrames and the marks stop growing there
  MaxClock          \* bound: the clock stops there

Delays == Early \cup {-late : late \in Late}
Offsets == Forth \cup {-back : back \in Back}

ASSUME PlayerAssumption ==
  /\ framesPerBuffer \in Nat \ {0}
  /\ MaxFrames \in Nat /\ MaxFrames >= framesPerBuffer
  /\ FifoFrames \in Nat \ {0}
  /\ accuracy \in Nat /\ accuracy >= 2
  /\ Packets \in Nat /\ PacketFrames \in Nat \ {0}
  /\ Delays \subseteq Int /\ Offsets \subseteq Int /\ LastDiffs \subseteq Int
  /\ Jitters \subseteq Int /\ \A j \in Jitters : framesPerBuffer + j > 0
  /\ Lossy \in BOOLEAN
  /\ MaxBuffered \in Nat /\ MaxClock \in Nat

VARIABLES
  fifo,        \* media times of the frames in the FIFO
  marks,       \* current_playbackMarkQueue
  last_mark,   \* the mark the callback dequeued last
  isPlaying,   \* current_isPlaying
  enableJumps, \* current_enableJumps
  synced,      \* current_syncSystemTimeUs # 0
  offset,      \* current_systemTimeOffsetUs
  bufferedFrames, queuedFrames,  \* current_bufferedFrames, current_queuedFrames
  diff,        \* current_diff
  net,         \* network thread: control state and the packet in hand
  cut,         \* history: whether some packet did not fit into the FIFO
  lost,        \* history: whether the network lost a packet
  monitor,     \* statics of audioplayer_monitorPlayback
  cb,          \* callback: control state and locals
  clock,       \* time since current_syncSystemTimeUs; negative before it
  device       \* the buffer OpenSL is playing; << >> when its queue is empty

netVars == <<bufferedFrames, net, cut, lost, monitor, enableJumps>>
cbVars == <<last_mark, isPlaying, queuedFrames, diff, cb, device>>
vars == <<fifo, marks, synced, offset, clock, netVars, cbVars>>

Silence == 0
Stale == -1   \* what an earlier use of the buffer left in tempBuffers

AtMost(a, b) == IF a > b THEN b ELSE a
Seqn(n, value) == [i \in 1..n |-> value]
SkipFirst(s, n) == SubSeq(s, n + 1, Len(s))

\* The frames of packet k, and the mark audioplayer_enqueuePCMFrames posts.
FramesOf(k) == [i \in 1..PacketFrames |-> (k - 1) * PacketFrames + i]
Mark(count, time) == [frameCount |-> count, time |-> time]

NetIdle == "idle"
CbIdle == "idle"
NetStates == {NetIdle, "write", "mark", "full", "retry", "monitor"}
CbStates == {CbIdle, "start", "skip", "skipped", "decide", "read", "play", "crashed"}
-----------------------------------------------------------------------------
(* The state audioplayer_initPlayback leaves behind: everything reset and  *)
(* the first buffer of silence queued by its own call of the callback.     *)
(* What it does not reset is as an earlier session left it: the statics of *)
(* monitorPlayback and the clock offset.                                   *)
Init ==
  /\ fifo = << >> /\ marks = << >> /\ last_mark = Mark(0, 0)
  /\ isPlaying = FALSE /\ enableJumps = FALSE /\ synced = FALSE
  /\ offset \in {0} \cup Offsets /\ bufferedFrames = 0 /\ queuedFrames = 0 /\ diff = 0
  /\ net = [pc |-> NetIdle, packet |-> 1, room |-> 0] /\ cut = FALSE /\ lost = FALSE
  /\ monitor \in [seen : {FALSE}, lastDiff : {0}] \cup [seen : {TRUE}, lastDiff : LastDiffs]
  /\ cb = [pc |-> CbIdle, now |-> 0, drop |-> 0, request |-> 0, pad |-> 0, count |-> 0]
  /\ clock = 0
  /\ device = Seqn(framesPerBuffer, Silence)

(***************************************************************************)
(* The network thread.                                                     *)
(***************************************************************************)

\* audioplayer_syncPlayback: only the first call has an effect.
SyncPlayback(delay) ==
  /\ net.pc = NetIdle /\ ~synced
  /\ synced' = TRUE
  /\ clock' = -delay
  /\ net' = [net EXCEPT !.pc = "monitor"]
  /\ UNCHANGED <<fifo, marks, offset, bufferedFrames, cut, lost, monitor, enableJumps, cbVars>>

\* A packet that never arrives.
LosePacket ==
  /\ Lossy /\ net.pc = NetIdle /\ net.packet <= Packets
  /\ net' = [net EXCEPT !.packet = @ + 1] /\ lost' = TRUE
  /\ UNCHANGED <<fifo, marks, synced, offset, clock, bufferedFrames, cut, monitor, enableJumps, cbVars>>

\* Mutated form: a call that is repeated does not look at the FIFO again.
RoomAtFirst == IF net.pc = "retry" THEN net.room ELSE AtMost(FifoFrames - Len(fifo), PacketFrames)

\* How many frames of the packet audio_utils_fifo_write accepts.
Room == AtMost(FifoFrames - Len(fifo), PacketFrames)

\* audioplayer_enqueuePCMFrames: the FIFO write begins ...
EnqueueBegin ==
  /\ net.pc \in {NetIdle, "retry"} /\ synced /\ net.packet <= Packets
  /\ net' = [net EXCEPT !.pc = "write", !.room = Room]
  /\ UNCHANGED <<fifo, marks, synced, offset, clock, bufferedFrames, cut, lost, monitor, enableJumps, cbVars>>

\* ... and returns, having written what fits.
EnqueueWrite ==
  /\ net.pc = "write"
  /\ fifo' = fifo \o SubSeq(FramesOf(net.packet), 1, net.room)
  /\ net' = [net EXCEPT !.pc = "mark"]
  /\ UNCHANGED <<marks, synced, offset, clock, bufferedFrames, cut, lost, monitor, enableJumps, cbVars>>

\* The mark is posted for all frames of the packet, whatever was written.
PostMark ==
  \/ /\ bufferedFrames < MaxBuffered
     /\ bufferedFrames' = bufferedFrames + PacketFrames
     /\ marks' = Append(marks, Mark(bufferedFrames', net.packet * PacketFrames))
  \/ /\ bufferedFrames >= MaxBuffered
     /\ UNCHANGED <<bufferedFrames, marks>>

\* The mark is posted; if nothing was written while playing, the call will
\* sleep and start over with the same packet.
EnqueueMark ==
  /\ net.pc = "mark"
  /\ PostMark
  /\ cut' = (cut \/ net.room < PacketFrames)
  /\ \/ /\ net.room = 0 /\ isPlaying
        /\ net' = [net EXCEPT !.pc = "full"]
     \/ /\ net.room > 0 \/ ~isPlaying
        /\ net' = [net EXCEPT !.pc = "monitor", !.packet = @ + 1]
  /\ UNCHANGED <<fifo, synced, offset, clock, lost, monitor, enableJumps, cbVars>>

(* audioplayer_monitorPlayback.  The network thread calls it at the end of *)
(* every call into the player, before it sleeps on a full FIFO, and in its *)
(* own loop.  Whether the waiting times have elapsed is left open.         *)
MonitorPlayback ==
  /\ net.pc \in {NetIdle, "monitor", "full"}
  /\ net' = [net EXCEPT !.pc = IF @ = "full" THEN "retry" ELSE NetIdle]
  /\ \/ /\ ~isPlaying
        /\ monitor' = [monitor EXCEPT !.seen = FALSE]
        /\ UNCHANGED enableJumps
     \/ /\ isPlaying /\ ~monitor.seen
        /\ monitor' = [seen |-> TRUE, lastDiff |-> diff]
        /\ UNCHANGED enableJumps
     \/ /\ isPlaying /\ monitor.seen
        /\ UNCHANGED <<monitor, enableJumps>>
     \/ /\ isPlaying /\ monitor.seen
        /\ ~enableJumps \/ monitor.lastDiff # diff
        /\ enableJumps' = ~enableJumps
        /\ monitor' = [monitor EXCEPT !.lastDiff = diff]
  /\ UNCHANGED <<fifo, marks, synced, offset, clock, bufferedFrames, cut, lost, cbVars>>

\* The SNTP thread: audioplayer_setSystemTimeOffset.
SetSystemTimeOffset(offsetUs) ==
  /\ offset' = offsetUs
  /\ UNCHANGED <<fifo, marks, synced, clock, netVars, cbVars>>

(***************************************************************************)
(* OpenSL plays the queued buffer to its end, then calls back.  Time only  *)
(* passes here; it is not tracked before the stream is synced.             *)
(***************************************************************************)
BufferFinishes(jitter) ==
  /\ device # << >> /\ cb.pc = CbIdle
  /\ device' = << >>
  /\ clock' = IF synced THEN AtMost(MaxClock, clock + Len(device) + jitter) ELSE clock
  /\ cb' = [cb EXCEPT !.pc = "start"]
  /\ UNCHANGED <<fifo, marks, synced, offset, netVars, last_mark, isPlaying, queuedFrames, diff>>

(***************************************************************************)
(* The callback.                                                           *)
(***************************************************************************)

\* The fields of cb that outlive a callback are reset when it returns.
CbReturns(buffer) ==
  /\ cb' = [pc |-> CbIdle, now |-> 0, drop |-> 0, request |-> 0, pad |-> 0, count |-> 0]
  /\ device' = buffer

\* Line 183: what the callback takes for the current time.
SystemTime == clock + offset

\* Lines 184 to 188: current_isPlaying becomes true.
StartDue(nowUs) == ~isPlaying /\ synced /\ -nowUs < accuracy

\* Lines 183 to 204 and 291 to 297: start when due, skip what is already over
\* (line 190), or play silence.
CbStart ==
  /\ cb.pc = "start"
  /\ LET nowUs == SystemTime
         late == StartDue(nowUs) /\ -nowUs < -accuracy
     IN  /\ isPlaying' = (isPlaying \/ StartDue(nowUs))
         /\ \/ /\ isPlaying' /\ late
               /\ cb' = [cb EXCEPT !.pc = "skip", !.now = nowUs, !.drop = nowUs]
               /\ UNCHANGED device
            \/ /\ isPlaying' /\ ~late
               /\ cb' = [cb EXCEPT !.pc = "decide", !.now = nowUs]
               /\ UNCHANGED device
            \/ /\ ~isPlaying'
               /\ CbReturns(Seqn(framesPerBuffer, Silence))
  /\ UNCHANGED <<fifo, marks, synced, offset, clock, netVars, last_mark, queuedFrames, diff>>

\* One round of the loop that discards frames after a late start: a read of
\* at most MAX_BUFFER_SIZE begins ...
CbSkipRead ==
  /\ cb.pc = "skip"
  /\ cb' = [cb EXCEPT !.pc = "skipped",
                     !.count = AtMost(Len(fifo), AtMost(cb.drop, MaxFrames))]
  /\ UNCHANGED <<fifo, marks, synced, offset, clock, netVars, last_mark, isPlaying,
                 queuedFrames, diff, device>>

\* Mutated form: forgets to count the frames it discards.
CbSkipUncounted ==
  /\ cb.pc = "skipped"
  /\ fifo' = SkipFirst(fifo, cb.count)
  /\ cb' = IF cb.count \in {0, cb.drop}
           THEN [cb EXCEPT !.pc = "decide", !.drop = 0]
           ELSE [cb EXCEPT !.pc = "skip", !.drop = @ - cb.count]
  /\ UNCHANGED <<marks, synced, offset, clock, netVars, last_mark, isPlaying,
                 queuedFrames, diff, device>>

\* ... and returns; the loop ends when the FIFO is empty or enough is gone.
CbSkip ==
  /\ cb.pc = "skipped"
  /\ fifo' = SkipFirst(fifo, cb.count)
  /\ queuedFrames' = queuedFrames + cb.count
  /\ cb' = IF cb.count \in {0, cb.drop}
           THEN [cb EXCEPT !.pc = "decide", !.drop = 0]
           ELSE [cb EXCEPT !.pc = "skip", !.drop = @ - cb.count]
  /\ UNCHANGED <<marks, synced, offset, clock, netVars, last_mark, isPlaying, diff, device>>

\* How many marks leave the queue: those queuedFrames has reached, provided
\* it has reached last_mark.
ReachedCount ==
  LET runs == {n \in 0..Len(marks) : \A i \in 1..n : marks[i].frameCount <= queuedFrames}
  IN  IF last_mark.frameCount <= queuedFrames
      THEN CHOOSE n \in runs : \A m \in runs : m <= n
      ELSE 0

\* Mutated form: also takes the first mark queuedFrames has not reached yet.
NextMark == IF marks = << >> THEN last_mark ELSE marks[AtMost(ReachedCount + 1, Len(marks))]

\* Lines 209 to 212: the last mark that leaves the queue becomes last_mark.
CurrentMark == IF ReachedCount = 0 THEN last_mark ELSE marks[ReachedCount]

\* Lines 216 to 218: the media position, extrapolated from the mark.
PlaybackTime(mark) == mark.time + (queuedFrames - mark.frameCount)

\* Lines 208 to 239: take up the reached marks, compare with the clock and
\* settle what to ask the FIFO for.
CbDecide ==
  /\ cb.pc = "decide"
  /\ last_mark' = CurrentMark
  /\ marks' = SkipFirst(marks, ReachedCount)
  /\ LET tolerance == accuracy \div 2
         late == cb.now - PlaybackTime(last_mark')
         request == AtMost(framesPerBuffer + late, MaxFrames)
     IN  /\ diff' = late
         /\ \/ /\ enableJumps => late \in (1 - tolerance)..(tolerance - 1)
               /\ cb' = [cb EXCEPT !.pc = "read", !.request = framesPerBuffer, !.drop = late]
               /\ UNCHANGED device
            \/ /\ enableJumps /\ late >= tolerance
               /\ cb' = [cb EXCEPT !.pc = "read", !.request = request,
                                   !.drop = request - framesPerBuffer]
               /\ UNCHANGED device
            \/ /\ enableJumps /\ late <= -tolerance /\ -late < framesPerBuffer
               /\ cb' = [cb EXCEPT !.pc = "read", !.request = framesPerBuffer + late,
                                   !.pad = -late]
               /\ UNCHANGED device
            \/ /\ enableJumps /\ late <= -tolerance /\ -late >= framesPerBuffer
               /\ CbReturns(Seqn(framesPerBuffer, Silence))
  /\ UNCHANGED <<fifo, synced, offset, clock, netVars, isPlaying, queuedFrames>>

\* audio_utils_fifo_read begins: the number of frames is settled.
CbRead ==
  /\ cb.pc = "read"
  /\ cb' = [cb EXCEPT !.pc = "play", !.count = AtMost(Len(fifo), cb.request)]
  /\ UNCHANGED <<fifo, marks, synced, offset, clock, netVars, last_mark, isPlaying,
                 queuedFrames, diff, device>>

(* The loop that drops frames, in place: every (count / drop)-th one, as   *)
(* long as there are frames to drop.  The kept ones move up; behind them   *)
(* stays what was read there.  Dividing by zero is undefined; where it     *)
(* does not trap it yields zero, and frame % 0 is frame (ARM).             *)
DropFrames(frames, drop) ==
  LET mod == IF drop = 0 THEN 0 ELSE Len(frames) \div drop
      dropped == IF mod = 0
                 THEN {1 : d \in 1..drop}
                 ELSE {d * mod + 1 : d \in 0..(drop - 1)}
      kept == (1..Len(frames)) \ dropped
      order == SetToSortSeq(kept, <)
  IN  [i \in 1..framesPerBuffer |-> frames[IF i <= Len(order) THEN order[i] ELSE i]]

\* Mutated form: only the frames enqueued are counted, not those dropped.
FramesEnqueued == AtMost(cb.count, framesPerBuffer)

\* Lines 245, 279 and 283: what the callback adds to current_queuedFrames.
FramesTaken == cb.count

(* audio_utils_fifo_read returns and the buffer is filled and enqueued.    *)
(* current_enableJumps is read a second time here, line 261, so the drop   *)
(* may be one that the request never allowed for: a drop larger than the   *)
(* count makes the divisor zero, which may trap.                           *)
CbPlay ==
  /\ cb.pc = "play"
  /\ fifo' = SkipFirst(fifo, cb.count)
  /\ queuedFrames' = queuedFrames + FramesTaken
  /\ LET frames == SubSeq(fifo, 1, cb.count)
         dropping == /\ enableJumps /\ cb.pad = 0 /\ cb.count = cb.request
                     /\ diff >= accuracy \div 2
     IN  \/ /\ cb.count = 0 /\ cb.pad = 0
            /\ CbReturns(<< >>)
         \/ /\ cb.count = 0 /\ cb.pad > 0
            /\ CbReturns(Seqn(framesPerBuffer, Silence))
         \/ /\ cb.count > 0 /\ cb.pad > 0
            /\ CbReturns(Seqn(cb.pad, Silence) \o frames
                         \o Seqn(framesPerBuffer - cb.pad - cb.count, Stale))
         \/ /\ cb.count > 0 /\ cb.pad = 0 /\ ~dropping
            /\ CbReturns(frames)
         \/ /\ cb.count > 0 /\ dropping
            /\ CbReturns(DropFrames(frames, cb.drop))
         \/ /\ cb.count > 0 /\ dropping /\ cb.drop \notin 1..cb.count
            /\ cb' = [cb EXCEPT !.pc = "crashed"]
            /\ UNCHANGED device
  /\ UNCHANGED <<marks, synced, offset, clock, netVars, last_mark, isPlaying, diff>>

Network ==
  \/ \E delay \in Delays : SyncPlayback(delay)
  \/ LosePacket \/ EnqueueBegin \/ EnqueueWrite \/ EnqueueMark \/ MonitorPlayback

Callback ==
  \/ \E jitter \in Jitters : BufferFinishes(jitter)
  \/ CbStart \/ CbSkipRead \/ CbSkip \/ CbDecide \/ CbRead \/ CbPlay

Next ==
  \/ Network
  \/ \E offsetUs \in Offsets : SetSystemTimeOffset(offsetUs)
  \/ Callback

(* OpenSL keeps playing what is queued and the callback runs to its end.   *)
(* The network thread finishes the call it is in; that it has more packets *)
(* to deliver is not assumed.                                              *)
Fairness ==
  /\ WF_vars(Callback)
  /\ WF_vars(EnqueueWrite) /\ WF_vars(EnqueueMark)
  /\ WF_vars(net.pc # NetIdle /\ MonitorPlayback)
  /\ WF_vars(net.pc = "retry" /\ EnqueueBegin)

Spec == Init /\ [][Next]_vars /\ Fairness
-----------------------------------------------------------------------------
(* Properties.                                                             *)

\* OpenSL has nothing left to play, and so will not call back any more.
Starved == device = << >> /\ cb.pc = CbIdle
Crashed == cb.pc = "crashed"

\* The types of all variables, with the ranges the guards maintain.
TypeOK ==
  /\ fifo \in Seq(1..(Packets * PacketFrames)) /\ Len(fifo) <= FifoFrames
  /\ marks \in Seq([frameCount : Nat, time : Nat])
  /\ last_mark \in [frameCount : Nat, time : Nat]
  /\ {isPlaying, enableJumps, synced, cut, lost} \subseteq BOOLEAN
  /\ offset \in Int /\ clock \in Int /\ diff \in Int
  /\ bufferedFrames \in Nat /\ queuedFrames \in Nat
  /\ net \in [pc : NetStates,
              packet : 1..(Packets + 1), room : 0..PacketFrames]
  /\ monitor \in [seen : BOOLEAN, lastDiff : Int]
  /\ cb.pc \in CbStates
  /\ cb.request \in 0..MaxFrames /\ cb.count \in 0..MaxFrames
  /\ cb.pad \in 0..(framesPerBuffer - 1)
  /\ cb.pc \in {"read", "play"} => cb.request > 0
  /\ cb.pc = "play" => cb.count <= Len(fifo)
  /\ device \in Seq({Silence, Stale} \cup 1..(Packets * PacketFrames))
  /\ Len(device) <= MaxFrames

(* The mark the callback works from never lies ahead of the frames it has  *)
(* taken, whatever was lost, retried or skipped: line 216 subtracts two    *)
(* counts, one of them unsigned, and line 208 would stop following marks.  *)
LastMarkBehind == last_mark.frameCount <= queuedFrames

(* Every mark still to come names its frame: the frame that will be the    *)
(* frameCount-th to leave the FIFO has the media time of the mark.  Holds  *)
(* as long as every packet has fit, across packets lost on the network.    *)
MarksMatchFrames ==
  ~cut => \A i \in DOMAIN marks :
    LET ahead == marks[i].frameCount - queuedFrames
    IN  ahead > 0 => ahead <= Len(fifo) /\ fifo[ahead] = marks[i].time

(* The callback knows where in the stream it is: the media position it     *)
(* computes from marks and frame counts is that of the last frame taken.   *)
(* After a lost packet it may lag behind until the next mark, but it never *)
(* runs ahead of the frame that is about to be played.                     *)
PositionTracksStream ==
  ~cut /\ fifo # << >> =>
    LET next == PlaybackTime(CurrentMark) + 1
    IN  next <= fifo[1] /\ (~lost => next = fifo[1])

(* A late start catches up: when the discarding loop ends, the next frame  *)
(* is the one that is due now, unless the loop ran out of frames or frames *)
(* of the stream are missing, lost on the network or cut.                  *)
LateStartCatchesUp ==
  cb.pc = "skipped" /\ cb'.pc = "decide" /\ ~lost /\ ~cut =>
    cb.count = 0 \/ PlaybackTime(CurrentMark)' = cb.now

CatchesUp == [][LateStartCatchesUp]_vars

(* A correction never overshoots: once the buffer that was just filled has *)
(* been played, the remaining difference lies between zero and the one the *)
(* callback found, however jumps are switched on or off while it runs, as  *)
(* long as the FIFO had the frames it asked for and all packets arrived    *)
(* and fit.                                                                *)
BufferStaysBehind ==
  cb.pc = "play" /\ cb'.pc = CbIdle /\ cb.count = cb.request /\ ~lost /\ ~cut =>
    LET before == cb.now - PlaybackTime(last_mark)
        after == cb.now + Len(device') - PlaybackTime(CurrentMark)'
    IN  after \in 0..before \cup before..0

NoOvershoot == [][BufferStaysBehind]_vars

\* While it is playing, every buffered frame is eventually taken, unless the
\* output starves: corrections cannot play silence forever.
KeepsConsuming == (isPlaying /\ fifo # << >>) ~> (fifo = << >> \/ Starved \/ Crashed)

\* A call that found the FIFO full gets its frames in, unless the output
\* starves while there is no room.
FullFifoDrains ==
  net.pc = "full" ~> (net.pc = "monitor" \/ (Starved /\ Len(fifo) = FifoFrames) \/ Crashed)

(* Where the callback believes to be in the stream (lines 204 to 217): the *)
(* marks to come name the right frames, and with the mark it works from    *)
(* they give the media position of the next frame.                         *)
KnowsPosition == MarksMatchFrames /\ PositionTracksStream

(* What the callback does about a difference between the media position    *)
(* and the clock (lines 183 to 265): a late start catches up with the      *)
(* clock, and no later correction goes past it.                            *)
CorrectsTime == CatchesUp /\ NoOvershoot

(* The callback makes the room the network thread waits for (line 458),    *)
(* and the network thread brings the frames the callback waits for:        *)
(* neither holds the other up for good unless the output starves.          *)
KeepsPlaying == KeepsConsuming /\ FullFifoDrains
=============================================================================
