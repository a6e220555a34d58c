------------------------------ MODULE AudioFifo ------------------------------
(***************************************************************************)
(* jni/audioutils/fifo.cpp: the single-writer, single-reader, non-blocking *)
(* FIFO between the network thread (audioplayer_enqueuePCMFrames) and the  *)
(* OpenSL callback (_bqPlayerCallback).                                    *)
(*                                                                         *)
(* mFront and mRear are free-running 32-bit indices.  Their low bits (mask *)
(* mFrameCountP2 - 1) select a slot, their high bits count generations; a  *)
(* frame count that is no power of two wastes mFudgeFactor index values at *)
(* the end of each generation.  The other thread's index is loaded once,   *)
(* at the start of a call; then memcpy runs, then the own index is stored. *)
(* Each of those is a step here, memcpy one step per frame, so the steps   *)
(* of the two threads interleave in every order.  The acquire loads and    *)
(* release stores of the code justify sequentially consistent steps.       *)
(***************************************************************************)
EXTENDS Integers, Sequences

CONSTANTS
  Frame,         \* the values an audio frame can have
  FrameCount,    \* mFrameCount
  FrameCountP2,  \* mFrameCountP2 = roundup(mFrameCount)
  IndexRange,    \* number of int32_t values; 2^32 in the program
  MaxCall        \* bound on the frames a single call offers or asks for

(* roundup returns the next power of two, which divides IndexRange.  The   *)
(* signed difference of a full FIFO must be representable: the player uses *)
(* 5 minutes of frames, far from 2^30.                                     *)
ASSUME FifoAssumption ==
  /\ FrameCount \in Nat \ {0}
  /\ FrameCountP2 \in Nat /\ FrameCount <= FrameCountP2
  /\ IndexRange \in Nat /\ IndexRange % FrameCountP2 = 0
  /\ 2 * FrameCountP2 < IndexRange
  /\ MaxCall \in Nat

VARIABLES
  mFront,   \* read index, stored by the reader only
  mRear,    \* write index, stored by the writer only
  mBuffer,  \* slot -> frame
  wbuf,     \* writer: the availToWrite frames it copies; <<>> outside a call
  wdone,    \* writer: how many of them memcpy has copied
  ravail,   \* reader: availToRead; 0 outside a call
  rbuf      \* reader: the caller's buffer, as far as memcpy has filled it

writerVars == <<mRear, mBuffer, wbuf, wdone>>
readerVars == <<mFront, ravail, rbuf>>
vars == <<mFront, mRear, mBuffer, wbuf, wdone, ravail, rbuf>>

Slot == 0..(FrameCount - 1)
Index == 0..(IndexRange - 1)
Calls == UNION {[1..n -> Frame] : n \in 0..MaxCall}

mFudgeFactor == FrameCountP2 - FrameCount

Pos(index) == index % FrameCountP2      \* index & (mFrameCountP2 - 1)
Gen(index) == index - Pos(index)        \* index & ~(mFrameCountP2 - 1)
Signed(x) == IF 2 * x >= IndexRange THEN x - IndexRange ELSE x
AtMost(a, b) == IF a > b THEN b ELSE a

\* Index plus increment, skipping the wasted indices at a generation's end.
audio_utils_fifo_sum(index, increment) ==
  LET skip == IF Pos(index) + increment >= FrameCount THEN mFudgeFactor ELSE 0
  IN  (index + increment + skip) % IndexRange

\* rear - front in frames: a signed 32-bit subtraction less the wasted indices.
audio_utils_fifo_diff(rear, front) ==
  LET wasted == IF Gen(rear) # Gen(front) THEN mFudgeFactor ELSE 0
  IN  Signed((rear - front) % IndexRange) - wasted

\* The slot of the i-th frame of a transfer at index: part1 up to the end of
\* mBuffer, part2 from its start.
SlotOf(index, i) ==
  LET part1 == FrameCount - Pos(index)
  IN  IF i < part1 THEN Pos(index) + i ELSE i - part1

Available == audio_utils_fifo_diff(mRear, mFront)
-----------------------------------------------------------------------------
(* The memory of mBuffer is not initialised: realloc'ed by the player.     *)
Init ==
  /\ mFront = 0 /\ mRear = 0
  /\ mBuffer \in [Slot -> Frame]
  /\ wbuf = << >> /\ wdone = 0
  /\ ravail = 0 /\ rbuf = << >>

\* Mutated form: mRear is released before memcpy has finished.
WritePublishEarly ==
  /\ wbuf # << >>
  /\ mRear' = audio_utils_fifo_sum(mRear, Len(wbuf))
  /\ wbuf' = << >> /\ wdone' = 0
  /\ UNCHANGED <<mBuffer, readerVars>>

\* audio_utils_fifo_write up to the first memcpy: load mFront, clip the count.
WriteBegin(buffer) ==
  /\ wbuf = << >>
  /\ LET availToWrite == AtMost(FrameCount - Available, Len(buffer))
     IN  wbuf' = SubSeq(buffer, 1, availToWrite)
  /\ wdone' = 0
  /\ UNCHANGED <<mRear, mBuffer, readerVars>>

WriteCopy ==
  /\ wdone < Len(wbuf)
  /\ mBuffer' = [mBuffer EXCEPT ![SlotOf(mRear, wdone)] = wbuf[wdone + 1]]
  /\ wdone' = wdone + 1
  /\ UNCHANGED <<mRear, wbuf, readerVars>>

WritePublish ==
  /\ wbuf # << >> /\ wdone = Len(wbuf)
  /\ mRear' = audio_utils_fifo_sum(mRear, Len(wbuf))
  /\ wbuf' = << >> /\ wdone' = 0
  /\ UNCHANGED <<mBuffer, readerVars>>

\* audio_utils_fifo_read up to the first memcpy: load mRear, clip the count.
ReadBegin(count) ==
  /\ ravail = 0
  /\ ravail' = AtMost(Available, count)
  /\ rbuf' = << >>
  /\ UNCHANGED <<mFront, writerVars>>

ReadCopy ==
  /\ Len(rbuf) < ravail
  /\ rbuf' = Append(rbuf, mBuffer[SlotOf(mFront, Len(rbuf))])
  /\ UNCHANGED <<mFront, ravail, writerVars>>

ReadPublish ==
  /\ ravail # 0 /\ Len(rbuf) = ravail
  /\ mFront' = audio_utils_fifo_sum(mFront, ravail)
  /\ ravail' = 0
  /\ UNCHANGED <<rbuf, writerVars>>

Writer == (\E buffer \in Calls : WriteBegin(buffer)) \/ WriteCopy \/ WritePublish
Reader == (\E count \in 0..MaxCall : ReadBegin(count)) \/ ReadCopy \/ ReadPublish

Next == Writer \/ Reader

Spec == Init /\ [][Next]_vars
-----------------------------------------------------------------------------
(* Types: the indices are 32-bit and never point into the wasted range.    *)
TypeOK ==
  /\ mFront \in Index /\ mRear \in Index
  /\ mBuffer \in [Slot -> Frame]
  /\ wbuf \in Seq(Frame) /\ wdone \in 0..Len(wbuf)
  /\ ravail \in Nat /\ rbuf \in Seq(Frame)

(* The assertions of audio_utils_fifo_sum and audio_utils_fifo_diff hold   *)
(* whenever either thread calls them, however far the indices have wrapped *)
(* (fifo.cpp:67, :73, :88, :93).                                           *)
AssertionsHold ==
  /\ Pos(mFront) < FrameCount /\ Pos(mRear) < FrameCount
  /\ Signed((Gen(mRear) - Gen(mFront)) % IndexRange) \in {0, FrameCountP2}
  /\ Available \in 0..FrameCount

(* A running write has room for all it still has to copy and a running     *)
(* read has a frame behind each slot it still has to copy, whatever the    *)
(* other thread did since the call loaded its index.                       *)
ClaimsBacked ==
  /\ Len(wbuf) <= FrameCount - Available
  /\ ravail <= Available

(* The slots the writer may still store to are none of the slots that hold *)
(* a published frame: memcpy never runs on a slot the reader may copy.     *)
WriteSlots == {SlotOf(mRear, i) : i \in wdone..(Len(wbuf) - 1)}
LiveSlots == {SlotOf(mFront, i) : i \in 0..(Available - 1)}
NoOverwrite == WriteSlots \cap LiveSlots = {}

(* The FIFO implements the bounded queue its header describes: the queue   *)
(* is what lies between mFront and mRear.                                  *)
Queue == [k \in 1..Available |-> mBuffer[SlotOf(mFront, k - 1)]]

Abstract == INSTANCE BoundedFifo WITH
  Capacity <- FrameCount, queue <- Queue, writing <- wbuf, reading <- ravail, out <- rbuf

ImplementsBoundedFifo == Abstract!Spec
=============================================================================
