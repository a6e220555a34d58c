----------------------------- MODULE BoundedFifo -----------------------------
(***************************************************************************)
(* What audioutils/fifo.h promises to its two clients, without indices,    *)
(* slots or memory: a queue of at most Capacity frames with one writer and *)
(* one reader.  A call is not atomic.  How many frames it transfers is     *)
(* settled when it begins, from the fill level at that moment; the queue   *)
(* only changes when it returns.  In between the other thread may begin    *)
(* and finish any number of calls of its own.                              *)
(***************************************************************************)
EXTENDS Integers, Sequences

CONSTANTS
  Frame,     \* the values an audio frame can have
  Capacity,  \* frameCount, the most frames the FIFO stores
  MaxCall    \* bound on the frames a single call offers or asks for

VARIABLES
  queue,    \* frames published by the writer, not yet released by the reader
  writing,  \* frames the running write call will append; <<>> when none runs
  reading,  \* number of frames the running read call will take; 0 when none
  out       \* the reader's buffer: what the last read call delivered so far

vars == <<queue, writing, reading, out>>

Calls == UNION {[1..n -> Frame] : n \in 0..MaxCall}

AtMost(a, b) == IF a > b THEN b ELSE a

Init ==
  /\ queue = << >>
  /\ writing = << >>
  /\ reading = 0
  /\ out = << >>

\* A write accepts the prefix of its buffer that fits at this moment.
WriteBegin(buffer) ==
  /\ writing = << >>
  /\ writing' = SubSeq(buffer, 1, AtMost(Capacity - Len(queue), Len(buffer)))
  /\ UNCHANGED <<queue, reading, out>>

WriteReturn ==
  /\ writing # << >>
  /\ queue' = queue \o writing
  /\ writing' = << >>
  /\ UNCHANGED <<reading, out>>

ReadBegin(count) ==
  /\ reading = 0
  /\ reading' = AtMost(Len(queue), count)
  /\ out' = << >>
  /\ UNCHANGED <<queue, writing>>

\* Frames are delivered oldest first.
ReadFrame ==
  /\ Len(out) < reading
  /\ out' = Append(out, queue[Len(out) + 1])
  /\ UNCHANGED <<queue, writing, reading>>

ReadReturn ==
  /\ reading # 0
  /\ Len(out) = reading
  /\ queue' = SubSeq(queue, reading + 1, Len(queue))
  /\ reading' = 0
  /\ UNCHANGED <<writing, out>>

Next ==
  \/ \E buffer \in Calls : WriteBegin(buffer)
  \/ WriteReturn
  \/ \E count \in 0..MaxCall : ReadBegin(count)
  \/ ReadFrame
  \/ ReadReturn

Spec == Init /\ [][Next]_vars
=============================================================================
