-------------------------- MODULE AudioPlayerProofs --------------------------
(***************************************************************************)
(* Theorems about AudioPlayer, for every buffer size, FIFO size, stream,   *)
(* loss, jitter and clock offset, and about the lock-free queue of its     *)
(* marks, for every size it is made for, every size of its blocks and      *)
(* every order of the steps of the two threads.                            *)
(***************************************************************************)
EXTENDS AudioPlayer, ReaderWriterQueue, SequenceTheorems, FiniteSetTheorems, WellFoundedInduction, TLAPS

-----------------------------------------------------------------------------
(* Sequences.                                                              *)

LEMMA ConstantLength ==
  ASSUME NEW n \in Nat, NEW value
  PROVE  /\ Seqn(n, value) \in Seq({value})
         /\ Len(Seqn(n, value)) = n
  BY SMT DEF Seqn

LEMMA SkipFirstIsSeq ==
  ASSUME NEW S, NEW s \in Seq(S), NEW n \in 0..Len(s)
  PROVE  SkipFirst(s, n) \in Seq(S)
  BY SMT DEF SkipFirst

\* A nonempty set of naturals that is bounded has a largest element.
LEMMA LargestNatural ==
  ASSUME NEW bound \in Nat, NEW S \in SUBSET (0..bound), S # {}
  PROVE  \E n \in S : \A m \in S : m <= n
<1> DEFINE above(n) == (n + 1)..bound
           tails == {above(n) : n \in S}
           order == StrictSubsetOrdering(1..bound)
<1>1. IsWellFoundedOn(order, SUBSET (1..bound))
  <2>1. FiniteSubsetsOf(1..bound) = SUBSET (1..bound)
    <3>1. IsFiniteSet(1..bound)
      BY FS_Interval, SMT
    <3> QED BY <3>1, FS_FiniteSubsetsOfFinite
  <2> QED BY <2>1, FS_StrictSubsetOrderingWellFounded
<1>2. tails \subseteq SUBSET (1..bound) /\ tails # {}
  <2>1. \A n \in S : above(n) \subseteq 1..bound
    BY SMT
  <2> HIDE DEF above
  <2> QED BY <2>1
<1>3. PICK tail \in tails : \A other \in tails : ~ (<<other, tail>> \in order)
  <2> HIDE DEF tails, order
  <2> QED BY <1>1, <1>2, WFMin
<1>4. PICK n \in S : tail = above(n)
  OBVIOUS
<1>5. ASSUME NEW m \in S, m > n
      PROVE  FALSE
  <2>1. above(m) \subseteq above(n) /\ above(m) # above(n)
    BY <1>5, SMT
  <2>2. <<above(m), above(n)>> \in order
    BY <1>2, <2>1 DEF StrictSubsetOrdering
  <2> QED BY <1>3, <1>4, <2>2
<1> QED BY <1>5, SMT

-----------------------------------------------------------------------------
(* The invariant.  LastMarkBehind needs that the callback only takes marks *)
(* it has reached and that queuedFrames never falls; the latter rests on   *)
(* the counts the FIFO reads return, hence on how much is asked for, hence *)
(* on the clock: so the whole chain is typed.                              *)

Marks == [frameCount : Nat, time : Int]
NetRecord == [pc : NetStates, packet : Nat, room : 0..PacketFrames]

Numbers ==
  /\ fifo \in Seq(Int)
  /\ marks \in Seq(Marks) /\ last_mark \in Marks
  /\ clock \in Int /\ offset \in Int
  /\ queuedFrames \in Nat /\ bufferedFrames \in Nat
  /\ net \in NetRecord
  /\ Len(device) \in Nat

\* The FIFO never holds more than its capacity, so there is room for what a
\* write in progress has been granted.
FifoFits == Len(fifo) + (IF net.pc = "write" THEN net.room ELSE 0) <= FifoFrames

CallbackLocals ==
  /\ cb \in [pc : CbStates, now : Int, drop : Int, request : Nat, pad : Nat, count : Nat]
  /\ cb.pc \in {"skip", "skipped"} => cb.drop > 0
  /\ cb.pc = "skipped" => cb.count <= cb.drop
  /\ cb.pc \in {"skipped", "play"} => cb.count <= Len(fifo)
  /\ cb.pc = "read" => cb.pad = 0 \/ cb.pad + cb.request <= framesPerBuffer
  /\ cb.pc = "play" => cb.pad = 0 \/ cb.pad + cb.count <= framesPerBuffer
  /\ cb.pc \in {CbIdle, "start", "skip", "skipped", "decide"} => cb.pad = 0

PlayerInv == Numbers /\ FifoFits /\ CallbackLocals /\ LastMarkBehind

LEMMA InitHolds == Init => PlayerInv
<1> SUFFICES ASSUME Init PROVE PlayerInv
  OBVIOUS
<1>1. Len(device) \in Nat
  BY ConstantLength, PlayerAssumption DEF Init
<1>2. Numbers
  <2>1. fifo \in Seq(Int) /\ marks \in Seq(Marks)
    BY SMT DEF Init
  <2>2. last_mark \in Marks
    BY SMT DEF Init, Marks, Mark
  <2>3. net \in NetRecord
    BY PlayerAssumption, SMT DEF Init, NetIdle, NetStates, NetRecord
  <2> QED BY <1>1, <2>1, <2>2, <2>3, SMT DEF Init, Numbers
<1>3. FifoFits /\ CallbackLocals /\ LastMarkBehind
  <2>1. Len(fifo) = 0 /\ net.pc = "idle" /\ cb.pc = "idle" /\ cb.pad = 0
    BY DEF Init, NetIdle, CbIdle
  <2>2. FifoFits
    BY <2>1, PlayerAssumption, SMT DEF FifoFits
  <2>3. CallbackLocals
    <3>1. cb \in [pc : CbStates, now : Int, drop : Int, request : Nat, pad : Nat, count : Nat]
      BY SMT DEF Init, CbIdle, CbStates
    <3> QED BY <2>1, <3>1, SMT DEF CallbackLocals
  <2> QED BY <2>2, <2>3, SMT DEF Init, LastMarkBehind, Mark
<1> QED BY <1>2, <1>3 DEF PlayerInv

\* The mark CbDecide takes up is one queuedFrames has reached.
LEMMA CurrentMarkReached ==
  ASSUME Numbers, LastMarkBehind
  PROVE  /\ ReachedCount \in 0..Len(marks)
         /\ CurrentMark \in Marks
         /\ CurrentMark.frameCount <= queuedFrames
<1> DEFINE runs == {n \in 0..Len(marks) : \A i \in 1..n : marks[i].frameCount <= queuedFrames}
<1>1. \E n \in runs : \A m \in runs : m <= n
  <2>1. 0 \in runs /\ runs \in SUBSET (0..Len(marks)) /\ Len(marks) \in Nat
    BY SMT DEF Numbers
  <2> HIDE DEF runs
  <2> QED BY <2>1, LargestNatural
<1>2. ReachedCount \in runs
  BY <1>1 DEF ReachedCount, LastMarkBehind
<1> QED BY <1>2, SMT DEF CurrentMark, Numbers, LastMarkBehind

LEMMA NetUpdate ==
  ASSUME NEW r \in NetRecord, NEW pc \in NetStates
  PROVE  /\ [r EXCEPT !.pc = pc] \in NetRecord
         /\ \A packet \in Nat : [r EXCEPT !.pc = pc, !.packet = packet] \in NetRecord
         /\ \A room \in 0..PacketFrames : [r EXCEPT !.pc = pc, !.room = room] \in NetRecord
  BY Zenon DEF NetRecord

LEMMA NetNames ==
  /\ "write" \in NetStates /\ "mark" \in NetStates /\ "full" \in NetStates
  /\ "retry" \in NetStates /\ "monitor" \in NetStates
  BY DEF NetStates

\* Every step of the network thread keeps the invariant.
\* The network thread leaves the callback alone, and only adds frames.
LEMMA CallbackUntouched ==
  ASSUME PlayerInv, UNCHANGED cbVars, Len(fifo) \in Int, Len(fifo') \in Int,
         Len(fifo) <= Len(fifo')
  PROVE  CallbackLocals' /\ LastMarkBehind'
<1>1. cb' = cb /\ last_mark' = last_mark /\ queuedFrames' = queuedFrames
  BY DEF cbVars
<1>2. CallbackLocals'
  BY <1>1, SMT DEF PlayerInv, CallbackLocals
<1>3. LastMarkBehind'
  BY <1>1 DEF PlayerInv, LastMarkBehind
<1> QED BY <1>2, <1>3

LEMMA NetworkStep ==
  ASSUME PlayerInv, Network
  PROVE  PlayerInv'
<1> USE DEF PlayerInv
<1>0. Len(fifo) \in Int /\ Len(fifo) <= Len(fifo)
  BY SMT DEF Numbers
<1>1. CASE \E delay \in Delays : SyncPlayback(delay)
  <2>1. PICK delay \in Delays : SyncPlayback(delay)
    BY <1>1
  <2>2. net' \in NetRecord
    BY <2>1, NetUpdate, NetNames DEF SyncPlayback, Numbers
  <2>5. clock' \in Int
    BY <2>1, PlayerAssumption, SMT DEF SyncPlayback
  <2>3. Numbers'
    BY <2>1, <2>2, <2>5 DEF SyncPlayback, Numbers, cbVars
  <2>4. CallbackLocals' /\ LastMarkBehind'
    BY <1>0, <2>1, CallbackUntouched DEF SyncPlayback
  <2>6. FifoFits'
    BY <2>1, SMT DEF SyncPlayback, Numbers, NetRecord, FifoFits, NetIdle
  <2> QED BY <2>3, <2>4, <2>6
<1>2. CASE LosePacket
  <2>1. net' \in NetRecord
    BY <1>2, SMT DEF LosePacket, Numbers, NetRecord
  <2>2. Numbers'
    BY <1>2, <2>1 DEF LosePacket, Numbers, cbVars
  <2>3. CallbackLocals' /\ LastMarkBehind'
    BY <1>0, <1>2, CallbackUntouched DEF LosePacket
  <2>4. FifoFits'
    BY <1>2, SMT DEF LosePacket, Numbers, NetRecord, FifoFits, NetIdle
  <2> QED BY <2>2, <2>3, <2>4
<1>3. CASE EnqueueBegin
  <2>1. Len(fifo) \in Nat /\ Len(fifo) <= FifoFrames
    BY <1>3, SMT DEF EnqueueBegin, Numbers, FifoFits, NetIdle
  <2>2. Room \in 0..PacketFrames /\ Len(fifo) + Room <= FifoFrames
    BY <2>1, PlayerAssumption, SMT DEF Room, AtMost
  <2>3. net' \in NetRecord
    BY <1>3, <2>2, NetUpdate, NetNames, Zenon DEF EnqueueBegin, Numbers
  <2>4. Numbers'
    BY <1>3, <2>3 DEF EnqueueBegin, Numbers, cbVars
  <2>5. CallbackLocals' /\ LastMarkBehind'
    BY <1>0, <1>3, CallbackUntouched DEF EnqueueBegin
  <2>6. FifoFits'
    BY <1>3, <2>2, SMT DEF EnqueueBegin, Numbers, NetRecord, FifoFits
  <2> QED BY <2>4, <2>5, <2>6
<1>4. CASE EnqueueWrite
  <2> DEFINE granted == SubSeq(FramesOf(net.packet), 1, net.room)
  <2>1. FramesOf(net.packet) \in Seq(Int) /\ Len(FramesOf(net.packet)) = PacketFrames
    BY PlayerAssumption, SMT DEF Numbers, NetRecord, FramesOf
  <2>2. granted \in Seq(Int) /\ Len(granted) = net.room
    BY <2>1, PlayerAssumption, SMT DEF Numbers, NetRecord
  <2>3. fifo' \in Seq(Int) /\ Len(fifo') = Len(fifo) + net.room
    BY <1>4, <2>2, SMT DEF EnqueueWrite, Numbers
  <2>4. net' \in NetRecord
    BY <1>4, NetUpdate, NetNames DEF EnqueueWrite, Numbers
  <2>5. Numbers'
    BY <1>4, <2>3, <2>4 DEF EnqueueWrite, Numbers, cbVars
  <2>6. Len(fifo') \in Int /\ Len(fifo) <= Len(fifo')
    BY <1>0, <2>3, PlayerAssumption, SMT DEF Numbers, NetRecord
  <2>7. CallbackLocals' /\ LastMarkBehind'
    BY <1>0, <1>4, <2>6, CallbackUntouched DEF EnqueueWrite
  <2>8. FifoFits'
    BY <1>4, <2>3, SMT DEF EnqueueWrite, Numbers, NetRecord, FifoFits
  <2> QED BY <2>5, <2>7, <2>8
<1>5. CASE EnqueueMark
  <2>1. bufferedFrames' \in Nat /\ marks' \in Seq(Marks)
    <3>1. Mark(bufferedFrames + PacketFrames, net.packet * PacketFrames) \in Marks
      BY PlayerAssumption, SMT DEF Mark, Marks, Numbers, NetRecord
    <3>2. PostMark
      BY <1>5 DEF EnqueueMark
    <3>3. CASE UNCHANGED <<bufferedFrames, marks>>
      BY <3>3 DEF Numbers
    <3>4. CASE /\ bufferedFrames' = bufferedFrames + PacketFrames
               /\ marks' = Append(marks, Mark(bufferedFrames', net.packet * PacketFrames))
      BY <3>1, <3>4, PlayerAssumption, SMT DEF Numbers
    <3> QED BY <3>2, <3>3, <3>4, Zenon DEF PostMark
  <2>2. net' \in NetRecord /\ net'.pc \in {"full", "monitor"}
    <3>1. net.packet + 1 \in Nat
      BY SMT DEF Numbers, NetRecord
    <3>2. net' = [net EXCEPT !.pc = "full"]
          \/ net' = [net EXCEPT !.pc = "monitor", !.packet = net.packet + 1]
      BY <1>5, Zenon DEF EnqueueMark
    <3>3. net' \in NetRecord
      <4>1. [net EXCEPT !.pc = "full"] \in NetRecord
        BY NetUpdate, NetNames DEF Numbers
      <4>2. [net EXCEPT !.pc = "monitor", !.packet = net.packet + 1] \in NetRecord
        BY <3>1, NetUpdate, NetNames DEF Numbers
      <4> QED BY <3>2, <4>1, <4>2
    <3>4. net'.pc \in {"full", "monitor"}
      BY <3>2, Zenon DEF Numbers, NetRecord
    <3> QED BY <3>3, <3>4
  <2>3. Numbers'
    BY <1>5, <2>1, <2>2 DEF EnqueueMark, Numbers, cbVars
  <2>4. CallbackLocals' /\ LastMarkBehind'
    BY <1>0, <1>5, CallbackUntouched DEF EnqueueMark
  <2>5. FifoFits'
    BY <1>5, <2>2, SMT DEF EnqueueMark, Numbers, NetRecord, FifoFits
  <2> QED BY <2>3, <2>4, <2>5
<1>6. CASE MonitorPlayback
  <2>1. net' \in NetRecord /\ net'.pc \in {"retry", NetIdle}
    BY <1>6, SMT DEF MonitorPlayback, Numbers, NetRecord, NetStates, NetIdle
  <2>2. Numbers'
    BY <1>6, <2>1 DEF MonitorPlayback, Numbers, cbVars
  <2>3. CallbackLocals' /\ LastMarkBehind'
    BY <1>0, <1>6, CallbackUntouched DEF MonitorPlayback
  <2>4. FifoFits'
    BY <1>6, <2>1, SMT DEF MonitorPlayback, Numbers, NetRecord, FifoFits, NetIdle
  <2> QED BY <2>2, <2>3, <2>4
<1> QED BY <1>1, <1>2, <1>3, <1>4, <1>5, <1>6 DEF Network

-----------------------------------------------------------------------------
(* The callback.                                                           *)

CbRecord == [pc : CbStates, now : Int, drop : Int, request : Nat, pad : Nat, count : Nat]

\* A callback that returns has queued a buffer and reset its locals.
LEMMA ReturnKeepsLocals ==
  ASSUME NEW buffer, CbReturns(buffer), Len(buffer) \in Nat
  PROVE  CallbackLocals' /\ Len(device') \in Nat
<1>1. cb' = [pc |-> CbIdle, now |-> 0, drop |-> 0, request |-> 0, pad |-> 0, count |-> 0]
  BY DEF CbReturns
<1>2. cb' \in CbRecord
  BY <1>1, SMT DEF CbRecord, CbStates, CbIdle
<1>3. cb'.pc = "idle" /\ cb'.pad = 0
  BY <1>1 DEF CbIdle
<1>4. Len(device') \in Nat
  BY DEF CbReturns
<1> QED BY <1>2, <1>3, <1>4, SMT DEF CallbackLocals, CbRecord, CbIdle

LEMMA SilentReturn ==
  ASSUME CbReturns(Seqn(framesPerBuffer, Silence))
  PROVE  CallbackLocals' /\ Len(device') \in Nat
  BY ReturnKeepsLocals, ConstantLength, PlayerAssumption

LEMMA CbUpdate ==
  ASSUME NEW r \in CbRecord, NEW pc \in CbStates
  PROVE  /\ [r EXCEPT !.pc = pc] \in CbRecord
         /\ \A now \in Int, drop \in Int : [r EXCEPT !.pc = pc, !.now = now, !.drop = drop] \in CbRecord
         /\ \A now \in Int : [r EXCEPT !.pc = pc, !.now = now] \in CbRecord
         /\ \A count \in Nat : [r EXCEPT !.pc = pc, !.count = count] \in CbRecord
         /\ \A drop \in Int : [r EXCEPT !.pc = pc, !.drop = drop] \in CbRecord
         /\ \A request \in Nat, drop \in Int :
              [r EXCEPT !.pc = pc, !.request = request, !.drop = drop] \in CbRecord
         /\ \A request \in Nat, pad \in Nat :
              [r EXCEPT !.pc = pc, !.request = request, !.pad = pad] \in CbRecord
  BY Zenon DEF CbRecord

LEMMA CbNames ==
  /\ CbIdle \in CbStates /\ "start" \in CbStates /\ "skip" \in CbStates
  /\ "skipped" \in CbStates /\ "decide" \in CbStates /\ "read" \in CbStates
  /\ "play" \in CbStates /\ "crashed" \in CbStates
  BY DEF CbStates

LEMMA BufferFinishesStep ==
  ASSUME PlayerInv, NEW jitter \in Jitters, BufferFinishes(jitter)
  PROVE  PlayerInv'
<1> USE DEF PlayerInv
<1>1. cb \in CbRecord /\ cb.pc = "idle" /\ cb.pad = 0
  BY DEF CallbackLocals, CbRecord, BufferFinishes, CbIdle
<1>2. clock' \in Int
  BY PlayerAssumption, SMT DEF BufferFinishes, Numbers, AtMost
<1>3. Numbers'
  <2>1. Len(device') \in Nat
    BY SMT DEF BufferFinishes
  <2> QED BY <1>2, <2>1 DEF BufferFinishes, Numbers, netVars
<1>4. cb' \in CbRecord /\ cb'.pc = "start" /\ cb'.pad = 0
  BY <1>1, CbUpdate, CbNames, Zenon DEF BufferFinishes, CbRecord
<1>5. CallbackLocals'
  BY <1>4, SMT DEF CallbackLocals, CbRecord
<1>6. FifoFits' /\ LastMarkBehind'
  BY DEF BufferFinishes, FifoFits, LastMarkBehind, netVars
<1> QED BY <1>3, <1>5, <1>6

LEMMA CbStartStep ==
  ASSUME PlayerInv, CbStart
  PROVE  PlayerInv'
<1> USE DEF PlayerInv
<1> DEFINE nowUs == SystemTime
           late == StartDue(nowUs) /\ -nowUs < -accuracy
<1>1. cb \in CbRecord /\ cb.pc = "start" /\ cb.pad = 0
  BY DEF CallbackLocals, CbRecord, CbStart
<1>2. nowUs \in Int /\ (late => nowUs > 0)
  BY PlayerAssumption, SMT DEF SystemTime, Numbers
<1>3. FifoFits' /\ LastMarkBehind'
  BY DEF CbStart, FifoFits, LastMarkBehind, netVars
<1>4. CallbackLocals' /\ Len(device') \in Nat
  <2>1. CASE late /\ cb' = [cb EXCEPT !.pc = "skip", !.now = nowUs, !.drop = nowUs] /\ device' = device
    <3>1. cb' \in CbRecord /\ cb'.pc = "skip" /\ cb'.pad = 0 /\ cb'.drop = nowUs
      BY <1>1, <1>2, <2>1, CbUpdate, CbNames, Zenon DEF CbRecord
    <3> QED BY <1>2, <2>1, <3>1, SMT DEF CallbackLocals, CbRecord, Numbers
  <2>2. CASE cb' = [cb EXCEPT !.pc = "decide", !.now = nowUs] /\ device' = device
    <3>1. cb' \in CbRecord /\ cb'.pc = "decide" /\ cb'.pad = 0
      BY <1>1, <1>2, <2>2, CbUpdate, CbNames, Zenon DEF CbRecord
    <3> QED BY <2>2, <3>1, SMT DEF CallbackLocals, CbRecord, Numbers
  <2>3. CASE CbReturns(Seqn(framesPerBuffer, Silence))
    BY <2>3, SilentReturn
  <2> QED BY <2>1, <2>2, <2>3, Zenon DEF CbStart
<1>5. Numbers'
  BY <1>4 DEF CbStart, Numbers, netVars
<1> QED BY <1>3, <1>4, <1>5

LEMMA CbSkipReadStep ==
  ASSUME PlayerInv, CbSkipRead
  PROVE  PlayerInv'
<1> USE DEF PlayerInv
<1> DEFINE count == AtMost(Len(fifo), AtMost(cb.drop, MaxFrames))
<1>1. cb \in CbRecord /\ cb.pc = "skip" /\ cb.pad = 0 /\ cb.drop > 0
  BY DEF CallbackLocals, CbRecord, CbSkipRead
<1>2. count \in Nat /\ count <= Len(fifo) /\ count <= cb.drop
  BY <1>1, PlayerAssumption, SMT DEF AtMost, Numbers, CbRecord
<1>3. /\ cb' \in CbRecord /\ cb'.pc = "skipped" /\ cb'.pad = 0
      /\ cb'.drop = cb.drop /\ cb'.count = count
  BY <1>1, <1>2, CbUpdate, CbNames, Zenon DEF CbSkipRead, CbRecord
<1>4. CallbackLocals'
  BY <1>1, <1>2, <1>3, SMT DEF CallbackLocals, CbRecord, CbSkipRead
<1>5. Numbers' /\ FifoFits' /\ LastMarkBehind'
  BY DEF CbSkipRead, Numbers, FifoFits, LastMarkBehind, netVars
<1> QED BY <1>4, <1>5

LEMMA CbSkipStep ==
  ASSUME PlayerInv, CbSkip
  PROVE  PlayerInv'
<1> USE DEF PlayerInv
<1>1. /\ cb \in CbRecord /\ cb.pc = "skipped" /\ cb.pad = 0
      /\ cb.drop > 0 /\ cb.count <= cb.drop /\ cb.count \in 0..Len(fifo)
  BY SMT DEF CallbackLocals, CbRecord, CbSkip
<1>2. fifo' \in Seq(Int) /\ Len(fifo') <= Len(fifo)
  <2>1. fifo' = SkipFirst(fifo, cb.count)
    BY Zenon DEF CbSkip
  <2>2. fifo \in Seq(Int)
    BY DEF Numbers
  <2>3. SkipFirst(fifo, cb.count) \in Seq(Int)
    BY <1>1, <2>2, SkipFirstIsSeq, Zenon
  <2>4. Len(SkipFirst(fifo, cb.count)) <= Len(fifo)
    BY <1>1, <2>2, SMT DEF SkipFirst
  <2> QED BY <2>1, <2>3, <2>4, Zenon
<1>3. CallbackLocals'
  <2>1. CASE cb' = [cb EXCEPT !.pc = "decide", !.drop = 0]
    <3>1. 0 \in Int
      OBVIOUS
    <3>2. cb' \in CbRecord
      BY <1>1, <2>1, <3>1, CbUpdate, CbNames
    <3>3. cb'.pc = "decide" /\ cb'.pad = 0
      BY <1>1, <2>1, <3>2, Zenon DEF CbRecord
    <3> QED BY <3>2, <3>3, SMT DEF CallbackLocals, CbRecord
  <2>2. CASE cb.count \notin {0, cb.drop}
             /\ cb' = [cb EXCEPT !.pc = "skip", !.drop = cb.drop - cb.count]
    <3>1. cb.drop - cb.count \in Int /\ cb.drop - cb.count > 0
      BY <1>1, <2>2, SMT DEF CbRecord
    <3>2. cb' \in CbRecord /\ cb'.pc = "skip" /\ cb'.pad = 0 /\ cb'.drop = cb.drop - cb.count
      BY <1>1, <2>2, <3>1, CbUpdate, CbNames, Zenon DEF CbRecord
    <3> QED BY <3>1, <3>2, SMT DEF CallbackLocals, CbRecord
  <2> QED BY <2>1, <2>2, Zenon DEF CbSkip
<1>4. queuedFrames' \in Nat /\ queuedFrames' >= queuedFrames
  <2>1. queuedFrames' = queuedFrames + cb.count
    BY Zenon DEF CbSkip
  <2> QED BY <1>1, <2>1, SMT DEF Numbers
<1>5. Numbers'
  BY <1>2, <1>4 DEF CbSkip, Numbers, netVars
<1>6. FifoFits'
  <2>1. net' = net
    BY DEF CbSkip, netVars
  <2>2. net.room \in Int /\ Len(fifo) \in Int /\ Len(fifo') \in Int
    BY <1>2, PlayerAssumption, SMT DEF Numbers, NetRecord
  <2> QED BY <1>2, <2>1, <2>2, PlayerAssumption, SMT DEF FifoFits
<1>7. LastMarkBehind'
  BY <1>4, SMT DEF CbSkip, LastMarkBehind, Numbers, Marks
<1> QED BY <1>3, <1>5, <1>6, <1>7

LEMMA CbDecideStep ==
  ASSUME PlayerInv, CbDecide
  PROVE  PlayerInv'
<1> USE DEF PlayerInv
<1> DEFINE tolerance == accuracy \div 2
           late == cb.now - PlaybackTime(last_mark')
           request == AtMost(framesPerBuffer + late, MaxFrames)
<1>1. cb \in CbRecord /\ cb.pc = "decide" /\ cb.pad = 0
  BY DEF CallbackLocals, CbRecord, CbDecide
<1>2. last_mark' \in Marks /\ last_mark'.frameCount <= queuedFrames
  BY CurrentMarkReached DEF CbDecide
<1>3. marks' \in Seq(Marks)
  BY CurrentMarkReached, SkipFirstIsSeq DEF CbDecide, Numbers
<1>4. late \in Int /\ tolerance \in Nat /\ tolerance > 0
  BY <1>1, <1>2, PlayerAssumption, SMT DEF PlaybackTime, Numbers, Marks, CbRecord
<1>5. CallbackLocals' /\ Len(device') \in Nat
  <2>1. CASE cb' = [cb EXCEPT !.pc = "read", !.request = framesPerBuffer, !.drop = late]
             /\ device' = device
    <3>1. cb' \in CbRecord /\ cb'.pc = "read" /\ cb'.pad = 0
      <4> HIDE DEF late
      <4>1. framesPerBuffer \in Nat
        BY PlayerAssumption
      <4>2. cb' \in CbRecord
        BY <1>1, <1>4, <2>1, <4>1, CbUpdate, CbNames
      <4> QED BY <1>1, <2>1, <4>2, Zenon DEF CbRecord
    <3> QED BY <2>1, <3>1, SMT DEF CallbackLocals, CbRecord, Numbers
  <2>2. CASE late >= tolerance /\ device' = device
             /\ cb' = [cb EXCEPT !.pc = "read", !.request = request,
                                 !.drop = request - framesPerBuffer]
    <3>1. request \in Nat /\ request - framesPerBuffer \in Int
      <4> HIDE DEF late, tolerance
      <4> QED BY <1>4, <2>2, PlayerAssumption, SMT DEF AtMost
    <3>2. cb' \in CbRecord /\ cb'.pc = "read" /\ cb'.pad = 0
      <4> HIDE DEF request
      <4>1. cb' \in CbRecord
        BY <1>1, <2>2, <3>1, CbUpdate, CbNames
      <4> QED BY <1>1, <2>2, <4>1, Zenon DEF CbRecord
    <3> QED BY <2>2, <3>2, SMT DEF CallbackLocals, CbRecord, Numbers
  <2>3. CASE late <= -tolerance /\ -late < framesPerBuffer /\ device' = device
             /\ cb' = [cb EXCEPT !.pc = "read", !.request = framesPerBuffer + late, !.pad = -late]
    <3>1. framesPerBuffer + late \in Nat /\ -late \in Nat
      <4> HIDE DEF late, tolerance
      <4> QED BY <1>4, <2>3, PlayerAssumption, SMT
    <3>2. (framesPerBuffer + late) + -late <= framesPerBuffer
      BY <1>4, PlayerAssumption, SMT
    <3>3. /\ cb' \in CbRecord /\ cb'.pc = "read"
          /\ cb'.pad = -late /\ cb'.request = framesPerBuffer + late
      <4> HIDE DEF late
      <4>1. cb' \in CbRecord
        BY <1>1, <2>3, <3>1, CbUpdate, CbNames
      <4> QED BY <1>1, <2>3, <4>1, Zenon DEF CbRecord
    <3> HIDE DEF late
    <3> QED BY <1>4, <2>3, <3>1, <3>2, <3>3, PlayerAssumption, SMT DEF CallbackLocals, CbRecord, Numbers, CbIdle
  <2>4. CASE CbReturns(Seqn(framesPerBuffer, Silence))
    BY <2>4, SilentReturn
  <2> QED BY <2>1, <2>2, <2>3, <2>4, Zenon DEF CbDecide
<1>6. Numbers'
  BY <1>2, <1>3, <1>5 DEF CbDecide, Numbers, netVars
<1>7. FifoFits' /\ LastMarkBehind'
  BY <1>2 DEF CbDecide, FifoFits, LastMarkBehind, netVars
<1> QED BY <1>5, <1>6, <1>7

LEMMA CbReadStep ==
  ASSUME PlayerInv, CbRead
  PROVE  PlayerInv'
<1> USE DEF PlayerInv
<1> DEFINE count == AtMost(Len(fifo), cb.request)
<1>1. /\ cb \in CbRecord /\ cb.pc = "read"
      /\ cb.pad = 0 \/ cb.pad + cb.request <= framesPerBuffer
  BY DEF CallbackLocals, CbRecord, CbRead
<1>2. count \in Nat /\ count <= Len(fifo) /\ count <= cb.request
  BY <1>1, SMT DEF AtMost, Numbers, CbRecord
<1>3. cb' \in CbRecord /\ cb'.pc = "play" /\ cb'.pad = cb.pad /\ cb'.count = count
  BY <1>1, <1>2, CbUpdate, CbNames, Zenon DEF CbRead, CbRecord
<1>4. CallbackLocals'
  <2>1. cb.pad = 0 \/ cb.pad + count <= framesPerBuffer
    <3> HIDE DEF count
    <3> QED BY <1>1, <1>2, PlayerAssumption, SMT DEF CbRecord
  <2>2. Len(fifo') = Len(fifo)
    BY DEF CbRead
  <2> HIDE DEF count
  <2> QED BY <1>2, <1>3, <2>1, <2>2, SMT DEF CallbackLocals, CbRecord, CbIdle
<1>5. Numbers' /\ FifoFits' /\ LastMarkBehind'
  BY DEF CbRead, Numbers, FifoFits, LastMarkBehind, netVars
<1> QED BY <1>4, <1>5

\* The length of a buffer built frame by frame.
LEMMA IndexedLength ==
  ASSUME NEW n \in Nat, NEW s, DOMAIN s = 1..n, s = [i \in 1..n |-> s[i]]
  PROVE  Len(s) \in Nat
<1>1. s \in Seq({s[i] : i \in 1..n})
  <2>1. s \in [1..n -> {s[i] : i \in 1..n}]
    OBVIOUS
  <2> QED BY <2>1, SeqDef
<1> QED BY <1>1, LenProperties

LEMMA CbPlayStep ==
  ASSUME PlayerInv, CbPlay
  PROVE  PlayerInv'
<1> USE DEF PlayerInv
<1> DEFINE frames == SubSeq(fifo, 1, cb.count)
<1>1. /\ cb \in CbRecord /\ cb.pc = "play" /\ cb.count \in 0..Len(fifo)
      /\ cb.pad = 0 \/ cb.pad + cb.count <= framesPerBuffer
  BY SMT DEF CallbackLocals, CbRecord, CbPlay
<1>2. fifo' \in Seq(Int) /\ Len(fifo') <= Len(fifo)
  <2>1. fifo' = SkipFirst(fifo, cb.count)
    BY Zenon DEF CbPlay
  <2>2. fifo \in Seq(Int)
    BY DEF Numbers
  <2> HIDE DEF frames
  <2>3. SkipFirst(fifo, cb.count) \in Seq(Int)
    BY <1>1, <2>2, SkipFirstIsSeq, Zenon
  <2>4. Len(SkipFirst(fifo, cb.count)) <= Len(fifo)
    BY <1>1, <2>2, SMT DEF SkipFirst
  <2> QED BY <2>1, <2>3, <2>4, Zenon
<1>3. frames \in Seq(Int) /\ Len(frames) = cb.count
  BY <1>1, SMT DEF Numbers
<1>4. CallbackLocals' /\ Len(device') \in Nat
  <2>1. CASE CbReturns(<< >>)
    BY <2>1, ReturnKeepsLocals, SMT
  <2>2. CASE CbReturns(Seqn(framesPerBuffer, Silence))
    BY <2>2, SilentReturn
  <2>3. CASE cb.pad > 0 /\ CbReturns(Seqn(cb.pad, Silence) \o frames
                                       \o Seqn(framesPerBuffer - cb.pad - cb.count, Stale))
    <3> DEFINE silence == Seqn(cb.pad, Silence)
               stale == Seqn(framesPerBuffer - cb.pad - cb.count, Stale)
    <3>1. cb.pad \in Nat /\ framesPerBuffer - cb.pad - cb.count \in Nat
      BY <1>1, <2>3, PlayerAssumption, SMT DEF CbRecord
    <3>2. silence \in Seq({Silence}) /\ stale \in Seq({Stale})
      BY <3>1, ConstantLength
    <3>3. silence \in Seq(Int) /\ stale \in Seq(Int)
      BY <3>2, SMT DEF Silence, Stale
    <3>4. Len(silence \o frames \o stale) \in Nat
      <4> HIDE DEF silence, stale, frames
      <4> QED BY <1>3, <3>3, ConcatProperties, LenProperties
    <3> QED BY <2>3, <3>4, ReturnKeepsLocals
  <2>4. CASE CbReturns(frames)
    BY <1>3, <2>4, ReturnKeepsLocals, LenProperties
  <2>5. CASE CbReturns(DropFrames(frames, cb.drop))
    <3>1. Len(DropFrames(frames, cb.drop)) \in Nat
      BY IndexedLength, PlayerAssumption DEF DropFrames
    <3> QED BY <2>5, <3>1, ReturnKeepsLocals
  <2>6. CASE cb' = [cb EXCEPT !.pc = "crashed"] /\ device' = device
    <3>1. cb' \in CbRecord
      BY <1>1, <2>6, CbUpdate, CbNames
    <3>2. cb'.pc = "crashed"
      BY <1>1, <2>6, Zenon DEF CbRecord
    <3> QED BY <2>6, <3>1, <3>2, SMT DEF CallbackLocals, CbRecord, CbIdle, Numbers
  <2> QED BY <2>1, <2>2, <2>3, <2>4, <2>5, <2>6, Zenon DEF CbPlay
<1>5. queuedFrames' \in Nat /\ queuedFrames' >= queuedFrames
  <2>1. queuedFrames' = queuedFrames + cb.count
    BY Zenon DEF CbPlay, FramesTaken
  <2> HIDE DEF frames
  <2> QED BY <1>1, <2>1, SMT DEF Numbers
<1>6. Numbers'
  BY <1>2, <1>4, <1>5 DEF CbPlay, Numbers, netVars
<1>7. FifoFits'
  <2>1. net' = net
    BY DEF CbPlay, netVars
  <2>2. net.room \in Int /\ Len(fifo) \in Int /\ Len(fifo') \in Int
    BY <1>2, PlayerAssumption, SMT DEF Numbers, NetRecord
  <2> QED BY <1>2, <2>1, <2>2, PlayerAssumption, SMT DEF FifoFits
<1>8. LastMarkBehind'
  BY <1>5, SMT DEF CbPlay, LastMarkBehind, Numbers, Marks
<1> QED BY <1>4, <1>6, <1>7, <1>8

-----------------------------------------------------------------------------
LEMMA StepHolds == PlayerInv /\ [Next]_vars => PlayerInv'
<1> SUFFICES ASSUME PlayerInv, [Next]_vars PROVE PlayerInv'
  OBVIOUS
<1>1. CASE Network
  BY <1>1, NetworkStep
<1>2. CASE Callback
  BY <1>2, BufferFinishesStep, CbStartStep, CbSkipReadStep, CbSkipStep, CbDecideStep,
     CbReadStep, CbPlayStep DEF Callback
<1>3. CASE \E offsetUs \in Offsets : SetSystemTimeOffset(offsetUs)
  <2>1. PICK offsetUs \in Offsets : SetSystemTimeOffset(offsetUs)
    BY <1>3
  <2>2. offset' \in Int
    BY <2>1, PlayerAssumption DEF SetSystemTimeOffset
  <2> QED BY <2>1, <2>2 DEF SetSystemTimeOffset, PlayerInv, Numbers, FifoFits, CallbackLocals,
                            LastMarkBehind, netVars, cbVars
<1>4. CASE UNCHANGED vars
  BY <1>4 DEF vars, netVars, cbVars, PlayerInv, Numbers, FifoFits, CallbackLocals, LastMarkBehind
<1> QED BY <1>1, <1>2, <1>3, <1>4 DEF Next

LEMMA PlayerInvariant == Spec => []PlayerInv
<1>1. Init => PlayerInv
  BY InitHolds
<1>2. PlayerInv /\ [Next]_vars => PlayerInv'
  BY StepHolds
<1> QED BY <1>1, <1>2, PTL DEF Spec

(* The mark the callback extrapolates from is never ahead of the frames it *)
(* has taken, for every stream, FIFO size, loss, jitter and clock offset:  *)
(* the subtraction at audioplayer.cpp:216 does not go below zero and the   *)
(* test at line 208 never blocks the marks.                                *)
THEOREM MarkNeverAhead == Spec => []LastMarkBehind
<1>1. PlayerInv => LastMarkBehind
  BY DEF PlayerInv
<1> QED BY <1>1, PlayerInvariant, PTL
-----------------------------------------------------------------------------
(* Where the marks point.                                                  *)

\* Media time of the last frame that was sent to the FIFO or lost.
Sent == (net.packet - 1) * PacketFrames + (IF net.pc = "mark" THEN net.room ELSE 0)

\* How far the stream moves on over so many frames; no further when exact.
Reaches(time, frames, exact) == time >= frames /\ (exact => time = frames)

\* A mark agrees with the frames f behind those that were taken: it names one
\* of them, and from it to every later one and to the end of what was sent
\* the media time moves on at least as fast as the frames.
Follows(m, f, taken, sent, exact) ==
  LET ahead == m.frameCount - taken
  IN  /\ ahead <= Len(f)
      /\ ahead > 0 => f[ahead] = m.time
      /\ \A i \in 1..Len(f) : i > ahead => Reaches(f[i] - m.time, i - ahead, exact)
      /\ Reaches(sent - m.time, Len(f) - ahead, exact)

LEMMA ReachesMoves ==
  ASSUME NEW time \in Int, NEW frames \in Int, NEW n \in Int, NEW exact \in BOOLEAN,
         Reaches(time, frames, exact)
  PROVE  Reaches(time + n, frames + n, exact)
<1>1. CASE exact
  BY <1>1, SMT DEF Reaches
<1>2. CASE ~exact
  BY <1>2, SMT DEF Reaches
<1> QED BY <1>1, <1>2

LEMMA FollowsTaken ==
  ASSUME NEW m \in Marks, NEW f \in Seq(Int), NEW taken \in Nat, NEW sent \in Int,
         NEW exact \in BOOLEAN, NEW n \in 0..Len(f),
         Follows(m, f, taken, sent, exact)
  PROVE  Follows(m, SkipFirst(f, n), taken + n, sent, exact)
<1> DEFINE ahead == m.frameCount - taken
           later == SkipFirst(f, n)
<1>1. /\ later \in Seq(Int) /\ Len(later) = Len(f) - n
      /\ \A i \in 1..Len(later) : later[i] = f[i + n] /\ i + n \in 1..Len(f)
  <2>1. PICK size \in Nat : size = Len(f)
    OBVIOUS
  <2>2. later = SubSeq(f, n + 1, size)
    BY <2>1 DEF SkipFirst
  <2>3. later \in Seq(Int) /\ Len(later) = size - n
    BY <2>1, <2>2, SMT
  <2>4. ASSUME NEW i \in 1..(size - n) PROVE later[i] = f[i + n] /\ i + n \in 1..size
    BY <2>1, <2>2, SMT
  <2> QED BY <2>1, <2>3, <2>4
<1>2. m.frameCount \in Nat /\ m.time \in Int /\ ahead \in Int /\ m.frameCount - (taken + n) = ahead - n
  BY SMT DEF Marks
<1>3. /\ ahead <= Len(f)
      /\ ahead > 0 => f[ahead] = m.time
      /\ \A i \in 1..Len(f) : i > ahead => Reaches(f[i] - m.time, i - ahead, exact)
      /\ Reaches(sent - m.time, Len(f) - ahead, exact)
  BY DEF Follows
<1> HIDE DEF ahead, later
<1>4. ASSUME ahead - n > 0
      PROVE  later[ahead - n] = m.time
  <2>1. ahead - n \in 1..Len(later) /\ (ahead - n) + n = ahead /\ ahead > 0
    BY <1>1, <1>2, <1>3, <1>4, SMT
  <2> QED BY <1>1, <1>3, <2>1
<1>5. ASSUME NEW i \in 1..Len(later), i > ahead - n
      PROVE  Reaches(later[i] - m.time, i - (ahead - n), exact)
  <2>1. i + n \in 1..Len(f) /\ i + n > ahead /\ later[i] = f[i + n]
    BY <1>1, <1>2, <1>5, SMT
  <2>2. Reaches(f[i + n] - m.time, (i + n) - ahead, exact)
    BY <1>3, <2>1
  <2>3. (i + n) - ahead = i - (ahead - n)
    BY <1>2, SMT
  <2> QED BY <2>1, <2>2, <2>3
<1>6. Reaches(sent - m.time, Len(later) - (ahead - n), exact)
  <2>1. Len(later) - (ahead - n) = Len(f) - ahead
    BY <1>1, <1>2, SMT
  <2> QED BY <1>3, <2>1
<1>7. ahead - n <= Len(later)
  BY <1>1, <1>2, <1>3, SMT
<1> QED BY <1>2, <1>4, <1>5, <1>6, <1>7 DEF Follows, later

LEMMA FollowsWritten ==
  ASSUME NEW m \in Marks, NEW f \in Seq(Int), NEW taken \in Nat, NEW sent \in Int,
         NEW exact \in BOOLEAN, NEW g \in Seq(Int),
         \A j \in 1..Len(g) : g[j] = sent + j,
         Follows(m, f, taken, sent, exact)
  PROVE  Follows(m, f \o g, taken, sent + Len(g), exact)
<1> DEFINE ahead == m.frameCount - taken
           longer == f \o g
<1>1. /\ longer \in Seq(Int) /\ Len(longer) = Len(f) + Len(g) /\ Len(f) \in Nat /\ Len(g) \in Nat
      /\ \A i \in 1..Len(f) : longer[i] = f[i]
      /\ \A i \in 1..Len(longer) : i > Len(f) => i - Len(f) \in 1..Len(g) /\ longer[i] = g[i - Len(f)]
  BY SMT
<1>2. m.frameCount \in Nat /\ m.time \in Int /\ ahead \in Int
  BY SMT DEF Marks
<1>3. /\ ahead <= Len(f)
      /\ ahead > 0 => f[ahead] = m.time
      /\ \A i \in 1..Len(f) : i > ahead => Reaches(f[i] - m.time, i - ahead, exact)
      /\ Reaches(sent - m.time, Len(f) - ahead, exact)
  BY DEF Follows
<1> HIDE DEF ahead, longer
<1>4. ASSUME NEW i \in 1..Len(longer), i > ahead
      PROVE  Reaches(longer[i] - m.time, i - ahead, exact)
  <2>1. CASE i \in 1..Len(f)
    BY <1>1, <1>3, <1>4, <2>1
  <2>2. CASE i > Len(f)
    <3>1. longer[i] = sent + (i - Len(f))
      BY <1>1, <2>2
    <3> DEFINE n == i - Len(f)
    <3>2. n \in Int /\ sent - m.time \in Int /\ Len(f) - ahead \in Int
      BY <1>1, <1>2, SMT
    <3>3. Reaches((sent - m.time) + n, (Len(f) - ahead) + n, exact)
      <4> HIDE DEF n
      <4> QED BY <1>3, <3>2, ReachesMoves
    <3>4. (sent - m.time) + n = longer[i] - m.time /\ (Len(f) - ahead) + n = i - ahead
      BY <1>1, <1>2, <3>1, SMT
    <3> QED BY <3>3, <3>4
  <2> QED BY <1>1, <2>1, <2>2, SMT
<1>5. Reaches((sent + Len(g)) - m.time, Len(longer) - ahead, exact)
  <2>1. sent - m.time \in Int /\ Len(f) - ahead \in Int /\ Len(g) \in Int
    BY <1>1, <1>2, SMT
  <2>2. Reaches((sent - m.time) + Len(g), (Len(f) - ahead) + Len(g), exact)
    BY <1>3, <2>1, ReachesMoves
  <2>3. /\ (sent - m.time) + Len(g) = (sent + Len(g)) - m.time
        /\ (Len(f) - ahead) + Len(g) = Len(longer) - ahead
    BY <1>1, <1>2, SMT
  <2> QED BY <2>2, <2>3
<1>6. ahead <= Len(longer) /\ (ahead > 0 => longer[ahead] = m.time)
  BY <1>1, <1>2, <1>3, SMT
<1> QED BY <1>4, <1>5, <1>6 DEF Follows, ahead, longer

LEMMA FollowsLoss ==
  ASSUME NEW m \in Marks, NEW f \in Seq(Int), NEW taken \in Nat, NEW sent \in Int,
         NEW exact \in BOOLEAN, NEW n \in Nat,
         Follows(m, f, taken, sent, exact)
  PROVE  Follows(m, f, taken, sent + n, FALSE)
<1>1. \A time \in Int, frames \in Int : Reaches(time, frames, exact) => Reaches(time, frames, FALSE)
                                                                     /\ Reaches(time + n, frames, FALSE)
  BY SMT DEF Reaches
<1>2. m.frameCount \in Nat /\ m.time \in Int /\ Len(f) \in Nat
  BY SMT DEF Marks
<1>3. \A i \in 1..Len(f) : f[i] - m.time \in Int /\ i - (m.frameCount - taken) \in Int
  BY <1>2, SMT
<1>4. /\ sent - m.time \in Int /\ Len(f) - (m.frameCount - taken) \in Int
      /\ (sent + n) - m.time = (sent - m.time) + n
  BY <1>2, SMT
<1> QED BY <1>1, <1>3, <1>4 DEF Follows

\* The marks the callback may still work from, and the start of the stream,
\* which is a mark that needs no post.
Known == {Mark(0, 0), last_mark} \cup {marks[i] : i \in 1..Len(marks)}

\* Frames written whose mark is still to be posted.
Unmarked == IF net.pc = "mark" THEN net.room ELSE 0

\* The count of frames posted is that of the frames written.
PostsMatchFifo ==
  /\ bufferedFrames <= queuedFrames + Len(fifo) - Unmarked
  /\ bufferedFrames < MaxBuffered => bufferedFrames = queuedFrames + Len(fifo) - Unmarked

\* The frame the next mark is for.
EndIsNamed == net.pc = "mark" /\ net.room = PacketFrames /\ Len(fifo) > 0 => fifo[Len(fifo)] = Sent

Position ==
  /\ PostsMatchFifo /\ EndIsNamed
  /\ \A m \in Known : Follows(m, fifo, queuedFrames, Sent, ~lost)

PositionInv == lost \in BOOLEAN /\ cut \in BOOLEAN /\ (~cut => Position)

LEMMA KnownMarks ==
  ASSUME Numbers
  PROVE  Known \subseteq Marks
<1>1. Mark(0, 0) \in Marks
  BY SMT DEF Mark, Marks
<1>2. \A i \in 1..Len(marks) : marks[i] \in Marks
  BY SMT DEF Numbers
<1> QED BY <1>1, <1>2 DEF Known, Numbers

LEMMA SentIsInt ==
  ASSUME Numbers
  PROVE  Sent \in Int
  BY PlayerAssumption, SMT DEF Numbers, NetRecord, Sent

LEMMA PositionAtStart == Init => PositionInv
<1> SUFFICES ASSUME Init PROVE PositionInv
  OBVIOUS
<1>1. /\ fifo = << >> /\ marks = << >> /\ last_mark = Mark(0, 0) /\ net.pc = "idle" /\ net.packet = 1
      /\ queuedFrames = 0 /\ bufferedFrames = 0 /\ lost = FALSE /\ cut = FALSE
  BY DEF Init, NetIdle
<1>2. Known = {Mark(0, 0)}
  <2>1. {marks[i] : i \in 1..Len(marks)} = {}
    BY <1>1, SMT
  <2> QED BY <1>1, <2>1 DEF Known
<1>3. Sent = 0 /\ Len(fifo) = 0 /\ Unmarked = 0
  BY <1>1, PlayerAssumption, SMT DEF Sent, Unmarked
<1>4. Follows(Mark(0, 0), fifo, queuedFrames, Sent, ~lost)
  BY <1>1, <1>3, SMT DEF Follows, Reaches, Mark
<1>5. PostsMatchFifo /\ EndIsNamed
  BY <1>1, <1>3, SMT DEF PostsMatchFifo, EndIsNamed
<1> QED BY <1>1, <1>2, <1>4, <1>5 DEF PositionInv, Position

\* The callback takes frames, and at most takes up a mark.
LEMMA PositionWhenTaken ==
  ASSUME PlayerInv, PositionInv, netVars' = netVars, Known' \subseteq Known,
         NEW n \in 0..Len(fifo), fifo' = SkipFirst(fifo, n), queuedFrames' = queuedFrames + n
  PROVE  PositionInv'
<1>1. net' = net /\ bufferedFrames' = bufferedFrames /\ cut' = cut /\ lost' = lost
  BY DEF netVars
<1>2. Sent' = Sent /\ Unmarked' = Unmarked
  BY <1>1 DEF Sent, Unmarked
<1> SUFFICES ASSUME ~cut PROVE Position'
  BY <1>1 DEF PositionInv
<1>3. Position /\ Numbers
  BY DEF PositionInv, PlayerInv
<1>4. fifo \in Seq(Int) /\ queuedFrames \in Nat /\ bufferedFrames \in Nat /\ Unmarked \in Int
  BY <1>3, PlayerAssumption, SMT DEF Numbers, NetRecord, Unmarked
<1>5. /\ Len(fifo') = Len(fifo) - n
      /\ Len(fifo') > 0 => Len(fifo) > 0 /\ fifo'[Len(fifo')] = fifo[Len(fifo)]
  <2>1. /\ Len(SkipFirst(fifo, n)) = Len(fifo) - n
        /\ Len(fifo) - n > 0 => Len(fifo) > 0 /\ SkipFirst(fifo, n)[Len(fifo) - n] = fifo[Len(fifo)]
    BY <1>4, SMT DEF SkipFirst
  <2> QED BY <2>1
<1>6. PostsMatchFifo'
  <2>1. queuedFrames' + Len(fifo') - Unmarked' = queuedFrames + Len(fifo) - Unmarked
    BY <1>2, <1>4, <1>5, SMT
  <2>2. PostsMatchFifo
    BY <1>3 DEF Position
  <2> QED BY <1>1, <1>2, <2>1, <2>2, Zenon DEF PostsMatchFifo
<1>7. EndIsNamed'
  BY <1>1, <1>2, <1>3, <1>5 DEF Position, EndIsNamed
<1>8. ASSUME NEW m \in Known'
      PROVE  Follows(m, fifo', queuedFrames', Sent', ~lost')
  <2>1. m \in Known /\ m \in Marks
    BY <1>3, <1>8, KnownMarks
  <2>2. Follows(m, fifo, queuedFrames, Sent, ~lost)
    BY <1>3, <2>1 DEF Position
  <2>3. Sent \in Int /\ (~lost) \in BOOLEAN
    BY <1>3, SentIsInt DEF PositionInv
  <2>4. Follows(m, SkipFirst(fifo, n), queuedFrames + n, Sent, ~lost)
    BY <1>4, <2>1, <2>2, <2>3, FollowsTaken
  <2> QED BY <1>1, <1>2, <2>4
<1> QED BY <1>6, <1>7, <1>8 DEF Position

\* Nothing of it moves.
LEMMA PositionUnmoved ==
  ASSUME PlayerInv, PositionInv, UNCHANGED <<fifo, marks, last_mark, queuedFrames, bufferedFrames, lost, cut>>,
         net'.packet = net.packet, net.pc # "mark", net'.pc # "mark"
  PROVE  PositionInv'
<1>1. Sent' = Sent /\ Unmarked' = Unmarked /\ Known' = Known
  BY DEF Sent, Unmarked, Known
<1> QED BY <1>1 DEF PositionInv, Position, PostsMatchFifo, EndIsNamed

LEMMA PositionNetwork ==
  ASSUME PlayerInv, PositionInv, Network
  PROVE  PositionInv'
<1>1. Numbers /\ net \in NetRecord /\ net.packet \in Nat /\ net.room \in 0..PacketFrames
  BY DEF PlayerInv, Numbers, NetRecord
<1>2. CASE (\E delay \in Delays : SyncPlayback(delay)) \/ EnqueueBegin \/ MonitorPlayback
  <2>1. /\ UNCHANGED <<fifo, marks, last_mark, queuedFrames, bufferedFrames, lost, cut>>
        /\ net.pc # "mark" /\ net'.pc # "mark" /\ net'.packet = net.packet
    <3>1. CASE \E delay \in Delays : SyncPlayback(delay)
      <4>1. net' = [net EXCEPT !.pc = "monitor"] /\ net.pc = "idle"
        BY <3>1 DEF SyncPlayback, NetIdle
      <4> QED BY <1>1, <3>1, <4>1, SMT DEF SyncPlayback, cbVars, NetRecord
    <3>2. CASE EnqueueBegin
      <4>1. net' = [net EXCEPT !.pc = "write", !.room = Room] /\ net.pc \in {"idle", "retry"}
        BY <3>2 DEF EnqueueBegin, NetIdle
      <4>2. net'.pc = "write" /\ net'.packet = net.packet
        BY <1>1, <4>1 DEF NetRecord
      <4> QED BY <3>2, <4>1, <4>2 DEF EnqueueBegin, cbVars
    <3>3. CASE MonitorPlayback
      <4>1. /\ net.pc \in {"idle", "monitor", "full"}
            /\ net' = [net EXCEPT !.pc = IF net.pc = "full" THEN "retry" ELSE "idle"]
        BY <3>3 DEF MonitorPlayback, NetIdle
      <4>2. net'.pc \in {"idle", "retry"} /\ net'.packet = net.packet
        BY <1>1, <4>1 DEF NetRecord
      <4> QED BY <3>3, <4>1, <4>2 DEF MonitorPlayback, cbVars
    <3> QED BY <1>2, <3>1, <3>2, <3>3
  <2> QED BY <2>1, PositionUnmoved
<1>3. CASE LosePacket
  <2>1. /\ net' = [net EXCEPT !.packet = net.packet + 1] /\ net.pc = "idle" /\ lost' = TRUE
        /\ UNCHANGED <<fifo, marks, last_mark, queuedFrames, bufferedFrames, cut>>
    BY <1>3 DEF LosePacket, NetIdle, cbVars
  <2>2. net'.pc = "idle" /\ net'.packet = net.packet + 1
    BY <1>1, <2>1, SMT DEF NetRecord
  <2>3. Sent' = Sent + PacketFrames /\ Unmarked' = Unmarked /\ Known' = Known
    <3>1. Sent' = Sent + PacketFrames
      BY <1>1, <2>1, <2>2, PlayerAssumption, SMT DEF Sent
    <3> QED BY <2>1, <2>2, <3>1 DEF Unmarked, Known
  <2> SUFFICES ASSUME ~cut PROVE Position'
    BY <2>1 DEF PositionInv
  <2>4. Position
    BY DEF PositionInv
  <2>5. PostsMatchFifo' /\ EndIsNamed'
    BY <2>1, <2>2, <2>3, <2>4 DEF Position, PostsMatchFifo, EndIsNamed
  <2>6. ASSUME NEW m \in Known
        PROVE  Follows(m, fifo, queuedFrames, Sent + PacketFrames, FALSE)
    <3>1. Follows(m, fifo, queuedFrames, Sent, ~lost)
      BY <2>4 DEF Position
    <3>2. m \in Marks /\ Sent \in Int /\ (~lost) \in BOOLEAN
      BY <1>1, KnownMarks, SentIsInt DEF PositionInv
    <3> QED BY <1>1, <3>1, <3>2, FollowsLoss, PlayerAssumption DEF Numbers
  <2>7. (~lost)' = FALSE
    BY <2>1
  <2> QED BY <2>1, <2>3, <2>5, <2>6, <2>7 DEF Position
<1>4. CASE EnqueueWrite
  <2> DEFINE g == SubSeq(FramesOf(net.packet), 1, net.room)
  <2>1. /\ net.pc = "write" /\ net' = [net EXCEPT !.pc = "mark"] /\ fifo' = fifo \o g
        /\ UNCHANGED <<marks, last_mark, queuedFrames, bufferedFrames, lost, cut>>
    BY <1>4 DEF EnqueueWrite, cbVars
  <2>2. net'.pc = "mark" /\ net'.packet = net.packet /\ net'.room = net.room
    BY <1>1, <2>1, SMT DEF NetRecord
  <2>3. /\ g \in Seq(Int) /\ Len(g) = net.room
        /\ \A j \in 1..Len(g) : g[j] = (net.packet - 1) * PacketFrames + j
    BY <1>1, PlayerAssumption, SMT DEF FramesOf
  <2> HIDE DEF g
  <2>4. /\ Sent = (net.packet - 1) * PacketFrames /\ Unmarked = 0 /\ Known' = Known
        /\ Sent' = Sent + Len(g) /\ Unmarked' = Len(g)
    <3>1. (net.packet - 1) * PacketFrames \in Int
      BY <1>1, PlayerAssumption, SMT
    <3> QED BY <2>1, <2>2, <2>3, <3>1, SMT DEF Sent, Unmarked, Known
  <2>5. fifo \in Seq(Int) /\ Len(fifo) \in Nat /\ Len(g) \in Nat /\ queuedFrames \in Nat
    BY <1>1, <2>3, SMT DEF Numbers
  <2>6. Len(fifo') = Len(fifo) + Len(g) /\ (Len(g) > 0 => fifo'[Len(fifo')] = g[Len(g)])
    BY <2>1, <2>3, <2>5, SMT
  <2> SUFFICES ASSUME ~cut PROVE Position'
    BY <2>1 DEF PositionInv
  <2>7. Position
    BY DEF PositionInv
  <2>8. PostsMatchFifo'
    <3>1. queuedFrames' + Len(fifo') - Unmarked' = queuedFrames + Len(fifo) - Unmarked
      BY <2>1, <2>4, <2>5, <2>6, SMT
    <3> QED BY <2>1, <2>7, <3>1 DEF Position, PostsMatchFifo
  <2>9. EndIsNamed'
    BY <2>2, <2>3, <2>4, <2>6, PlayerAssumption, SMT DEF EndIsNamed
  <2>10. ASSUME NEW m \in Known
         PROVE  Follows(m, fifo \o g, queuedFrames, Sent + Len(g), ~lost)
    <3>1. Follows(m, fifo, queuedFrames, Sent, ~lost)
      BY <2>7 DEF Position
    <3>2. m \in Marks /\ Sent \in Int /\ (~lost) \in BOOLEAN
      BY <1>1, KnownMarks, SentIsInt DEF PositionInv
    <3>3. \A j \in 1..Len(g) : g[j] = Sent + j
      BY <2>3, <2>4
    <3> QED BY <2>3, <2>5, <3>1, <3>2, <3>3, FollowsWritten
  <2> QED BY <2>1, <2>4, <2>8, <2>9, <2>10 DEF Position
<1>5. CASE EnqueueMark
  <2>1. /\ net.pc = "mark" /\ PostMark /\ cut' = (cut \/ net.room < PacketFrames)
        /\ UNCHANGED <<fifo, last_mark, queuedFrames, lost>>
    BY <1>5 DEF EnqueueMark, cbVars
  <2>2. cut' \in BOOLEAN /\ lost' \in BOOLEAN
    BY <2>1 DEF PositionInv
  <2> SUFFICES ASSUME ~cut' PROVE Position'
    BY <2>2 DEF PositionInv
  <2>3. Position /\ net.room = PacketFrames
    <3>1. ~cut /\ ~(net.room < PacketFrames)
      BY <2>1
    <3>2. net.room = PacketFrames
      BY <1>1, <3>1, PlayerAssumption, SMT
    <3> QED BY <3>1, <3>2 DEF PositionInv
  <2>4. net' = [net EXCEPT !.pc = "monitor", !.packet = net.packet + 1]
    BY <1>5, <2>3, PlayerAssumption, SMT DEF EnqueueMark
  <2>5. net'.pc = "monitor" /\ net'.packet = net.packet + 1
    BY <1>1, <2>4, SMT DEF NetRecord
  <2>6. /\ Sent' = Sent /\ Sent = net.packet * PacketFrames
        /\ Unmarked = PacketFrames /\ Unmarked' = 0
    BY <1>1, <2>1, <2>3, <2>5, PlayerAssumption, SMT DEF Sent, Unmarked
  <2>7. EndIsNamed'
    BY <2>5 DEF EndIsNamed
  <2>8. /\ marks \in Seq(Marks) /\ bufferedFrames \in Nat /\ queuedFrames \in Nat
        /\ fifo \in Seq(Int) /\ Len(fifo) \in Nat
    BY <1>1, SMT DEF Numbers
  <2>9. CASE bufferedFrames >= MaxBuffered /\ UNCHANGED <<bufferedFrames, marks>>
    <3>1. Known' = Known
      BY <2>1, <2>9 DEF Known
    <3>2. PostsMatchFifo'
      <4>1. Position /\ MaxBuffered \in Nat /\ PacketFrames \in Nat
        BY <2>3, PlayerAssumption
      <4> QED BY <2>1, <2>6, <2>8, <2>9, <4>1, SMT DEF Position, PostsMatchFifo
    <3> QED BY <2>1, <2>3, <2>6, <2>7, <3>1, <3>2 DEF Position
  <2>10. CASE /\ bufferedFrames < MaxBuffered /\ bufferedFrames' = bufferedFrames + PacketFrames
              /\ marks' = Append(marks, Mark(bufferedFrames', net.packet * PacketFrames))
    <3> DEFINE new == Mark(queuedFrames + Len(fifo), Sent)
    <3>1. bufferedFrames' = queuedFrames + Len(fifo)
      <4>1. bufferedFrames = queuedFrames + Len(fifo) - PacketFrames
        BY <2>3, <2>6, <2>10 DEF Position, PostsMatchFifo
      <4> QED BY <2>8, <2>10, <4>1, PlayerAssumption, SMT
    <3>2. marks' = Append(marks, new)
      BY <2>6, <2>10, <3>1
    <3>3. Known' \subseteq Known \cup {new}
      <4>1. \A i \in 1..Len(marks') : marks'[i] = new \/ (i \in 1..Len(marks) /\ marks'[i] = marks[i])
        <5>1. new \in Marks
          BY <1>1, <2>8, SentIsInt, SMT DEF Mark, Marks
        <5> HIDE DEF new
        <5>2. /\ Len(marks') = Len(marks) + 1 /\ marks'[Len(marks) + 1] = new
              /\ \A i \in 1..Len(marks) : marks'[i] = marks[i]
          BY <2>8, <3>2, <5>1, AppendProperties
        <5>3. Len(marks) \in Nat
          BY <2>8
        <5> QED BY <5>2, <5>3, SMT
      <4> HIDE DEF new
      <4> QED BY <2>1, <4>1 DEF Known
    <3>4. PostsMatchFifo'
      BY <2>1, <2>6, <2>8, <3>1, SMT DEF PostsMatchFifo
    <3>5. Follows(new, fifo, queuedFrames, Sent, ~lost)
      <4>1. new.frameCount - queuedFrames = Len(fifo) /\ new.time = Sent /\ Sent \in Int
        BY <1>1, <2>8, SentIsInt, SMT DEF Mark
      <4>2. Len(fifo) > 0 => fifo[Len(fifo)] = Sent
        BY <2>1, <2>3, <2>8, SMT DEF Position, EndIsNamed
      <4>3. Sent - Sent = 0 /\ Len(fifo) - Len(fifo) = 0 /\ Reaches(0, 0, ~lost)
        BY <2>8, <4>1, SMT DEF Reaches
      <4>4. \A i \in 1..Len(fifo) : ~(i > Len(fifo))
        BY <2>8, SMT
      <4> HIDE DEF new
      <4> QED BY <2>8, <4>1, <4>2, <4>3, <4>4, SMT DEF Follows
    <3> HIDE DEF new
    <3> QED BY <2>1, <2>3, <2>6, <2>7, <3>3, <3>4, <3>5 DEF Position
  <2> QED BY <2>1, <2>9, <2>10 DEF PostMark
<1> QED BY <1>2, <1>3, <1>4, <1>5 DEF Network

LEMMA KnownWhenUnmoved ==
  ASSUME UNCHANGED <<marks, last_mark>>
  PROVE  Known' = Known
  BY DEF Known

\* No frame leaves the FIFO.
LEMMA PositionWhenNoneTaken ==
  ASSUME PlayerInv, PositionInv, netVars' = netVars, Known' \subseteq Known,
         UNCHANGED <<fifo, queuedFrames>>
  PROVE  PositionInv'
<1>1. fifo \in Seq(Int) /\ queuedFrames \in Nat
  BY DEF PlayerInv, Numbers
<1>2. 0 \in 0..Len(fifo) /\ SkipFirst(fifo, 0) = fifo /\ queuedFrames + 0 = queuedFrames
  BY <1>1, SMT DEF SkipFirst
<1> QED BY <1>2, PositionWhenTaken

\* The mark the callback takes up is one it knew, and so are those left over.
LEMMA KnownAtDecide ==
  ASSUME PlayerInv, CbDecide
  PROVE  Known' \subseteq Known
<1>1. /\ ReachedCount \in 0..Len(marks) /\ marks \in Seq(Marks)
      /\ last_mark' = CurrentMark /\ marks' = SkipFirst(marks, ReachedCount)
  BY CurrentMarkReached DEF CbDecide, PlayerInv, Numbers
<1>2. CurrentMark \in Known
  BY <1>1, SMT DEF CurrentMark, Known
<1>3. \A i \in 1..Len(SkipFirst(marks, ReachedCount)) :
        \E j \in 1..Len(marks) : SkipFirst(marks, ReachedCount)[i] = marks[j]
  <2>1. ASSUME NEW n \in 0..Len(marks), NEW i \in 1..Len(SkipFirst(marks, n))
        PROVE  \E j \in 1..Len(marks) : SkipFirst(marks, n)[i] = marks[j]
    <3>1. i + n \in 1..Len(marks) /\ SkipFirst(marks, n)[i] = marks[i + n]
      BY <1>1, SMT DEF SkipFirst
    <3> QED BY <3>1
  <2> QED BY <1>1, <2>1
<1> QED BY <1>1, <1>2, <1>3 DEF Known

LEMMA PositionCallback ==
  ASSUME PlayerInv, PositionInv, Callback
  PROVE  PositionInv'
<1>1. CASE (\E jitter \in Jitters : BufferFinishes(jitter)) \/ CbStart \/ CbSkipRead \/ CbRead
  <2>1. UNCHANGED <<fifo, queuedFrames, marks, last_mark, netVars>>
    BY <1>1 DEF BufferFinishes, CbStart, CbSkipRead, CbRead
  <2> QED BY <2>1, KnownWhenUnmoved, PositionWhenNoneTaken
<1>2. CASE CbDecide
  BY <1>2, KnownAtDecide, PositionWhenNoneTaken DEF CbDecide
<1>3. CASE CbSkip \/ CbPlay
  <2>1. /\ cb.count \in 0..Len(fifo) /\ fifo' = SkipFirst(fifo, cb.count)
        /\ queuedFrames' = queuedFrames + cb.count /\ UNCHANGED <<marks, last_mark, netVars>>
    <3>1. cb.pc \in {"skipped", "play"}
      BY <1>3 DEF CbSkip, CbPlay
    <3>2. cb.count \in Nat /\ cb.count <= Len(fifo) /\ Len(fifo) \in Nat
      BY <3>1, SMT DEF PlayerInv, CallbackLocals, Numbers
    <3> QED BY <1>3, <3>2, SMT DEF CbSkip, CbPlay, FramesTaken
  <2> QED BY <2>1, KnownWhenUnmoved, PositionWhenTaken
<1> QED BY <1>1, <1>2, <1>3 DEF Callback

LEMMA PositionStep == PlayerInv /\ PositionInv /\ [Next]_vars => PositionInv'
<1> SUFFICES ASSUME PlayerInv, PositionInv, [Next]_vars PROVE PositionInv'
  OBVIOUS
<1>1. CASE Network
  BY <1>1, PositionNetwork
<1>2. CASE Callback
  BY <1>2, PositionCallback
<1>3. CASE (\E offsetUs \in Offsets : SetSystemTimeOffset(offsetUs)) \/ UNCHANGED vars
  <2>1. UNCHANGED <<fifo, queuedFrames, marks, last_mark, netVars>>
    BY <1>3 DEF SetSystemTimeOffset, vars, cbVars
  <2> QED BY <2>1, KnownWhenUnmoved, PositionWhenNoneTaken
<1> QED BY <1>1, <1>2, <1>3 DEF Next

LEMMA PositionInvariant == Spec => []PositionInv
<1>1. Init => PositionInv
  BY PositionAtStart
<1>2. PlayerInv /\ PositionInv /\ [Next]_vars => PositionInv'
  BY PositionStep
<1> QED BY <1>1, <1>2, PlayerInvariant, PTL DEF Spec

LEMMA CurrentMarkKnown ==
  ASSUME PlayerInv
  PROVE  CurrentMark \in Known /\ CurrentMark \in Marks /\ CurrentMark.frameCount <= queuedFrames
<1>1. ReachedCount \in 0..Len(marks) /\ Len(marks) \in Nat
  BY CurrentMarkReached, SMT DEF PlayerInv, Numbers
<1>2. CurrentMark \in Known
  BY <1>1, SMT DEF CurrentMark, Known
<1> QED BY <1>2, CurrentMarkReached DEF PlayerInv

LEMMA PositionIsKnown == PlayerInv /\ PositionInv => KnowsPosition
<1> SUFFICES ASSUME PlayerInv, PositionInv, ~cut PROVE KnowsPosition
  BY DEF KnowsPosition, MarksMatchFrames, PositionTracksStream
<1>1. Position /\ Numbers
  BY DEF PositionInv, PlayerInv
<1>2. fifo \in Seq(Int) /\ Len(fifo) \in Nat /\ queuedFrames \in Nat /\ DOMAIN marks = 1..Len(marks)
  BY <1>1, SMT DEF Numbers
<1>3. MarksMatchFrames
  <2>1. ASSUME NEW i \in 1..Len(marks), marks[i].frameCount - queuedFrames > 0
        PROVE  /\ marks[i].frameCount - queuedFrames <= Len(fifo)
               /\ fifo[marks[i].frameCount - queuedFrames] = marks[i].time
    <3>1. Follows(marks[i], fifo, queuedFrames, Sent, ~lost)
      BY <1>1, <2>1 DEF Position, Known
    <3> QED BY <2>1, <3>1 DEF Follows
  <2> QED BY <1>2, <2>1 DEF MarksMatchFrames
<1>4. PositionTracksStream
  <2> SUFFICES ASSUME fifo # << >>
               PROVE  /\ PlaybackTime(CurrentMark) + 1 <= fifo[1]
                      /\ ~lost => PlaybackTime(CurrentMark) + 1 = fifo[1]
    BY DEF PositionTracksStream
  <2> DEFINE m == CurrentMark
  <2>1. m \in Known /\ m \in Marks /\ m.frameCount <= queuedFrames
    BY CurrentMarkKnown
  <2>2. Follows(m, fifo, queuedFrames, Sent, ~lost)
    BY <1>1, <2>1 DEF Position
  <2> HIDE DEF m
  <2>3. 1 \in 1..Len(fifo) /\ 1 > m.frameCount - queuedFrames
    BY <1>2, <2>1, SMT DEF Marks
  <2>4. Reaches(fifo[1] - m.time, 1 - (m.frameCount - queuedFrames), ~lost)
    BY <2>2, <2>3 DEF Follows
  <2>5. fifo[1] \in Int /\ m.time \in Int /\ m.frameCount \in Nat
    BY <1>2, <2>1, <2>3, SMT DEF Marks
  <2>6. PlaybackTime(m) + 1 <= fifo[1]
    BY <1>2, <2>4, <2>5, SMT DEF Reaches, PlaybackTime
  <2>7. ~lost => PlaybackTime(m) + 1 = fifo[1]
    BY <1>2, <2>4, <2>5, SMT DEF Reaches, PlaybackTime
  <2> QED BY <2>6, <2>7 DEF m
<1> QED BY <1>3, <1>4 DEF KnowsPosition

(* Until a packet is cut, every mark names its frame and the callback knows *)
(* the media position of the frame it is about to take, exactly as long as  *)
(* no packet was lost: for every stream, FIFO size, pattern of losses,      *)
(* retries, skips, jitter and clock (audioplayer.cpp:204-218 and 420-455).  *)
THEOREM PositionKnown == Spec => []KnowsPosition
<1>1. PlayerInv /\ PositionInv => KnowsPosition
  BY PositionIsKnown
<1> QED BY <1>1, PlayerInvariant, PositionInvariant, PTL

-----------------------------------------------------------------------------
(* What the callback does about a difference.  It needs that nothing was   *)
(* taken before playback began, how many frames are still to be discarded, *)
(* and what was decided until the buffer is filled.                        *)

Playing ==
  /\ isPlaying \in BOOLEAN
  /\ cb.pc \in {"skip", "skipped", "decide", "read", "play"} => isPlaying
  /\ ~isPlaying => queuedFrames = 0

Discards == cb.pc \in {"skip", "skipped"} => cb.drop + queuedFrames = cb.now

\* Either as many frames as a buffer has, or more, by part of the difference,
\* or fewer, by all of it, with silence before them.
Decided ==
  cb.pc \in {"read", "play"} =>
    /\ diff = cb.now - PlaybackTime(last_mark) /\ cb.request > 0
    /\ \/ cb.pad = 0 /\ cb.request = framesPerBuffer
       \/ cb.pad = 0 /\ cb.request - framesPerBuffer \in 0..diff
       \/ cb.pad > 0 /\ cb.request = framesPerBuffer + diff /\ diff < 0

CorrectionInv == Playing /\ Discards /\ Decided

LEMMA CorrectionAtStart == Init => CorrectionInv
<1> SUFFICES ASSUME Init PROVE CorrectionInv
  OBVIOUS
<1>1. cb.pc = "idle" /\ isPlaying = FALSE /\ queuedFrames = 0
  BY DEF Init, CbIdle
<1> QED BY <1>1 DEF CorrectionInv, Playing, Discards, Decided

LEMMA CbRecordOf ==
  ASSUME PlayerInv
  PROVE  cb \in CbRecord
  BY DEF PlayerInv, CallbackLocals, CbRecord

\* The callback returns, and takes nothing before it plays.
LEMMA CorrectionWhenIdle ==
  ASSUME isPlaying' \in BOOLEAN, ~isPlaying' => queuedFrames' = 0,
         cb'.pc \in {"idle", "start", "crashed"}
  PROVE  CorrectionInv'
  BY DEF CorrectionInv, Playing, Discards, Decided

LEMMA ReturnIdles ==
  ASSUME NEW buffer, CbReturns(buffer)
  PROVE  cb'.pc = "idle" /\ device' = buffer
  BY DEF CbReturns, CbIdle

LEMMA CorrectionOthers ==
  ASSUME CorrectionInv, UNCHANGED <<isPlaying, cb, queuedFrames, diff, last_mark>>
  PROVE  CorrectionInv'
  BY DEF CorrectionInv, Playing, Discards, Decided, PlaybackTime

LEMMA CorrectionCbStart ==
  ASSUME PlayerInv, CorrectionInv, CbStart
  PROVE  CorrectionInv'
<1> DEFINE nowUs == SystemTime
           late == StartDue(nowUs) /\ -nowUs < -accuracy
<1>1. cb \in CbRecord /\ queuedFrames' = queuedFrames /\ queuedFrames \in Nat /\ isPlaying \in BOOLEAN
  BY CbRecordOf DEF CbStart, CorrectionInv, Playing, PlayerInv, Numbers
<1>2. /\ isPlaying' = (isPlaying \/ StartDue(nowUs))
      /\ isPlaying' \in BOOLEAN
      /\ ~isPlaying' => ~isPlaying
  BY <1>1 DEF CbStart, StartDue
<1>3. ~isPlaying => queuedFrames = 0
  BY DEF CorrectionInv, Playing
<1>4. CASE /\ isPlaying' /\ late
           /\ cb' = [cb EXCEPT !.pc = "skip", !.now = nowUs, !.drop = nowUs]
  <2>1. cb'.pc = "skip" /\ cb'.now = nowUs /\ cb'.drop = nowUs
    BY <1>1, <1>4 DEF CbRecord
  <2>2. queuedFrames = 0
    BY <1>3, <1>4 DEF StartDue
  <2>3. nowUs \in Int
    BY SMT DEF SystemTime, PlayerInv, Numbers
  <2>4. cb'.drop + queuedFrames' = cb'.now
    BY <1>1, <2>1, <2>2, <2>3, SMT
  <2> QED BY <1>2, <1>4, <2>1, <2>4 DEF CorrectionInv, Playing, Discards, Decided
<1>5. CASE isPlaying' /\ cb' = [cb EXCEPT !.pc = "decide", !.now = nowUs]
  <2>1. cb'.pc = "decide"
    BY <1>1, <1>5 DEF CbRecord
  <2> QED BY <1>2, <1>5, <2>1 DEF CorrectionInv, Playing, Discards, Decided
<1>6. CASE CbReturns(Seqn(framesPerBuffer, Silence))
  BY <1>1, <1>2, <1>3, <1>6, ReturnIdles, CorrectionWhenIdle
<1> QED BY <1>4, <1>5, <1>6, Zenon DEF CbStart

LEMMA CorrectionCbSkip ==
  ASSUME PlayerInv, CorrectionInv, CbSkip
  PROVE  CorrectionInv'
<1>1. /\ cb \in CbRecord /\ cb.pc = "skipped" /\ queuedFrames \in Nat
      /\ queuedFrames' = queuedFrames + cb.count /\ isPlaying' = isPlaying /\ isPlaying = TRUE
  BY CbRecordOf DEF CbSkip, CorrectionInv, Playing, PlayerInv, Numbers
<1>2. CASE cb' = [cb EXCEPT !.pc = "decide", !.drop = 0]
  <2>1. cb'.pc = "decide"
    BY <1>1, <1>2 DEF CbRecord
  <2> QED BY <1>1, <2>1 DEF CorrectionInv, Playing, Discards, Decided
<1>3. CASE cb' = [cb EXCEPT !.pc = "skip", !.drop = cb.drop - cb.count]
  <2>1. cb'.pc = "skip" /\ cb'.drop = cb.drop - cb.count /\ cb'.now = cb.now
    BY <1>1, <1>3 DEF CbRecord
  <2>2. cb.drop + queuedFrames = cb.now
    BY <1>1 DEF CorrectionInv, Discards
  <2>3. cb'.drop + queuedFrames' = cb'.now
    BY <1>1, <2>1, <2>2, SMT DEF CbRecord
  <2> QED BY <1>1, <2>1, <2>3 DEF CorrectionInv, Playing, Discards, Decided
<1> QED BY <1>2, <1>3, Zenon DEF CbSkip

LEMMA CorrectionCbDecide ==
  ASSUME PlayerInv, CorrectionInv, CbDecide
  PROVE  CorrectionInv'
<1> DEFINE tolerance == accuracy \div 2
           late == cb.now - PlaybackTime(last_mark')
           request == AtMost(framesPerBuffer + late, MaxFrames)
<1>1. /\ cb \in CbRecord /\ cb.pc = "decide" /\ cb.pad = 0 /\ isPlaying = TRUE
      /\ isPlaying' = isPlaying /\ queuedFrames' = queuedFrames /\ diff' = late
  BY CbRecordOf DEF CbDecide, CorrectionInv, Playing, PlayerInv, CallbackLocals
<1>2. last_mark' \in Marks
  BY CurrentMarkReached DEF CbDecide, PlayerInv
<1>3. late \in Int /\ tolerance \in Nat /\ tolerance > 0 /\ PlaybackTime(last_mark') \in Int
  BY <1>1, <1>2, PlayerAssumption, SMT DEF PlaybackTime, PlayerInv, Numbers, Marks, CbRecord
<1>4. PlaybackTime(last_mark)' = PlaybackTime(last_mark')
  BY <1>1 DEF PlaybackTime
<1>5. ASSUME cb'.pc = "read", cb'.now = cb.now, cb'.request > 0,
             \/ cb'.pad = 0 /\ cb'.request = framesPerBuffer
             \/ cb'.pad = 0 /\ cb'.request - framesPerBuffer \in 0..late
             \/ cb'.pad > 0 /\ cb'.request = framesPerBuffer + late /\ late < 0
      PROVE  CorrectionInv'
  <2>1. diff' = cb'.now - PlaybackTime(last_mark)'
    BY <1>1, <1>4, <1>5
  <2> HIDE DEF late
  <2> QED BY <1>1, <1>5, <2>1 DEF CorrectionInv, Playing, Discards, Decided
<1>6. CASE cb' = [cb EXCEPT !.pc = "read", !.request = framesPerBuffer, !.drop = late]
  <2>1. cb'.pc = "read" /\ cb'.now = cb.now /\ cb'.pad = 0 /\ cb'.request = framesPerBuffer
    BY <1>1, <1>6 DEF CbRecord
  <2> QED BY <1>5, <2>1, PlayerAssumption, SMT
<1>7. CASE late >= tolerance /\ cb' = [cb EXCEPT !.pc = "read", !.request = request,
                                                 !.drop = request - framesPerBuffer]
  <2>1. cb'.pc = "read" /\ cb'.now = cb.now /\ cb'.pad = 0 /\ cb'.request = request
    BY <1>1, <1>7 DEF CbRecord
  <2>2. request - framesPerBuffer \in 0..late /\ request > 0
    <3> HIDE DEF late, tolerance
    <3> QED BY <1>3, <1>7, PlayerAssumption, SMT DEF AtMost
  <2> QED BY <1>5, <2>1, <2>2
<1>8. CASE /\ late <= -tolerance /\ -late < framesPerBuffer
           /\ cb' = [cb EXCEPT !.pc = "read", !.request = framesPerBuffer + late, !.pad = -late]
  <2>1. cb'.pc = "read" /\ cb'.now = cb.now /\ cb'.pad = -late /\ cb'.request = framesPerBuffer + late
    BY <1>1, <1>8 DEF CbRecord
  <2>2. -late > 0 /\ late < 0 /\ framesPerBuffer + late > 0
    <3> HIDE DEF late, tolerance
    <3> QED BY <1>3, <1>8, PlayerAssumption, SMT
  <2> QED BY <1>5, <2>1, <2>2
<1>9. CASE CbReturns(Seqn(framesPerBuffer, Silence))
  BY <1>1, <1>9, ReturnIdles, CorrectionWhenIdle
<1> QED BY <1>6, <1>7, <1>8, <1>9, Zenon DEF CbDecide

LEMMA CorrectionCbPlay ==
  ASSUME PlayerInv, CorrectionInv, CbPlay
  PROVE  CorrectionInv'
<1>1. cb \in CbRecord /\ cb.pc = "play" /\ isPlaying = TRUE /\ isPlaying' = TRUE
  BY CbRecordOf DEF CbPlay, CorrectionInv, Playing
<1>2. cb'.pc \in {"idle", "crashed"}
  <2>1. ASSUME NEW buffer, CbReturns(buffer)
        PROVE  cb'.pc = "idle"
    BY <2>1, ReturnIdles
  <2>2. ASSUME cb' = [cb EXCEPT !.pc = "crashed"]
        PROVE  cb'.pc = "crashed"
    BY <1>1, <2>2 DEF CbRecord
  <2> QED BY <2>1, <2>2, Zenon DEF CbPlay
<1> QED BY <1>1, <1>2, CorrectionWhenIdle

LEMMA CorrectionStep == PlayerInv /\ CorrectionInv /\ [Next]_vars => CorrectionInv'
<1> SUFFICES ASSUME PlayerInv, CorrectionInv, [Next]_vars PROVE CorrectionInv'
  OBVIOUS
<1>1. CASE Network \/ (\E offsetUs \in Offsets : SetSystemTimeOffset(offsetUs)) \/ UNCHANGED vars
  <2>1. UNCHANGED cbVars
    BY <1>1 DEF Network, SyncPlayback, LosePacket, EnqueueBegin, EnqueueWrite, EnqueueMark,
                MonitorPlayback, SetSystemTimeOffset, vars
  <2> QED BY <2>1, CorrectionOthers DEF cbVars
<1>2. CASE \E jitter \in Jitters : BufferFinishes(jitter)
  <2>1. cb'.pc = "start" /\ isPlaying' = isPlaying /\ queuedFrames' = queuedFrames
    BY <1>2, CbRecordOf DEF BufferFinishes, CbRecord
  <2> QED BY <2>1, CorrectionWhenIdle DEF CorrectionInv, Playing
<1>3. CASE CbSkipRead
  <2>1. /\ cb.pc = "skip" /\ cb'.pc = "skipped" /\ cb'.drop = cb.drop /\ cb'.now = cb.now
        /\ UNCHANGED <<isPlaying, queuedFrames>>
    BY <1>3, CbRecordOf DEF CbSkipRead, CbRecord
  <2> QED BY <2>1 DEF CorrectionInv, Playing, Discards, Decided
<1>4. CASE CbRead
  <2>1. /\ cb.pc = "read" /\ cb'.pc = "play" /\ cb'.now = cb.now /\ cb'.request = cb.request
        /\ cb'.pad = cb.pad /\ UNCHANGED <<isPlaying, queuedFrames, diff, last_mark>>
    BY <1>4, CbRecordOf DEF CbRead, CbRecord
  <2> QED BY <2>1 DEF CorrectionInv, Playing, Discards, Decided, PlaybackTime
<1> QED BY <1>1, <1>2, <1>3, <1>4, CorrectionCbStart, CorrectionCbSkip, CorrectionCbDecide,
           CorrectionCbPlay DEF Next, Callback

LEMMA CorrectionInvariant == Spec => []CorrectionInv
<1> QED BY CorrectionAtStart, CorrectionStep, PlayerInvariant, PTL DEF Spec

\* While nothing was lost or cut, the marks count from the start of the
\* stream: the media position is the number of frames taken.
LEMMA MarksCountFromStart ==
  ASSUME PlayerInv, PositionInv, ~lost, ~cut, NEW m \in Known
  PROVE  PlaybackTime(m) = queuedFrames
<1>1. Position /\ Numbers /\ (~lost) = TRUE
  BY DEF PositionInv, PlayerInv
<1>2. m \in Marks /\ Mark(0, 0) \in Known /\ Mark(0, 0).frameCount = 0 /\ Mark(0, 0).time = 0
  BY <1>1, KnownMarks, SMT DEF Known, Mark
<1>3. /\ Reaches(Sent - m.time, Len(fifo) - (m.frameCount - queuedFrames), ~lost)
      /\ Reaches(Sent - 0, Len(fifo) - (0 - queuedFrames), ~lost)
  BY <1>1, <1>2 DEF Position, Follows
<1>4. /\ Sent - m.time = Len(fifo) - (m.frameCount - queuedFrames)
      /\ Sent - 0 = Len(fifo) - (0 - queuedFrames)
  BY <1>3 DEF Reaches
<1>5. Sent \in Int /\ Len(fifo) \in Nat /\ queuedFrames \in Nat /\ m.frameCount \in Nat /\ m.time \in Int
  BY <1>1, <1>2, SentIsInt, SMT DEF Numbers, Marks
<1> QED BY <1>4, <1>5, SMT DEF PlaybackTime

PositionCounts == ~lost /\ ~cut => PlaybackTime(last_mark) = queuedFrames
                                   /\ PlaybackTime(CurrentMark) = queuedFrames

LEMMA PositionCountsHolds == PlayerInv /\ PositionInv => PositionCounts
<1> SUFFICES ASSUME PlayerInv, PositionInv, ~lost, ~cut PROVE PositionCounts
  BY DEF PositionCounts
<1>1. last_mark \in Known /\ CurrentMark \in Known
  BY CurrentMarkKnown DEF Known
<1> QED BY <1>1, MarksCountFromStart DEF PositionCounts

LEMMA CatchesUpStep ==
  PlayerInv /\ CorrectionInv /\ PositionCounts' /\ [Next]_vars => [LateStartCatchesUp]_vars
<1> SUFFICES ASSUME PlayerInv, CorrectionInv, PositionCounts', Next,
                    cb.pc = "skipped", cb'.pc = "decide", ~lost, ~cut, cb.count # 0
             PROVE  PlaybackTime(CurrentMark)' = cb.now
  BY DEF LateStartCatchesUp
<1>1. CbSkip
  <2>1. ~UNCHANGED cbVars
    BY DEF cbVars
  <2>2. Callback
    BY <2>1 DEF Next, Network, SyncPlayback, LosePacket, EnqueueBegin, EnqueueWrite, EnqueueMark,
                MonitorPlayback, SetSystemTimeOffset
  <2> QED BY <2>2 DEF Callback, BufferFinishes, CbStart, CbSkipRead, CbDecide, CbRead, CbPlay, CbIdle
<1>2. cb \in CbRecord /\ queuedFrames \in Nat /\ lost' = lost /\ cut' = cut
  BY <1>1, CbRecordOf DEF CbSkip, netVars, PlayerInv, Numbers
<1>3. cb.count = cb.drop
  <2>1. CASE cb.count \in {0, cb.drop}
    BY <2>1
  <2>2. CASE cb' = [cb EXCEPT !.pc = "skip", !.drop = cb.drop - cb.count]
    BY <1>2, <2>2 DEF CbRecord
  <2> QED BY <1>1, <2>1, <2>2, Zenon DEF CbSkip
<1>4. queuedFrames' = cb.now
  <2>1. queuedFrames' = queuedFrames + cb.count /\ cb.drop + queuedFrames = cb.now
    BY <1>1 DEF CbSkip, CorrectionInv, Discards
  <2> QED BY <1>2, <1>3, <2>1, SMT DEF CbRecord
<1> QED BY <1>2, <1>4 DEF PositionCounts

\* A buffer built frame by frame has as many as it was built for.
LEMMA IndexedHas ==
  ASSUME NEW n \in Nat, NEW s, DOMAIN s = 1..n, s = [i \in 1..n |-> s[i]]
  PROVE  Len(s) = n
<1>1. s \in Seq({s[i] : i \in 1..n})
  <2>1. s \in [1..n -> {s[i] : i \in 1..n}]
    OBVIOUS
  <2> QED BY <2>1, SeqDef
<1>2. Len(s) \in Nat /\ DOMAIN s = 1..Len(s)
  BY <1>1, LenProperties
<1> QED BY <1>2, SMT

(* A buffer of either length leaves what is left of a difference that the   *)
(* callback has discarded from or padded for.                               *)
LEMMA BetweenCorrected ==
  ASSUME NEW now \in Int, NEW taken \in Int, NEW count \in Int, NEW size \in Int,
         NEW d \in Int, NEW length \in Int, d = now - taken,
         length = count \/ length = size,
         count = size \/ count - size \in 0..d \/ (count = size + d /\ d < 0)
  PROVE  now + length - (taken + count) \in 0..d \cup d..0
OBVIOUS

LEMMA StaysBehindStep ==
  /\ PlayerInv /\ CorrectionInv /\ PositionCounts /\ PositionCounts'
  /\ [Next]_vars
  => [BufferStaysBehind]_vars
<1> SUFFICES ASSUME PlayerInv, CorrectionInv, PositionCounts, PositionCounts', Next,
                    cb.pc = "play", cb'.pc = "idle", cb.count = cb.request, ~lost, ~cut
             PROVE  cb.now + Len(device') - PlaybackTime(CurrentMark)'
                      \in 0..(cb.now - PlaybackTime(last_mark)) \cup (cb.now - PlaybackTime(last_mark))..0
  BY DEF BufferStaysBehind, CbIdle
<1>1. CbPlay
  <2>1. ~UNCHANGED cbVars
    BY DEF cbVars
  <2>2. Callback
    BY <2>1 DEF Next, Network, SyncPlayback, LosePacket, EnqueueBegin, EnqueueWrite, EnqueueMark,
                MonitorPlayback, SetSystemTimeOffset
  <2> QED BY <2>2 DEF Callback, BufferFinishes, CbStart, CbSkipRead, CbDecide, CbRead, CbSkip, CbIdle
<1> DEFINE frames == SubSeq(fifo, 1, cb.count)
<1>2. /\ cb \in CbRecord /\ queuedFrames \in Nat /\ fifo \in Seq(Int)
      /\ cb.count \in 0..Len(fifo) /\ queuedFrames' = queuedFrames + cb.count
      /\ lost' = lost /\ cut' = cut
  <2>1. cb \in CbRecord /\ queuedFrames \in Nat /\ fifo \in Seq(Int)
    BY CbRecordOf DEF PlayerInv, Numbers
  <2>2. cb.count \in 0..Len(fifo)
    BY <2>1, SMT DEF PlayerInv, CallbackLocals, CbRecord
  <2> QED BY <1>1, <2>1, <2>2 DEF CbPlay, netVars, FramesTaken
<1>3. PlaybackTime(last_mark) = queuedFrames /\ PlaybackTime(CurrentMark)' = queuedFrames + cb.count
  BY <1>2 DEF PositionCounts
<1>4. /\ diff = cb.now - queuedFrames /\ cb.count > 0
      /\ \/ cb.pad = 0 /\ cb.count = framesPerBuffer
         \/ cb.pad = 0 /\ cb.count - framesPerBuffer \in 0..diff
         \/ cb.pad > 0 /\ cb.count = framesPerBuffer + diff /\ diff < 0
  BY <1>3 DEF CorrectionInv, Decided
<1>5. \/ Len(device') = cb.count
      \/ Len(device') = framesPerBuffer
  <2>1. frames \in Seq(Int) /\ Len(frames) = cb.count
    BY <1>2, SMT
  <2>2. CASE cb.pad > 0 /\ CbReturns(Seqn(cb.pad, Silence) \o frames
                                       \o Seqn(framesPerBuffer - cb.pad - cb.count, Stale))
    <3> DEFINE silence == Seqn(cb.pad, Silence)
               stale == Seqn(framesPerBuffer - cb.pad - cb.count, Stale)
    <3>1. cb.pad \in Nat /\ framesPerBuffer - cb.pad - cb.count \in Nat
      BY <1>2, <2>2, PlayerAssumption, SMT DEF CbRecord, PlayerInv, CallbackLocals, CbPlay
    <3>2. /\ silence \in Seq({Silence}) /\ Len(silence) = cb.pad
          /\ stale \in Seq({Stale}) /\ Len(stale) = framesPerBuffer - cb.pad - cb.count
      BY <3>1, ConstantLength
    <3>3. silence \in Seq(Int) /\ stale \in Seq(Int)
      BY <3>2, SMT DEF Silence, Stale
    <3>4. Len(silence \o frames \o stale) = framesPerBuffer
      <4>1. Len(silence \o frames \o stale) = Len(silence) + Len(frames) + Len(stale)
        <5> HIDE DEF silence, stale, frames
        <5>1. silence \o frames \in Seq(Int) /\ Len(silence \o frames) = Len(silence) + Len(frames)
          BY <2>1, <3>3, ConcatProperties
        <5>2. Len((silence \o frames) \o stale) = Len(silence \o frames) + Len(stale)
          BY <5>1, <3>3, ConcatProperties
        <5> QED BY <5>1, <5>2
      <4> HIDE DEF silence, stale, frames
      <4> QED BY <1>2, <2>1, <3>1, <3>2, <4>1, PlayerAssumption, SMT DEF CbRecord
    <3>5. device' = silence \o frames \o stale
      BY <2>2, ReturnIdles
    <3> QED BY <2>2, <3>4, <3>5
  <2>3. CASE CbReturns(frames)
    BY <2>1, <2>3, ReturnIdles
  <2>4. CASE cb.pad = 0 /\ CbReturns(DropFrames(frames, cb.drop))
    <3>1. Len(DropFrames(frames, cb.drop)) = framesPerBuffer
      BY IndexedHas, PlayerAssumption DEF DropFrames
    <3> QED BY <2>4, <3>1, ReturnIdles
  <2>5. CASE cb' = [cb EXCEPT !.pc = "crashed"]
    BY <1>2, <2>5 DEF CbRecord
  <2>6. cb.count # 0
    BY <1>2, <1>4, SMT
  <2> QED BY <1>1, <2>2, <2>3, <2>4, <2>5, <2>6, Zenon DEF CbPlay
<1> HIDE DEF frames
<1>6. Len(device') \in Int /\ diff \in Int /\ cb.now \in Int /\ cb.count \in Int
  BY <1>2, <1>4, <1>5, PlayerAssumption, SMT DEF CbRecord
<1>7. cb.now + Len(device') - (queuedFrames + cb.count) \in 0..diff \cup diff..0
  <2>1. /\ Len(device') \in Int /\ diff \in Int /\ cb.now \in Int /\ cb.count \in Int
        /\ queuedFrames \in Int /\ framesPerBuffer \in Int /\ diff = cb.now - queuedFrames
    BY <1>2, <1>4, <1>6, PlayerAssumption
  <2>2. \/ cb.count = framesPerBuffer
        \/ cb.count - framesPerBuffer \in 0..diff
        \/ cb.count = framesPerBuffer + diff /\ diff < 0
    BY <1>4
  <2> QED BY <1>5, <2>1, <2>2, BetweenCorrected
<1> QED BY <1>3, <1>4, <1>7

(* A late start catches up with the clock, and no correction goes past it,  *)
(* for every stream, buffer, clock offset and switching of the jumps, while *)
(* no packet was lost or cut (audioplayer.cpp:183-265).                     *)
THEOREM CorrectionsHitTheClock == Spec => CorrectsTime
<1>1. PlayerInv /\ PositionInv => PositionCounts
  BY PositionCountsHolds
<1>2. PlayerInv /\ CorrectionInv /\ PositionCounts' /\ [Next]_vars => [LateStartCatchesUp]_vars
  BY CatchesUpStep
<1>3. PlayerInv /\ CorrectionInv /\ PositionCounts /\ PositionCounts' /\ [Next]_vars
      => [BufferStaysBehind]_vars
  BY StaysBehindStep
<1> QED BY <1>1, <1>2, <1>3, PlayerInvariant, PositionInvariant, CorrectionInvariant, PTL
        DEF Spec, CorrectsTime, CatchesUp, NoOvershoot
-----------------------------------------------------------------------------
(* The queue of the marks.  The blocks are a ring, whose part from         *)
(* frontBlock to tailBlock has the elements, in order.  Each thread works  *)
(* with copies of the other's index; what they show is never more than     *)
(* there is.                                                               *)

\* How far one index is ahead of another in a block of c slots, and the slot that far ahead.
Ahead(c, from, to) == IF from <= to THEN to - from ELSE to - from + c
SlotAhead(c, from, j) == IF from + j < c THEN from + j ELSE from + j - c

Filled(b) == Ahead(Size(b), block[b].front, block[b].tail)

\* What every block but the first was filled with, at least.
Least == InitialBlockSize(maxSize) - 1

\* A block that was made is not in the ring before it is linked.
Linked == {b \in 1..Len(block) : producer.at = "link" => b # producer.next}

BlockData == UNION {[0..(c - 1) -> Nat] : c \in Nat}
Blocks ==
  [front : Nat, localTail : Nat, tail : Nat, localFront : Nat, next : Nat, data : BlockData]

ProducerAt ==
  {"idle", "front", "construct", "tail", "frontBlock", "nextFront", "constructNext", "nextTail",
   "make", "link", "tailBlock"}
ConsumerAt ==
  {"idle", "tail", "tailBlock", "tailAgain", "next", "tailOfNext", "peekNext", "advance", "take", "front"}

MarksTypes ==
  /\ <<maxSize, MAX_BLOCK_SIZE>> \in Constructions
  /\ block \in Seq(Blocks)
  /\ frontBlock \in Linked /\ tailBlock \in Linked
  /\ largestBlockSize \in Nat /\ largestBlockSize > Least
  /\ enqueued \in 0..MaxEnqueues
  /\ producer \in [at : ProducerAt, element : Nat, next : Nat]
  /\ consumer \in [at : ConsumerAt, call : {"none", "peek", "try_dequeue"}, element : Nat, next : Nat]
  /\ queue \in Seq(Nat) /\ lengthAtEnqueue \in Nat /\ emptyAtCall \in BOOLEAN

\* The copies lag behind: localTail is between front and tail, localFront before front.
GoodBlock(b) ==
  /\ Size(b) \in Nat /\ Size(b) > Least /\ Size(b) > 1
  /\ block[b].data \in [0..(Size(b) - 1) -> Nat]
  /\ {block[b].front, block[b].tail, block[b].localFront, block[b].localTail} \subseteq 0..(Size(b) - 1)
  /\ Ahead(Size(b), block[b].front, block[b].localTail) <= Filled(b)
  /\ Filled(b) <= Ahead(Size(b), block[b].localFront, block[b].tail)

GoodBlocks == \A b \in 1..Len(block) : GoodBlock(b)

\* The places of the blocks in the ring, which begins with frontBlock.
Ring(place, last) ==
  /\ last \in Linked /\ block[last].next = frontBlock
  /\ \A b \in Linked : place[b] \in Int /\ place[frontBlock] <= place[b] /\ place[b] <= place[last]
  /\ \A b \in Linked : b # last => block[b].next \in Linked /\ place[block[b].next] = place[b] + 1
  /\ \A b, d \in Linked : place[b] = place[d] => b = d
  /\ place[last] - place[frontBlock] >= InitialBlockCount(maxSize) - 1

InUse(place) == {b \in Linked : place[b] <= place[tailBlock]}

\* Which elements are in which block: those of the queue after the first before[b].
Contents(place, before) ==
  /\ before[frontBlock] = 0 /\ \A b \in InUse(place) : before[b] \in Nat
  /\ before[tailBlock] + Filled(tailBlock) = Len(queue)
  /\ \A b \in InUse(place) : b # tailBlock => before[block[b].next] = before[b] + Filled(b)
  /\ \A b \in InUse(place) : b # frontBlock => Filled(b) > 0
  /\ \A b, d \in InUse(place) : place[b] < place[d] =>
       before[d] >= before[b] + Filled(b) + (place[d] - place[b] - 1) * Least
  /\ \A b \in InUse(place), j \in Nat :
       j < Filled(b) /\ ~(consumer.at = "front" /\ b = frontBlock /\ j = 0) =>
         block[b].data[SlotAhead(Size(b), block[b].front, j)] = queue[before[b] + j + 1]
  /\ \A b \in Linked \ InUse(place) : ~(producer.at = "tailBlock" /\ b = producer.next) => Filled(b) = 0

\* What the producer knows when it is where it is.
Producing ==
  /\ producer.at # "idle" => producer.element \in Element /\ lengthAtEnqueue >= Len(queue)
  /\ producer.at \in {"construct", "tail"} =>
       Ahead(Size(tailBlock), block[tailBlock].localFront, block[tailBlock].tail) < Size(tailBlock) - 1
  /\ producer.at = "tail" => block[tailBlock].data[block[tailBlock].tail] = producer.element
  /\ producer.at \in {"frontBlock", "nextFront", "constructNext", "nextTail", "make", "link", "tailBlock"} =>
       tailBlock = frontBlock \/ Filled(tailBlock) >= Least
  /\ producer.at \in {"nextFront", "constructNext", "nextTail", "tailBlock"} =>
       producer.next = block[tailBlock].next /\ producer.next # frontBlock
  /\ producer.at \in {"constructNext", "nextTail"} =>
       block[producer.next].localFront = block[producer.next].front
  /\ producer.at = "nextTail" => block[producer.next].data[block[producer.next].tail] = producer.element
  /\ producer.at = "link" =>
       producer.next = Len(block) /\ block[producer.next].next = block[tailBlock].next
  /\ producer.at \in {"link", "tailBlock"} =>
       /\ Filled(producer.next) = 1
       /\ block[producer.next].data[block[producer.next].front] = producer.element
  /\ producer.at = "make" => lengthAtEnqueue >= maxSize

\* All blocks were full when the producer began that now has come to the first.
FullWhenBegun(place) ==
  producer.at = "frontBlock" =>
    lengthAtEnqueue >= Least /\ lengthAtEnqueue >= (place[tailBlock] - place[frontBlock]) * Least

\* What the consumer knows.
Consuming ==
  /\ (consumer.at = "idle") = (consumer.call = "none")
  /\ consumer.at # "idle" /\ queue = <<>> => emptyAtCall
  /\ consumer.at \in {"take", "front"} => block[frontBlock].front # block[frontBlock].localTail
  /\ consumer.at = "front" => consumer.call = "try_dequeue" /\ consumer.element = queue[1]
  /\ consumer.at = "tailBlock" /\ frontBlock = tailBlock => emptyAtCall
  /\ consumer.at \in {"tailAgain", "next", "tailOfNext", "peekNext", "advance"} => frontBlock # tailBlock
  /\ consumer.at \in {"next", "tailOfNext", "peekNext", "advance"} => Filled(frontBlock) = 0
  /\ consumer.at \in {"tailOfNext", "peekNext", "advance"} => consumer.next = block[frontBlock].next
  /\ consumer.at = "peekNext" => consumer.call = "peek"
  /\ consumer.at = "advance" =>
       consumer.call = "try_dequeue" /\ block[consumer.next].front # block[consumer.next].localTail

Whole(place, before, last) == Ring(place, last) /\ Contents(place, before) /\ FullWhenBegun(place)

MarksInv ==
  /\ MarksTypes /\ GoodBlocks /\ Producing /\ Consuming
  /\ \E place, before, last : Whole(place, before, last)
-----------------------------------------------------------------------------
(* Indices and blocks.                                                     *)

LEMMA AheadRange ==
  ASSUME NEW c \in Nat, NEW f \in 0..(c - 1), NEW t \in 0..(c - 1)
  PROVE  /\ Ahead(c, f, t) \in 0..(c - 1) /\ (Ahead(c, f, t) = 0) = (f = t)
         /\ SlotAhead(c, f, 0) = f
  BY DEF Ahead, SlotAhead

LEMMA NextIndex ==
  ASSUME NEW b, Size(b) \in Nat, Size(b) > 1, NEW i \in 0..(Size(b) - 1)
  PROVE  After(b, i) = IF i + 1 = Size(b) THEN 0 ELSE i + 1
  BY DEF After

\* The index that follows what is ahead.
LEMMA TailGoesOn ==
  ASSUME NEW c \in Nat, c > 1, NEW f \in 0..(c - 1), NEW t \in 0..(c - 1),
         NEW u, u = (IF t + 1 = c THEN 0 ELSE t + 1)
  PROVE  /\ u \in 0..(c - 1) /\ (u = f) = (Ahead(c, f, t) = c - 1)
         /\ Ahead(c, f, t) < c - 1 => Ahead(c, f, u) = Ahead(c, f, t) + 1
         /\ SlotAhead(c, f, Ahead(c, f, t)) = t
  BY DEF Ahead, SlotAhead

LEMMA FrontGoesOn ==
  ASSUME NEW c \in Nat, c > 1, NEW f \in 0..(c - 1), NEW t \in 0..(c - 1), f # t,
         NEW u, u = (IF f + 1 = c THEN 0 ELSE f + 1)
  PROVE  /\ u \in 0..(c - 1) /\ Ahead(c, u, t) = Ahead(c, f, t) - 1
         /\ \A j \in Nat : j < c - 1 => SlotAhead(c, u, j) = SlotAhead(c, f, j + 1)
  BY DEF Ahead, SlotAhead

LEMMA SlotsDiffer ==
  ASSUME NEW c \in Nat, NEW f \in 0..(c - 1), NEW t \in 0..(c - 1), NEW j \in Nat, j < Ahead(c, f, t)
  PROVE  SlotAhead(c, f, j) \in 0..(c - 1) /\ SlotAhead(c, f, j) # t /\ (j # 0 => SlotAhead(c, f, j) # f)
  BY DEF Ahead, SlotAhead

LEMMA BlockWrite ==
  ASSUME block \in Seq(Blocks), NEW x \in 1..Len(block), NEW r \in Blocks, block' = [block EXCEPT ![x] = r]
  PROVE  /\ block' \in Seq(Blocks) /\ Len(block') = Len(block) /\ block'[x] = r
         /\ \A b \in 1..Len(block) : b # x => block'[b] = block[b]
  OBVIOUS

LEMMA MarksSize == \A b : Size(b) = Cardinality(DOMAIN block[b].data)
  BY DEF Size, Cardinality, Cardinality

LEMMA SizeOf ==
  ASSUME NEW c \in Nat, NEW b, DOMAIN block[b].data = 0..(c - 1)
  PROVE  Size(b) = c
<1>1. Cardinality(0..(c - 1)) = c
  BY FS_Interval
<1> QED BY <1>1, MarksSize

LEMMA SameSize ==
  ASSUME NEW b, DOMAIN block'[b].data = DOMAIN block[b].data
  PROVE  Size(b)' = Size(b)
  BY DEF Size

\* A step that changes what threads know of each other's indices at most.
CopiesChange ==
  /\ Len(block') = Len(block)
  /\ \A b \in 1..Len(block) :
       /\ block'[b].front = block[b].front /\ block'[b].tail = block[b].tail
       /\ block'[b].data = block[b].data /\ block'[b].next = block[b].next
  /\ UNCHANGED <<maxSize, MAX_BLOCK_SIZE, frontBlock, tailBlock, queue>>

\* A step that leaves the indices and the order of the blocks.
IndicesKept ==
  /\ Len(block') = Len(block)
  /\ \A b \in 1..Len(block) :
       /\ block'[b].front = block[b].front /\ block'[b].tail = block[b].tail
       /\ DOMAIN block'[b].data = DOMAIN block[b].data /\ block'[b].next = block[b].next
  /\ UNCHANGED <<maxSize, MAX_BLOCK_SIZE, frontBlock, tailBlock, queue>>

LEMMA SizesStay ==
  ASSUME IndicesKept, NEW b \in 1..Len(block)
  PROVE  Size(b)' = Size(b) /\ Filled(b)' = Filled(b)
<1>1. Size(b)' = Size(b)
  BY SameSize DEF IndicesKept
<1> QED BY <1>1 DEF IndicesKept, Filled

LEMMA CopiesKeepSizes ==
  ASSUME MarksTypes, CopiesChange, NEW b \in 1..Len(block)
  PROVE  Size(b)' = Size(b) /\ Filled(b)' = Filled(b)
<1>1. IndicesKept
  BY DEF CopiesChange, IndicesKept
<1> QED BY <1>1, SizesStay

LEMMA LeastKept ==
  ASSUME UNCHANGED <<maxSize, MAX_BLOCK_SIZE>>
  PROVE  Least' = Least /\ InitialBlockCount(maxSize)' = InitialBlockCount(maxSize)
  BY DEF Least, InitialBlockCount, InitialBlockSize, CeilToPow2

LEMMA RingStays ==
  ASSUME MarksTypes, IndicesKept, Linked' = Linked, NEW place, NEW last, Ring(place, last)
  PROVE  Ring(place, last)'
<1>1. \A b \in Linked : b \in 1..Len(block)
  BY DEF Linked
<1>2. \A b \in Linked : block'[b].next = block[b].next
  BY <1>1 DEF IndicesKept
<1>3. frontBlock' = frontBlock /\ InitialBlockCount(maxSize)' = InitialBlockCount(maxSize)
  BY LeastKept DEF IndicesKept
<1> QED BY <1>2, <1>3 DEF Ring

LEMMA ContentsStay ==
  ASSUME MarksTypes, IndicesKept, Linked' = Linked, NEW place, NEW before, Contents(place, before),
         producer.at = "tailBlock" => producer'.at = "tailBlock" /\ producer'.next = producer.next,
         \A b \in InUse(place), j \in Nat :
           j < Filled(b) /\ ~(consumer'.at = "front" /\ b = frontBlock /\ j = 0) =>
             block'[b].data[SlotAhead(Size(b), block[b].front, j)] = queue[before[b] + j + 1]
  PROVE  Contents(place, before)'
<1>1. \A b \in Linked : b \in 1..Len(block)
  BY DEF Linked
<1>2. \A b \in Linked :
        /\ block'[b].next = block[b].next /\ block'[b].front = block[b].front
        /\ Filled(b)' = Filled(b) /\ Size(b)' = Size(b)
  BY <1>1, SizesStay DEF IndicesKept
<1>3. frontBlock' = frontBlock /\ tailBlock' = tailBlock /\ queue' = queue /\ Least' = Least
  BY LeastKept DEF IndicesKept
<1>4. InUse(place)' = InUse(place)
  BY <1>3 DEF InUse
<1>5. tailBlock \in Linked /\ InUse(place) \subseteq Linked
  BY DEF MarksTypes, InUse
<1>6. /\ before[frontBlock]' = 0 /\ \A b \in InUse(place)' : before[b] \in Nat
      /\ before[tailBlock]' + Filled(tailBlock)' = Len(queue)'
  BY <1>2, <1>3, <1>4, <1>5 DEF Contents
<1>7. \A b \in InUse(place)' : b # tailBlock' => before[block'[b].next] = before[b] + Filled(b)'
  BY <1>2, <1>3, <1>4, <1>5 DEF Contents
<1>8. \A b \in InUse(place)' : b # frontBlock' => Filled(b)' > 0
  BY <1>2, <1>3, <1>4, <1>5 DEF Contents
<1>9. \A b, d \in InUse(place)' : place[b] < place[d] =>
       before[d] >= before[b] + Filled(b)' + (place[d] - place[b] - 1) * Least'
  BY <1>2, <1>3, <1>4, <1>5 DEF Contents
<1>10. \A b \in InUse(place)', j \in Nat :
       j < Filled(b)' /\ ~(consumer'.at = "front" /\ b = frontBlock' /\ j = 0) =>
         block'[b].data[SlotAhead(Size(b)', block'[b].front, j)] = queue'[before[b] + j + 1]
  BY <1>2, <1>3, <1>4, <1>5
<1>11. \A b \in Linked' \ InUse(place)' : ~(producer'.at = "tailBlock" /\ b = producer'.next) => Filled(b)' = 0
  BY <1>2, <1>3, <1>4, <1>5 DEF Contents
<1> QED BY <1>6, <1>7, <1>8, <1>9, <1>10, <1>11 DEF Contents
-----------------------------------------------------------------------------
(* The ring.                                                               *)

LEMMA LinkedBlocks ==
  ASSUME MarksTypes, GoodBlocks, NEW b \in Linked
  PROVE  /\ b \in 1..Len(block) /\ GoodBlock(b)
         /\ Filled(b) \in 0..(Size(b) - 1) /\ (Filled(b) = 0) = (block[b].front = block[b].tail)
<1>1. b \in 1..Len(block) /\ GoodBlock(b)
  BY DEF Linked, GoodBlocks
<1>2. Size(b) \in Nat /\ block[b].front \in 0..(Size(b) - 1) /\ block[b].tail \in 0..(Size(b) - 1)
  BY <1>1 DEF GoodBlock
<1> QED BY <1>1, <1>2, AheadRange DEF Filled

\* The powers of two that ceilToPow2 may give.
LEMMA PowersOfTwo ==
  /\ {2^k : k \in 0..16} \subseteq Nat
  /\ \A x \in Nat : 1 < x /\ x < 65537 => \E p \in {2^k : k \in 0..16} : p >= x /\ p < 2 * x
<1>1. /\ 2^0 = 1 /\ 2^1 = 2 /\ 2^2 = 4 /\ 2^3 = 8 /\ 2^4 = 16 /\ 2^5 = 32 /\ 2^6 = 64 /\ 2^7 = 128
      /\ 2^8 = 256 /\ 2^9 = 512 /\ 2^10 = 1024 /\ 2^11 = 2048 /\ 2^12 = 4096 /\ 2^13 = 8192
      /\ 2^14 = 16384 /\ 2^15 = 32768 /\ 2^16 = 65536
  BY SMT
<1> DEFINE powers == {2^k : k \in 0..16}
<1>2. powers \subseteq Nat
  <2>1. /\ 2^0 \in Nat /\ 2^1 \in Nat /\ 2^2 \in Nat /\ 2^3 \in Nat /\ 2^4 \in Nat /\ 2^5 \in Nat
        /\ 2^6 \in Nat /\ 2^7 \in Nat /\ 2^8 \in Nat /\ 2^9 \in Nat /\ 2^10 \in Nat /\ 2^11 \in Nat
        /\ 2^12 \in Nat /\ 2^13 \in Nat /\ 2^14 \in Nat /\ 2^15 \in Nat /\ 2^16 \in Nat
    BY <1>1
  <2>2. ASSUME NEW k \in 0..16 PROVE 2^k \in Nat
    <3>1. \/ k = 0 \/ k = 1 \/ k = 2 \/ k = 3 \/ k = 4 \/ k = 5 \/ k = 6 \/ k = 7 \/ k = 8
          \/ k = 9 \/ k = 10 \/ k = 11 \/ k = 12 \/ k = 13 \/ k = 14 \/ k = 15 \/ k = 16
      OBVIOUS
    <3> QED BY Zenon, <2>1, <3>1
  <2> QED BY <2>2
<1>3. /\ 2 \in powers /\ 4 \in powers /\ 8 \in powers /\ 16 \in powers /\ 32 \in powers /\ 64 \in powers
      /\ 128 \in powers /\ 256 \in powers
  BY <1>1
<1>4. /\ 512 \in powers /\ 1024 \in powers /\ 2048 \in powers /\ 4096 \in powers /\ 8192 \in powers
      /\ 16384 \in powers /\ 32768 \in powers /\ 65536 \in powers
  BY <1>1
<1> HIDE DEF powers
<1>5. ASSUME NEW x \in Nat, 1 < x, x < 257 PROVE \E p \in powers : p >= x /\ p < 2 * x
  BY <1>3, <1>5
<1>6. ASSUME NEW x \in Nat, 256 < x, x < 65537 PROVE \E p \in powers : p >= x /\ p < 2 * x
  BY <1>4, <1>6
<1> QED BY <1>2, <1>5, <1>6 DEF powers

LEMMA Constructed ==
  ASSUME <<maxSize, MAX_BLOCK_SIZE>> \in Constructions
  PROVE  /\ maxSize \in Nat /\ maxSize > 0 /\ MAX_BLOCK_SIZE \in Nat /\ MAX_BLOCK_SIZE > 1
         /\ CeilToPow2(maxSize + 1) \in Nat /\ CeilToPow2(maxSize + 1) >= maxSize + 1
<1>1. maxSize \in Nat /\ 0 < maxSize /\ maxSize < 65536 /\ MAX_BLOCK_SIZE \in Nat /\ 1 < MAX_BLOCK_SIZE
  BY MarksAssumption
<1>2. PICK x : x = maxSize + 1
  OBVIOUS
<1>3. x \in Nat /\ 1 < x /\ x < 65537
  BY <1>1, <1>2
<1>4. CeilToPow2(x) \in {2^k : k \in 0..16} /\ CeilToPow2(x) >= x
  <2>1. \E p \in {2^k : k \in 0..16} : p >= x /\ p < 2 * x
    BY <1>3, PowersOfTwo
  <2> QED BY <2>1, Zenon DEF CeilToPow2
<1>5. CeilToPow2(x) \in Nat
  BY <1>4, PowersOfTwo
<1> QED BY <1>1, <1>2, <1>4, <1>5

LEMMA LeastIsPositive == MarksTypes => Least \in Nat /\ Least > 0
<1>1. ASSUME MarksTypes PROVE <<maxSize, MAX_BLOCK_SIZE>> \in Constructions
  BY <1>1 DEF MarksTypes
<1> QED BY <1>1, Constructed DEF Least, InitialBlockSize

LEMMA UsedBlocks ==
  ASSUME MarksTypes, GoodBlocks, NEW place, NEW last, NEW before, Ring(place, last), Contents(place, before)
  PROVE  /\ frontBlock \in InUse(place) /\ tailBlock \in InUse(place) /\ InUse(place) \subseteq Linked
         /\ \A b \in InUse(place) : before[b] \in Nat /\ before[b] + Filled(b) <= Len(queue)
         /\ \A b \in InUse(place) : b # frontBlock => place[frontBlock] < place[b] /\ before[b] >= Filled(frontBlock)
<1>1. frontBlock \in InUse(place) /\ tailBlock \in InUse(place) /\ InUse(place) \subseteq Linked
  BY DEF MarksTypes, Ring, InUse
<1>2. \A b \in Linked : place[b] \in Int
  BY DEF Ring
<1>3. \A b \in Linked : Filled(b) \in Nat
  BY LinkedBlocks DEF GoodBlock
<1>4. ASSUME NEW b \in InUse(place), NEW d \in InUse(place), place[b] < place[d]
      PROVE  before[d] >= before[b] + Filled(b)
  <2>1. before[d] >= before[b] + Filled(b) + (place[d] - place[b] - 1) * Least
    BY <1>4 DEF Contents
  <2>2. PICK n : n = place[d] - place[b] - 1
    OBVIOUS
  <2>3. n \in Nat
    BY <1>1, <1>2, <1>4, <2>2
  <2>4. n * Least \in Nat
    BY <2>3, LeastIsPositive
  <2>5. before[b] \in Nat /\ before[d] \in Nat /\ Filled(b) \in Nat
    BY <1>1, <1>3 DEF Contents
  <2> QED BY <2>1, <2>2, <2>4, <2>5
<1>5. ASSUME NEW b \in InUse(place) PROVE before[b] \in Nat /\ before[b] + Filled(b) <= Len(queue)
  <2>1. b = tailBlock \/ place[b] < place[tailBlock]
    BY <1>1, <1>2 DEF InUse, Ring
  <2>2. /\ before[tailBlock] + Filled(tailBlock) = Len(queue)
        /\ before[b] \in Nat /\ Filled(b) \in Nat /\ before[tailBlock] \in Nat /\ Filled(tailBlock) \in Nat
    BY <1>1, <1>3 DEF Contents
  <2>3. CASE b = tailBlock
    BY <2>2, <2>3
  <2>4. CASE place[b] < place[tailBlock]
    BY <1>1, <1>4, <2>2, <2>4
  <2> QED BY <2>1, <2>3, <2>4
<1>6. ASSUME NEW b \in InUse(place), b # frontBlock
      PROVE  place[frontBlock] < place[b] /\ before[b] >= Filled(frontBlock)
  <2>1. place[frontBlock] < place[b]
    BY <1>1, <1>2, <1>6 DEF Ring
  <2>2. before[b] >= before[frontBlock] + Filled(frontBlock)
    BY <1>1, <1>4, <2>1
  <2> QED BY <1>1, <1>3, <2>1, <2>2 DEF Contents
<1> QED BY <1>1, <1>5, <1>6

\* What comes after frontBlock, if that is not the last in use.
LEMMA NextUsed ==
  ASSUME MarksTypes, GoodBlocks, NEW place, NEW last, NEW before, Ring(place, last), Contents(place, before),
         frontBlock # tailBlock, NEW n, n = block[frontBlock].next
  PROVE  /\ n \in InUse(place) /\ n # frontBlock /\ place[n] = place[frontBlock] + 1
         /\ Filled(n) > 0 /\ before[n] = Filled(frontBlock) /\ frontBlock # last
<1>1. place[frontBlock] < place[tailBlock] /\ place[tailBlock] <= place[last] /\ frontBlock \in InUse(place)
  BY UsedBlocks DEF Ring, MarksTypes
<1>2. place[frontBlock] \in Int /\ place[tailBlock] \in Int /\ place[last] \in Int
  BY DEF Ring, MarksTypes
<1>3. frontBlock # last
  BY <1>1, <1>2
<1>4. n \in Linked /\ place[n] = place[frontBlock] + 1
  BY <1>3 DEF Ring, MarksTypes
<1>5. n \in InUse(place) /\ n # frontBlock
  BY <1>1, <1>2, <1>4 DEF InUse
<1>6. before[n] = before[frontBlock] + Filled(frontBlock) /\ before[frontBlock] = 0 /\ Filled(n) > 0
  BY <1>1, <1>5 DEF Contents
<1>7. Filled(frontBlock) \in Nat
  BY LinkedBlocks DEF MarksTypes, GoodBlock
<1> QED BY <1>3, <1>4, <1>5, <1>6, <1>7

\* What comes after tailBlock.
LEMMA NextFree ==
  ASSUME MarksTypes, NEW place, NEW last, Ring(place, last), NEW n, n = block[tailBlock].next
  PROVE  IF n = frontBlock THEN tailBlock = last
         ELSE /\ n \in Linked /\ n \notin InUse(place) /\ place[n] = place[tailBlock] + 1 /\ tailBlock # last
<1>1. tailBlock = last => n = frontBlock
  BY DEF Ring
<1>2. ASSUME tailBlock # last PROVE n \in Linked /\ place[n] = place[tailBlock] + 1
  BY <1>2 DEF Ring, MarksTypes
<1>3. place[frontBlock] <= place[tailBlock] /\ place[frontBlock] \in Int /\ place[tailBlock] \in Int
  BY DEF Ring, MarksTypes
<1> QED BY <1>1, <1>2, <1>3 DEF InUse

LEMMA WholeKept ==
  ASSUME MarksTypes, CopiesChange, Linked' = Linked, NEW place, NEW before, NEW last,
         Whole(place, before, last), FullWhenBegun(place)',
         consumer'.at = "front" <=> consumer.at = "front",
         producer.at = "tailBlock" => producer'.at = "tailBlock" /\ producer'.next = producer.next
  PROVE  Whole(place, before, last)'
<1>1. IndicesKept
  BY DEF CopiesChange, IndicesKept
<1>2. \A b \in InUse(place) : block'[b].data = block[b].data
  BY DEF CopiesChange, InUse, Linked
<1>3. \A b \in InUse(place), j \in Nat :
        j < Filled(b) /\ ~(consumer'.at = "front" /\ b = frontBlock /\ j = 0) =>
          block'[b].data[SlotAhead(Size(b), block[b].front, j)] = queue[before[b] + j + 1]
  BY <1>2 DEF Whole, Contents
<1> QED BY <1>1, <1>3, RingStays, ContentsStay DEF Whole

\* How far the copies lag behind in a block.
LEMMA BlockIndices ==
  ASSUME NEW b, GoodBlock(b)
  PROVE  /\ Filled(b) \in 0..(Size(b) - 1) /\ (Filled(b) = 0 <=> block[b].front = block[b].tail)
         /\ Ahead(Size(b), block[b].localFront, block[b].tail) \in 0..(Size(b) - 1)
         /\ Ahead(Size(b), block[b].front, block[b].localTail) \in Nat
         /\ block[b].front # block[b].localTail => Filled(b) > 0
         /\ Fits(b, block[b].front) <=> Filled(b) < Size(b) - 1
         /\ Fits(b, block[b].localFront) <=>
              Ahead(Size(b), block[b].localFront, block[b].tail) < Size(b) - 1
<1>1. PICK c, f, t, l, m :
        c = Size(b) /\ f = block[b].front /\ t = block[b].tail /\ l = block[b].localFront /\ m = block[b].localTail
  OBVIOUS
<1>2. c \in Nat /\ c > 1 /\ f \in 0..(c - 1) /\ t \in 0..(c - 1) /\ l \in 0..(c - 1) /\ m \in 0..(c - 1)
      /\ Ahead(c, f, m) <= Filled(b) /\ Filled(b) = Ahead(c, f, t)
  BY <1>1 DEF GoodBlock, Filled
<1>3. PICK u : u = IF t + 1 = c THEN 0 ELSE t + 1
  OBVIOUS
<1>4. After(b, t) = u
  BY <1>1, <1>2, <1>3, NextIndex
<1>5. /\ Ahead(c, f, t) \in 0..(c - 1) /\ (Ahead(c, f, t) = 0) = (f = t) /\ Ahead(c, l, t) \in 0..(c - 1)
      /\ Ahead(c, f, m) \in 0..(c - 1) /\ (Ahead(c, f, m) = 0) = (f = m)
  <2>1. Ahead(c, f, t) \in 0..(c - 1) /\ (Ahead(c, f, t) = 0) = (f = t)
    BY <1>2, AheadRange
  <2>2. Ahead(c, l, t) \in 0..(c - 1)
    BY <1>2, AheadRange
  <2>3. Ahead(c, f, m) \in 0..(c - 1) /\ (Ahead(c, f, m) = 0) = (f = m)
    BY <1>2, AheadRange
  <2> QED BY ONLY <2>1, <2>2, <2>3, Zenon
<1>6. (u = f) = (Ahead(c, f, t) = c - 1) /\ (u = l) = (Ahead(c, l, t) = c - 1)
  <2>1. (u = f) = (Ahead(c, f, t) = c - 1)
    BY <1>2, <1>3, TailGoesOn
  <2>2. (u = l) = (Ahead(c, l, t) = c - 1)
    BY <1>2, <1>3, TailGoesOn
  <2> QED BY ONLY <2>1, <2>2, Zenon
<1>7. Fits(b, f) <=> u # f
  BY <1>1, <1>4 DEF Fits
<1>8. Fits(b, l) <=> u # l
  BY <1>1, <1>4 DEF Fits
<1>9. /\ Filled(b) \in 0..(c - 1) /\ (Filled(b) = 0 <=> f = t) /\ Ahead(c, f, m) \in Nat
      /\ f # m => Filled(b) > 0
  BY <1>2, <1>5
<1>10. /\ Fits(b, f) <=> Filled(b) < c - 1
       /\ Fits(b, l) <=> Ahead(c, l, t) < c - 1
  BY <1>2, <1>5, <1>6, <1>7, <1>8
<1> QED BY <1>1, <1>5, <1>9, <1>10

-----------------------------------------------------------------------------
(* What the threads stand on.                                              *)

LEMMA ProducersNext ==
  ASSUME MarksTypes, GoodBlocks, Producing, NEW place, NEW before, NEW last, Whole(place, before, last),
         NEW n, n = producer.next
  PROVE  /\ producer.at \in {"nextFront", "constructNext", "nextTail", "tailBlock"} =>
              /\ n \in Linked /\ n \notin InUse(place) /\ place[n] = place[tailBlock] + 1
              /\ n # tailBlock /\ n # frontBlock /\ tailBlock # last /\ n = block[tailBlock].next
         /\ producer.at = "link" => n \in 1..Len(block) /\ n \notin Linked
<1>1. ASSUME producer.at \in {"nextFront", "constructNext", "nextTail", "tailBlock"}
      PROVE  /\ n \in Linked /\ n \notin InUse(place) /\ place[n] = place[tailBlock] + 1
             /\ n # tailBlock /\ n # frontBlock /\ tailBlock # last /\ n = block[tailBlock].next
  <2>1. n = block[tailBlock].next /\ n # frontBlock
    BY <1>1 DEF Producing
  <2>2. n \in Linked /\ n \notin InUse(place) /\ place[n] = place[tailBlock] + 1 /\ tailBlock # last
    BY <2>1, NextFree DEF Whole
  <2>3. tailBlock \in InUse(place)
    BY UsedBlocks DEF Whole
  <2> QED BY <2>1, <2>2, <2>3
<1>2. ASSUME producer.at = "link" PROVE n \in 1..Len(block) /\ n \notin Linked
  <2>1. n = Len(block) /\ n \notin Linked
    BY <1>2 DEF Producing, Linked
  <2>2. tailBlock \in 1..Len(block) /\ Len(block) \in Nat
    BY DEF MarksTypes, Linked
  <2> QED BY <2>1, <2>2
<1> QED BY <1>1, <1>2

LEMMA ConsumersNext ==
  ASSUME MarksTypes, GoodBlocks, Consuming, NEW place, NEW before, NEW last, Whole(place, before, last),
         consumer.at \in {"tailOfNext", "peekNext", "advance"}, NEW n, n = consumer.next
  PROVE  /\ n \in InUse(place) /\ n \in Linked /\ n # frontBlock /\ n = block[frontBlock].next
         /\ Filled(n) > 0 /\ before[n] = 0 /\ Filled(frontBlock) = 0 /\ frontBlock # tailBlock
         /\ place[n] = place[frontBlock] + 1 /\ frontBlock # last
<1>1. n = block[frontBlock].next /\ Filled(frontBlock) = 0 /\ frontBlock # tailBlock
  BY DEF Consuming
<1> QED BY <1>1, NextUsed DEF Whole, InUse

\* While the consumer is at an element, there is one.
LEMMA ElementIsThere ==
  ASSUME MarksTypes, GoodBlocks, Consuming, NEW place, NEW before, NEW last, Whole(place, before, last),
         consumer.at \in {"take", "front"}
  PROVE  Filled(frontBlock) > 0 /\ queue # <<>> /\ Len(queue) > 0
<1>1. frontBlock \in Linked /\ GoodBlock(frontBlock) /\ Filled(frontBlock) \in Nat
  <2>1. frontBlock \in Linked
    BY DEF MarksTypes
  <2>2. GoodBlock(frontBlock)
    BY <2>1 DEF GoodBlocks, Linked
  <2>3. Filled(frontBlock) \in Nat
    BY <2>2, BlockIndices
  <2> QED BY <2>1, <2>2, <2>3
<1>2. block[frontBlock].front # block[frontBlock].localTail
  BY DEF Consuming
<1>3. Filled(frontBlock) > 0
  BY <1>1, <1>2, BlockIndices
<1>4. before[frontBlock] = 0 /\ before[frontBlock] + Filled(frontBlock) <= Len(queue)
  BY UsedBlocks DEF Whole, Contents
<1>5. Len(queue) \in Nat
  BY DEF MarksTypes
<1> QED BY <1>1, <1>3, <1>4, <1>5

LEMMA ConsumingStays ==
  ASSUME MarksTypes, GoodBlocks, Consuming, NEW place, NEW before, NEW last, Whole(place, before, last),
         IndicesKept, \A b \in 1..Len(block) : block'[b].localTail = block[b].localTail,
         UNCHANGED <<consumer, emptyAtCall>>
  PROVE  Consuming'
<1>1. frontBlock \in 1..Len(block)
  BY DEF MarksTypes, Linked
<1>2. /\ block'[frontBlock].front = block[frontBlock].front /\ block'[frontBlock].next = block[frontBlock].next
      /\ block'[frontBlock].localTail = block[frontBlock].localTail /\ Filled(frontBlock)' = Filled(frontBlock)
      /\ frontBlock' = frontBlock /\ tailBlock' = tailBlock /\ queue' = queue
  BY <1>1, SizesStay DEF IndicesKept
<1>3. CASE consumer.at = "advance"
  <2>1. consumer.next \in 1..Len(block)
    BY <1>3, ConsumersNext DEF Linked
  <2>2. /\ block'[consumer.next].front = block[consumer.next].front
        /\ block'[consumer.next].localTail = block[consumer.next].localTail
    BY <2>1 DEF IndicesKept
  <2> QED BY <1>2, <1>3, <2>2 DEF Consuming
<1>4. CASE consumer.at # "advance"
  BY <1>2, <1>4 DEF Consuming
<1> QED BY <1>3, <1>4

LEMMA ConsumingKept ==
  ASSUME MarksTypes, GoodBlocks, Consuming, NEW place, NEW before, NEW last, Whole(place, before, last),
         CopiesChange, \A b \in 1..Len(block) : block'[b].localTail = block[b].localTail,
         UNCHANGED <<consumer, emptyAtCall>>
  PROVE  Consuming'
<1>1. IndicesKept
  BY DEF CopiesChange, IndicesKept
<1> QED BY <1>1, ConsumingStays

LEMMA ProducingKept ==
  ASSUME MarksTypes, GoodBlocks, Producing, NEW place, NEW before, NEW last, Whole(place, before, last),
         CopiesChange, \A b \in 1..Len(block) : block'[b].localFront = block[b].localFront,
         UNCHANGED <<producer, lengthAtEnqueue>>
  PROVE  Producing'
<1>1. tailBlock \in 1..Len(block)
  BY DEF MarksTypes, Linked
<1>2. /\ block'[tailBlock].next = block[tailBlock].next /\ block'[tailBlock].data = block[tailBlock].data
      /\ block'[tailBlock].localFront = block[tailBlock].localFront /\ block'[tailBlock].tail = block[tailBlock].tail
      /\ Filled(tailBlock)' = Filled(tailBlock) /\ Size(tailBlock)' = Size(tailBlock)
      /\ frontBlock' = frontBlock /\ tailBlock' = tailBlock /\ queue' = queue /\ Least' = Least
      /\ maxSize' = maxSize /\ Len(block') = Len(block)
  BY <1>1, CopiesKeepSizes, LeastKept DEF CopiesChange
<1>3. CASE producer.at \in {"nextFront", "constructNext", "nextTail", "tailBlock", "link"}
  <2>1. producer.next \in 1..Len(block)
    BY <1>3, ProducersNext DEF Linked
  <2>2. /\ block'[producer.next].front = block[producer.next].front /\ block'[producer.next].tail = block[producer.next].tail
        /\ block'[producer.next].localFront = block[producer.next].localFront
        /\ block'[producer.next].data = block[producer.next].data /\ block'[producer.next].next = block[producer.next].next
        /\ Filled(producer.next)' = Filled(producer.next)
    BY <2>1, CopiesKeepSizes DEF CopiesChange
  <2> QED BY <1>2, <1>3, <2>2 DEF Producing
<1>4. CASE producer.at \notin {"nextFront", "constructNext", "nextTail", "tailBlock", "link"}
  BY <1>2, <1>4 DEF Producing
<1> QED BY <1>3, <1>4

LEMMA LinkedKept ==
  ASSUME Len(block') = Len(block),
         producer.at = "link" \/ producer'.at = "link" => producer'.at = producer.at /\ producer'.next = producer.next
  PROVE  Linked' = Linked
  BY DEF Linked

LEMMA FullKept ==
  ASSUME NEW place, FullWhenBegun(place), UNCHANGED <<producer, lengthAtEnqueue, tailBlock, frontBlock, maxSize, MAX_BLOCK_SIZE>>
  PROVE  FullWhenBegun(place)'
  BY LeastKept DEF FullWhenBegun

LEMMA BlocksKept ==
  ASSUME GoodBlocks, UNCHANGED <<block, maxSize, MAX_BLOCK_SIZE>>
  PROVE  GoodBlocks' /\ (MarksTypes => Len(block') = Len(block))
<1>1. Least' = Least
  BY LeastKept
<1> QED BY <1>1 DEF GoodBlocks, GoodBlock, Filled, Size
-----------------------------------------------------------------------------
(* Steps of the producer that write no more than its copy of an index.     *)

LEMMA EnqueueBegins ==
  ASSUME MarksTypes, GoodBlocks, Producing, Consuming, NEW place, NEW before, NEW last,
         Whole(place, before, last), OfferBegin
  PROVE  (MarksTypes /\ GoodBlocks /\ Producing /\ Consuming /\ Whole(place, before, last))'
<1> USE DEF OfferBegin
<1>1. tailBlock \in Linked /\ tailBlock \in 1..Len(block) /\ GoodBlock(tailBlock)
  BY DEF MarksTypes, Linked, GoodBlocks
<1> DEFINE c == Size(tailBlock)
           lag == Ahead(c, block[tailBlock].localFront, block[tailBlock].tail)
<1>2. producer' = [producer EXCEPT !.element = enqueued + 1, !.at = producer'.at] /\ producer'.at \in {"construct", "front"}
      /\ (producer'.at = "construct" => Fits(tailBlock, block[tailBlock].localFront))
      /\ producer'.element = enqueued + 1 /\ producer'.next = producer.next
  BY DEF MarksTypes
<1>3. producer'.at = "construct" => lag < c - 1
  BY <1>1, <1>2, BlockIndices
<1>4. UNCHANGED <<block, maxSize, MAX_BLOCK_SIZE, frontBlock, tailBlock, largestBlockSize, consumer, queue, emptyAtCall>>
      /\ producer.at = "idle" /\ lengthAtEnqueue' = Len(queue) /\ enqueued' = enqueued + 1 /\ enqueued < MaxEnqueues
  OBVIOUS
<1> HIDE DEF OfferBegin
<1>5. CopiesChange
  BY <1>4 DEF CopiesChange
<1>6. Linked' = Linked
  BY <1>2, <1>4, LinkedKept
<1>7. Len(queue) \in Nat /\ enqueued + 1 \in 1..MaxEnqueues /\ enqueued + 1 \in Nat
  BY <1>4, MarksAssumption DEF MarksTypes
<1>8. MarksTypes'
  <2>1. producer' \in [at : ProducerAt, element : Nat, next : Nat]
    BY <1>2, <1>7 DEF MarksTypes, ProducerAt
  <2> QED BY <1>4, <1>6, <1>7, <2>1, LeastKept DEF MarksTypes
<1>9. GoodBlocks'
  BY <1>4, BlocksKept
<1>10. Consuming'
  BY <1>4, <1>5, ConsumingKept
<1>11. Producing'
  <2>1. Size(tailBlock)' = c
    BY <1>4 DEF Size
  <2>2. producer'.at = "construct" =>
          Ahead(Size(tailBlock)', block'[tailBlock'].localFront, block'[tailBlock'].tail) < Size(tailBlock)' - 1
    BY <1>3, <1>4, <2>1
  <2>3. producer'.element \in Element /\ lengthAtEnqueue' >= Len(queue')
    BY <1>2, <1>4, <1>7 DEF Element
  <2> QED BY <1>2, <1>4, <2>2, <2>3 DEF Producing
<1>12. FullWhenBegun(place)'
  BY <1>2 DEF FullWhenBegun
<1> QED BY <1>2, <1>4, <1>5, <1>6, <1>8, <1>9, <1>10, <1>11, <1>12, WholeKept

\* A block whose copy of front is renewed.
LEMMA FrontIsSeen ==
  ASSUME MarksTypes, GoodBlocks, NEW x \in Linked, UNCHANGED <<maxSize, MAX_BLOCK_SIZE, frontBlock, tailBlock, queue>>,
         block' = [block EXCEPT ![x].localFront = block[x].front]
  PROVE  /\ CopiesChange /\ block' \in Seq(Blocks) /\ GoodBlocks' /\ block'[x].localFront = block[x].front
         /\ \A b \in 1..Len(block) : block'[b].localTail = block[b].localTail /\ (b # x => block'[b] = block[b])
<1>1. x \in 1..Len(block) /\ block \in Seq(Blocks)
  BY DEF MarksTypes, Linked
<1> DEFINE r == [block[x] EXCEPT !.localFront = block[x].front]
<1>2. block[x] \in Blocks
  BY <1>1
<1>3. r \in Blocks /\ r.front = block[x].front /\ r.tail = block[x].tail /\ r.data = block[x].data
      /\ r.next = block[x].next /\ r.localTail = block[x].localTail /\ r.localFront = block[x].front
  BY <1>2 DEF Blocks
<1>4. block' = [block EXCEPT ![x] = r]
  OBVIOUS
<1> HIDE DEF r
<1>5. /\ block' \in Seq(Blocks) /\ Len(block') = Len(block) /\ block'[x] = r
      /\ \A b \in 1..Len(block) : b # x => block'[b] = block[b]
  BY <1>1, <1>3, <1>4, BlockWrite
<1>6. CopiesChange
  BY <1>3, <1>5 DEF CopiesChange
<1>7. GoodBlocks'
  <2> SUFFICES ASSUME NEW b \in 1..Len(block) PROVE GoodBlock(b)'
    BY <1>5 DEF GoodBlocks
  <2>1. Size(b)' = Size(b) /\ Filled(b)' = Filled(b) /\ Least' = Least
    BY <1>6, CopiesKeepSizes, LeastKept
  <2>2. GoodBlock(b)
    BY DEF GoodBlocks
  <2>3. CASE b # x
    BY <1>5, <2>1, <2>2, <2>3 DEF GoodBlock
  <2>4. CASE b = x
    <3>1. Filled(x) = Ahead(Size(x), block[x].front, block[x].tail)
      BY DEF Filled
    <3>2. Filled(x) \in Nat
      BY LinkedBlocks DEF GoodBlock
    <3> QED BY <1>3, <1>5, <2>1, <2>2, <2>4, <3>1, <3>2 DEF GoodBlock
  <2> QED BY <2>3, <2>4
<1> QED BY <1>3, <1>5, <1>6, <1>7

LEMMA LoadsFront ==
  ASSUME MarksTypes, GoodBlocks, Producing, Consuming, NEW place, NEW before, NEW last,
         Whole(place, before, last), LoadFront
  PROVE  (MarksTypes /\ GoodBlocks /\ Producing /\ Consuming /\ Whole(place, before, last))'
<1> USE DEF LoadFront, ProducerStep, Produce
<1>1. tailBlock \in Linked /\ tailBlock \in 1..Len(block) /\ GoodBlock(tailBlock) /\ frontBlock \in Linked
  BY DEF MarksTypes, Linked, GoodBlocks
<1> DEFINE c == Size(tailBlock)
<1>2. /\ producer.at = "front" /\ producer' = [producer EXCEPT !.at = producer'.at]
      /\ producer'.at = (IF Fits(tailBlock, block[tailBlock].front) THEN "construct" ELSE "frontBlock")
      /\ producer'.element = producer.element /\ producer'.next = producer.next
      /\ producer' # NoEnqueue
  BY DEF MarksTypes, NoEnqueue
<1>3. /\ UNCHANGED <<maxSize, MAX_BLOCK_SIZE, frontBlock, tailBlock, largestBlockSize, enqueued, consumer, queue, emptyAtCall>>
      /\ lengthAtEnqueue' = lengthAtEnqueue
      /\ block' = [block EXCEPT ![tailBlock].localFront = block[tailBlock].front]
  BY <1>2
<1> HIDE DEF LoadFront, ProducerStep, Produce
<1>4. /\ CopiesChange /\ block' \in Seq(Blocks) /\ GoodBlocks' /\ block'[tailBlock].localFront = block[tailBlock].front
      /\ \A b \in 1..Len(block) : block'[b].localTail = block[b].localTail
  BY <1>1, <1>3, FrontIsSeen
<1>5. Linked' = Linked
  BY <1>2, <1>4, LinkedKept DEF CopiesChange
<1>6. MarksTypes'
  <2>1. producer' \in [at : ProducerAt, element : Nat, next : Nat]
    BY <1>2 DEF MarksTypes, ProducerAt
  <2> QED BY <1>3, <1>4, <1>5, <2>1, LeastKept DEF MarksTypes
<1>7. Consuming'
  BY <1>3, <1>4, ConsumingKept
<1>8. /\ c \in Nat /\ c > 1 /\ c > Least
      /\ Filled(tailBlock) = Ahead(c, block[tailBlock].front, block[tailBlock].tail)
  BY <1>1 DEF GoodBlock, Filled
<1>9. /\ Filled(tailBlock) \in 0..(c - 1)
      /\ Fits(tailBlock, block[tailBlock].front) <=> Filled(tailBlock) < c - 1
  BY <1>1, BlockIndices
<1>10. /\ producer'.at = "frontBlock" => Filled(tailBlock) = c - 1 /\ Filled(tailBlock) >= Least
       /\ producer'.at = "construct" => Filled(tailBlock) < c - 1
  <2>1. producer'.at = "frontBlock" => ~(Filled(tailBlock) < c - 1)
    BY <1>2, <1>9
  <2>2. producer'.at = "construct" => Filled(tailBlock) < c - 1
    BY <1>2, <1>9
  <2> QED BY <1>8, <1>9, <2>1, <2>2, LeastIsPositive
<1>11. Size(tailBlock)' = c /\ Filled(tailBlock)' = Filled(tailBlock) /\ Least' = Least
  BY <1>1, <1>3, <1>4, CopiesKeepSizes, LeastKept
<1>12. producer.element \in Element /\ lengthAtEnqueue >= Len(queue)
  BY <1>2 DEF Producing
<1>13. Producing'
  <2>1. block'[tailBlock].tail = block[tailBlock].tail
    BY <1>1, <1>4 DEF CopiesChange
  <2>2. producer'.at = "construct" =>
          Ahead(Size(tailBlock)', block'[tailBlock].localFront, block'[tailBlock].tail) < Size(tailBlock)' - 1
    BY <1>4, <1>8, <1>10, <1>11, <2>1
  <2> QED BY <1>2, <1>3, <1>10, <1>11, <1>12, <2>2 DEF Producing
<1>14. FullWhenBegun(place)'
  <2> SUFFICES ASSUME producer'.at = "frontBlock"
               PROVE  /\ lengthAtEnqueue >= Least
                      /\ lengthAtEnqueue >= (place[tailBlock] - place[frontBlock]) * Least
    BY <1>3, <1>11 DEF FullWhenBegun
  <2>1. /\ before[tailBlock] \in Nat /\ before[tailBlock] + Filled(tailBlock) = Len(queue)
        /\ before[frontBlock] = 0 /\ frontBlock \in InUse(place) /\ tailBlock \in InUse(place)
    BY UsedBlocks DEF Whole, Contents
  <2>2. Filled(tailBlock) \in Nat /\ Filled(tailBlock) >= Least /\ Least \in Nat /\ lengthAtEnqueue \in Nat
    BY <1>8, <1>9, <1>10, LeastIsPositive DEF MarksTypes
  <2>3. Filled(frontBlock) \in Nat
    BY <1>1, LinkedBlocks DEF GoodBlock
  <2>4. place[frontBlock] \in Int /\ place[tailBlock] \in Int /\ place[frontBlock] <= place[tailBlock]
    BY <1>1 DEF Whole, Ring
  <2>5. lengthAtEnqueue >= before[tailBlock] + Filled(tailBlock) /\ lengthAtEnqueue >= Least
    BY <1>12, <2>1, <2>2
  <2>6. CASE place[frontBlock] = place[tailBlock]
    <3>1. place[tailBlock] - place[frontBlock] = 0
      BY <2>4, <2>6
    <3> QED BY <2>2, <2>5, <3>1
  <2>7. CASE place[frontBlock] < place[tailBlock]
    <3>1. before[tailBlock] >= before[frontBlock] + Filled(frontBlock) + (place[tailBlock] - place[frontBlock] - 1) * Least
      BY <2>1, <2>7 DEF Whole, Contents
    <3>2. PICK d, k, z, u, v : d = place[tailBlock] - place[frontBlock] /\ k = Least /\ z = Filled(frontBlock)
                               /\ u = before[tailBlock] /\ v = Filled(tailBlock)
      OBVIOUS
    <3>3. d \in Int /\ k \in Nat /\ z \in Nat /\ u \in Nat /\ v \in Nat /\ v >= k
      BY <2>1, <2>2, <2>3, <2>4, <3>2
    <3>4. u >= 0 + z + (d - 1) * k
      BY <2>1, <3>1, <3>2
    <3>5. u + v >= d * k
      BY <3>3, <3>4
    <3>6. lengthAtEnqueue \in Nat /\ lengthAtEnqueue >= u + v
      BY <2>2, <2>5, <3>2
    <3>7. lengthAtEnqueue >= d * k
      <4>1. d * k \in Int
        BY <3>3
      <4> QED BY <3>3, <3>5, <3>6, <4>1
    <3> QED BY <3>2, <3>7, <2>5
  <2> QED BY <2>4, <2>5, <2>6, <2>7
<1> QED BY <1>2, <1>3, <1>4, <1>5, <1>6, <1>7, <1>13, <1>14, WholeKept
\* Blocks that are full hold what the queue was made for.
LEMMA Capacity ==
  ASSUME <<maxSize, MAX_BLOCK_SIZE>> \in Constructions, NEW length \in Nat, length >= Least,
         NEW d \in Int, d >= InitialBlockCount(maxSize) - 1, length >= d * Least
  PROVE  length >= maxSize
<1>1. /\ maxSize \in Nat /\ maxSize > 0 /\ MAX_BLOCK_SIZE \in Nat /\ MAX_BLOCK_SIZE > 1
      /\ CeilToPow2(maxSize + 1) \in Nat /\ CeilToPow2(maxSize + 1) >= maxSize + 1
  BY Constructed
<1>2. CASE CeilToPow2(maxSize + 1) > 2 * MAX_BLOCK_SIZE
  <2>1. Least = MAX_BLOCK_SIZE - 1 /\ InitialBlockCount(maxSize) = (maxSize + 2 * MAX_BLOCK_SIZE - 3) \div (MAX_BLOCK_SIZE - 1)
    BY <1>2 DEF Least, InitialBlockSize, InitialBlockCount
  <2>2. PICK m, s, q : m = MAX_BLOCK_SIZE - 1 /\ s = maxSize /\ q = (maxSize + 2 * MAX_BLOCK_SIZE - 3) \div (MAX_BLOCK_SIZE - 1)
    OBVIOUS
  <2>3. m \in Nat /\ m > 0 /\ s \in Nat /\ maxSize + 2 * MAX_BLOCK_SIZE - 3 = s + 2 * m - 1
    BY <1>1, <2>2
  <2>4. q = (s + 2 * m - 1) \div m
    BY <2>2, <2>3
  <2>5. q \in Nat /\ s + 2 * m - 1 < (q + 1) * m
    <3>1. PICK x : x = s + 2 * m - 1
      OBVIOUS
    <3>2. x \in Nat /\ q = x \div m
      BY <2>3, <2>4, <3>1
    <3>3. q \in Nat /\ x = m * q + (x % m) /\ x % m \in 0..(m - 1)
      BY <2>3, <3>2
    <3>4. PICK r : r = x % m
      OBVIOUS
    <3>5. x < (q + 1) * m
      BY <2>3, <3>2, <3>3, <3>4
    <3> QED BY <3>1, <3>3, <3>5
  <2>6. (q - 1) * m >= s
    BY <2>3, <2>5
  <2>7. d * m >= (q - 1) * m
    <3>1. d >= q - 1
      BY <2>1, <2>2
    <3> QED BY <3>1, <2>3, <2>5
  <2>8. length >= d * m
    BY <2>1, <2>2
  <2>9. d * m \in Int /\ (q - 1) * m \in Int
    BY <2>3, <2>5
  <2> QED BY <2>2, <2>3, <2>6, <2>7, <2>8, <2>9
<1>3. CASE ~(CeilToPow2(maxSize + 1) > 2 * MAX_BLOCK_SIZE)
  <2>1. Least = CeilToPow2(maxSize + 1) - 1
    BY <1>3 DEF Least, InitialBlockSize
  <2> QED BY <1>1, <2>1
<1> QED BY <1>2, <1>3

LEMMA LoadsFrontBlock ==
  ASSUME MarksTypes, GoodBlocks, Producing, Consuming, NEW place, NEW before, NEW last,
         Whole(place, before, last), LoadFrontBlock
  PROVE  (MarksTypes /\ GoodBlocks /\ Producing /\ Consuming /\ Whole(place, before, last))'
<1> USE DEF LoadFrontBlock, ProducerStep
<1>1. tailBlock \in Linked /\ tailBlock \in 1..Len(block) /\ block \in Seq(Blocks)
  BY DEF MarksTypes, Linked
<1> DEFINE n == block[tailBlock].next
<1>2. n \in Nat
  <2>1. block[tailBlock] \in Blocks
    BY <1>1
  <2> QED BY <2>1 DEF Blocks
<1>3. /\ producer.at = "frontBlock" /\ producer'.next = n /\ producer'.element = producer.element
      /\ producer'.at = (IF n # frontBlock THEN "nextFront" ELSE "make")
      /\ producer' \in [at : ProducerAt, element : Nat, next : Nat] /\ producer' # NoEnqueue
  BY <1>2 DEF MarksTypes, ProducerAt, NoEnqueue
<1>4. UNCHANGED <<block, maxSize, MAX_BLOCK_SIZE, frontBlock, tailBlock, largestBlockSize, enqueued, consumer, queue,
                  emptyAtCall, lengthAtEnqueue>>
  BY <1>3
<1> HIDE DEF LoadFrontBlock, ProducerStep
<1>5. CopiesChange
  BY <1>4 DEF CopiesChange
<1>6. Linked' = Linked
  BY <1>3, <1>4, LinkedKept
<1>7. MarksTypes'
  BY <1>3, <1>4, <1>6, LeastKept DEF MarksTypes
<1>8. GoodBlocks'
  BY <1>4, BlocksKept
<1>9. Consuming'
  BY <1>4, <1>5, ConsumingKept
<1>10. FullWhenBegun(place)'
  BY <1>3 DEF FullWhenBegun
<1>11. n = frontBlock => lengthAtEnqueue >= maxSize
  <2> SUFFICES ASSUME n = frontBlock PROVE lengthAtEnqueue >= maxSize
    OBVIOUS
  <2>1. tailBlock = last
    BY NextFree DEF Whole
  <2>2. /\ lengthAtEnqueue >= Least /\ lengthAtEnqueue >= (place[tailBlock] - place[frontBlock]) * Least
        /\ place[last] - place[frontBlock] >= InitialBlockCount(maxSize) - 1
        /\ place[last] \in Int /\ place[frontBlock] \in Int
    BY <1>3 DEF Whole, FullWhenBegun, Ring, MarksTypes
  <2> QED BY <2>1, <2>2, Capacity DEF MarksTypes
<1>12. Producing'
  BY <1>3, <1>4, <1>11, LeastKept DEF Producing, Filled, Size
<1> QED BY <1>3, <1>4, <1>5, <1>6, <1>7, <1>8, <1>9, <1>10, <1>12, WholeKept
LEMMA LoadsNextFront ==
  ASSUME MarksTypes, GoodBlocks, Producing, Consuming, NEW place, NEW before, NEW last,
         Whole(place, before, last), LoadNextFront
  PROVE  (MarksTypes /\ GoodBlocks /\ Producing /\ Consuming /\ Whole(place, before, last))'
<1> USE DEF LoadNextFront, ProducerStep, Produce
<1> DEFINE n == producer.next
<1>1. /\ producer.at = "nextFront" /\ producer'.next = n /\ producer'.element = producer.element
      /\ producer'.at = "constructNext"
      /\ producer' \in [at : ProducerAt, element : Nat, next : Nat] /\ producer' # NoEnqueue
  BY DEF MarksTypes, ProducerAt, NoEnqueue
<1>2. /\ UNCHANGED <<maxSize, MAX_BLOCK_SIZE, frontBlock, tailBlock, largestBlockSize, enqueued, consumer, queue,
                     emptyAtCall, lengthAtEnqueue>>
      /\ block' = [block EXCEPT ![n].localFront = block[n].front]
  BY <1>1
<1> HIDE DEF LoadNextFront, ProducerStep, Produce
<1>3. n \in Linked /\ n # tailBlock /\ n # frontBlock /\ n = block[tailBlock].next
  BY <1>1, ProducersNext
<1>4. n \in 1..Len(block) /\ tailBlock \in 1..Len(block)
  BY <1>3 DEF Linked, MarksTypes
<1>5. /\ CopiesChange /\ block' \in Seq(Blocks) /\ GoodBlocks' /\ block'[n].localFront = block[n].front
      /\ \A b \in 1..Len(block) : block'[b].localTail = block[b].localTail /\ (b # n => block'[b] = block[b])
  BY <1>2, <1>3, FrontIsSeen
<1>6. Linked' = Linked
  BY <1>1, <1>5, LinkedKept DEF CopiesChange
<1>7. MarksTypes'
  BY <1>1, <1>2, <1>5, <1>6, LeastKept DEF MarksTypes
<1>8. Consuming'
  BY <1>2, <1>5, ConsumingKept
<1>9. FullWhenBegun(place)'
  BY <1>1 DEF FullWhenBegun
<1>10. Producing'
  <2>1. block'[n].front = block[n].front /\ block'[tailBlock].next = block[tailBlock].next
        /\ Filled(tailBlock)' = Filled(tailBlock) /\ Least' = Least
    BY <1>4, <1>5, CopiesKeepSizes, LeastKept DEF CopiesChange
  <2>2. producer.element \in Element /\ lengthAtEnqueue >= Len(queue)
        /\ (tailBlock = frontBlock \/ Filled(tailBlock) >= Least)
    BY <1>1 DEF Producing
  <2>3. frontBlock' = frontBlock /\ tailBlock' = tailBlock /\ lengthAtEnqueue' = lengthAtEnqueue /\ queue' = queue
    BY <1>2
  <2>4. block'[n].localFront = block'[n].front /\ n = block'[tailBlock].next
    BY <1>3, <1>5, <2>1
  <2> QED BY <1>1, <1>3, <2>1, <2>2, <2>3, <2>4 DEF Producing
<1> QED BY <1>1, <1>2, <1>5, <1>6, <1>7, <1>8, <1>9, <1>10, WholeKept

LEMMA MakesNoBlock ==
  ASSUME MarksTypes, GoodBlocks, Producing, Consuming, NEW place, NEW before, NEW last,
         Whole(place, before, last), MakeBlockFails
  PROVE  (MarksTypes /\ GoodBlocks /\ Producing /\ Consuming /\ Whole(place, before, last))'
<1>1. /\ UNCHANGED <<block, maxSize, MAX_BLOCK_SIZE, frontBlock, tailBlock, largestBlockSize, enqueued, consumer, queue,
                     emptyAtCall>>
      /\ producer.at = "make" /\ producer' = NoEnqueue /\ lengthAtEnqueue' = 0
  BY DEF MakeBlockFails, ProducerStep
<1>2. producer'.at = "idle" /\ producer' \in [at : ProducerAt, element : Nat, next : Nat]
  BY <1>1 DEF NoEnqueue, Gone, ProducerAt
<1>3. CopiesChange
  BY <1>1 DEF CopiesChange
<1>4. Linked' = Linked
  BY <1>1, <1>2, LinkedKept
<1>5. MarksTypes'
  BY <1>1, <1>2, <1>4, LeastKept DEF MarksTypes
<1>6. GoodBlocks'
  BY <1>1, BlocksKept
<1>7. Consuming'
  BY <1>1, <1>3, ConsumingKept
<1>8. Producing' /\ FullWhenBegun(place)'
  BY <1>2 DEF Producing, FullWhenBegun
<1> QED BY <1>1, <1>2, <1>3, <1>4, <1>5, <1>6, <1>7, <1>8, WholeKept
-----------------------------------------------------------------------------
(* Steps of the consumer that write no more than its copy of an index.     *)

LEMMA CallBegins ==
  ASSUME MarksTypes, GoodBlocks, Producing, Consuming, NEW place, NEW before, NEW last,
         Whole(place, before, last), NEW operation \in {"peek", "try_dequeue"}, CallBegin(operation)
  PROVE  (MarksTypes /\ GoodBlocks /\ Producing /\ Consuming /\ Whole(place, before, last))'
<1> USE DEF CallBegin
<1>1. /\ UNCHANGED <<block, maxSize, MAX_BLOCK_SIZE, frontBlock, tailBlock, largestBlockSize, enqueued, producer, queue,
                     lengthAtEnqueue>>
      /\ consumer.at = "idle" /\ emptyAtCall' = (queue = <<>>)
      /\ consumer'.call = operation /\ consumer'.element = consumer.element /\ consumer'.next = consumer.next
      /\ consumer'.at = (IF block[frontBlock].front # block[frontBlock].localTail THEN "take" ELSE "tail")
      /\ consumer' \in [at : ConsumerAt, call : {"none", "peek", "try_dequeue"}, element : Nat, next : Nat]
  BY DEF MarksTypes, ConsumerAt
<1> HIDE DEF CallBegin
<1>2. CopiesChange
  BY <1>1 DEF CopiesChange
<1>3. Linked' = Linked
  BY <1>1, LinkedKept
<1>4. MarksTypes'
  BY <1>1, <1>3, LeastKept DEF MarksTypes
<1>5. GoodBlocks'
  BY <1>1, BlocksKept
<1>6. Producing'
  BY <1>1, <1>2, ProducingKept
<1>7. FullWhenBegun(place)'
  BY <1>1, FullKept DEF Whole
<1>8. Consuming'
  BY <1>1 DEF Consuming
<1> QED BY <1>1, <1>2, <1>3, <1>4, <1>5, <1>6, <1>7, <1>8, WholeKept

\* A block whose copy of tail is renewed.
LEMMA TailIsSeen ==
  ASSUME MarksTypes, GoodBlocks, NEW x \in Linked, UNCHANGED <<maxSize, MAX_BLOCK_SIZE, frontBlock, tailBlock, queue>>,
         block' = [block EXCEPT ![x].localTail = block[x].tail]
  PROVE  /\ CopiesChange /\ block' \in Seq(Blocks) /\ GoodBlocks' /\ block'[x].localTail = block[x].tail
         /\ \A b \in 1..Len(block) : block'[b].localFront = block[b].localFront /\ (b # x => block'[b] = block[b])
<1>1. x \in 1..Len(block) /\ block \in Seq(Blocks)
  BY DEF MarksTypes, Linked
<1> DEFINE r == [block[x] EXCEPT !.localTail = block[x].tail]
<1>2. block[x] \in Blocks
  BY <1>1
<1>3. r \in Blocks /\ r.front = block[x].front /\ r.tail = block[x].tail /\ r.data = block[x].data
      /\ r.next = block[x].next /\ r.localFront = block[x].localFront /\ r.localTail = block[x].tail
  BY <1>2 DEF Blocks
<1>4. block' = [block EXCEPT ![x] = r]
  OBVIOUS
<1> HIDE DEF r
<1>5. /\ block' \in Seq(Blocks) /\ Len(block') = Len(block) /\ block'[x] = r
      /\ \A b \in 1..Len(block) : b # x => block'[b] = block[b]
  BY <1>1, <1>3, <1>4, BlockWrite
<1>6. CopiesChange
  BY <1>3, <1>5 DEF CopiesChange
<1>7. GoodBlocks'
  <2> SUFFICES ASSUME NEW b \in 1..Len(block) PROVE GoodBlock(b)'
    BY <1>5 DEF GoodBlocks
  <2>1. Size(b)' = Size(b) /\ Filled(b)' = Filled(b) /\ Least' = Least
    BY <1>6, CopiesKeepSizes, LeastKept
  <2>2. GoodBlock(b)
    BY DEF GoodBlocks
  <2>3. CASE b # x
    BY <1>5, <2>1, <2>2, <2>3 DEF GoodBlock
  <2>4. CASE b = x
    <3>1. Filled(x) = Ahead(Size(x), block[x].front, block[x].tail)
      BY DEF Filled
    <3>2. Filled(x) \in Nat
      BY LinkedBlocks DEF GoodBlock
    <3> QED BY <1>3, <1>5, <2>1, <2>2, <2>4, <3>1, <3>2 DEF GoodBlock
  <2> QED BY <2>3, <2>4
<1> QED BY <1>3, <1>5, <1>6, <1>7

LEMMA LoadsTail ==
  ASSUME MarksTypes, GoodBlocks, Producing, Consuming, NEW place, NEW before, NEW last,
         Whole(place, before, last), LoadTail \/ ReloadTail
  PROVE  (MarksTypes /\ GoodBlocks /\ Producing /\ Consuming /\ Whole(place, before, last))'
<1> USE DEF LoadTail, ReloadTail, LoadTailThen, ConsumerStep, Consume
<1> DEFINE f == frontBlock
<1>1. /\ consumer.at \in {"tail", "tailAgain"} /\ consumer'.call = consumer.call
      /\ consumer'.at = (IF block[f].front # block[f].tail THEN "take"
                         ELSE IF consumer.at = "tail" THEN "tailBlock" ELSE "next")
      /\ consumer' \in [at : ConsumerAt, call : {"none", "peek", "try_dequeue"}, element : Nat, next : Nat]
  BY DEF MarksTypes, ConsumerAt
<1>2. /\ UNCHANGED <<maxSize, MAX_BLOCK_SIZE, frontBlock, tailBlock, largestBlockSize, enqueued, producer, queue,
                     emptyAtCall, lengthAtEnqueue>>
      /\ block' = [block EXCEPT ![f].localTail = block[f].tail]
  OBVIOUS
<1> HIDE DEF LoadTail, ReloadTail, LoadTailThen, ConsumerStep, Consume
<1>3. f \in Linked /\ f \in 1..Len(block) /\ GoodBlock(f)
  BY DEF MarksTypes, Linked, GoodBlocks
<1>4. /\ CopiesChange /\ block' \in Seq(Blocks) /\ GoodBlocks' /\ block'[f].localTail = block[f].tail
      /\ \A b \in 1..Len(block) : block'[b].localFront = block[b].localFront
  BY <1>2, <1>3, TailIsSeen
<1>5. Linked' = Linked
  BY <1>2, <1>4, LinkedKept DEF CopiesChange
<1>6. MarksTypes'
  BY <1>1, <1>2, <1>4, <1>5, LeastKept DEF MarksTypes
<1>7. Producing'
  BY <1>2, <1>4, ProducingKept
<1>8. FullWhenBegun(place)'
  BY <1>2, FullKept DEF Whole
<1>9. Filled(f)' = Filled(f) /\ block'[f].front = block[f].front
  BY <1>3, <1>4, CopiesKeepSizes DEF CopiesChange
<1>10. (Filled(f) = 0 <=> block[f].front = block[f].tail) /\ Filled(f) \in Nat
  BY <1>3, BlockIndices DEF GoodBlock
<1>11. consumer'.at = "tailBlock" /\ frontBlock = tailBlock => emptyAtCall
  <2> SUFFICES ASSUME consumer'.at = "tailBlock", frontBlock = tailBlock PROVE emptyAtCall
    OBVIOUS
  <2>1. Filled(frontBlock) = 0 /\ consumer.at # "idle"
    BY <1>1, <1>10
  <2>2. Len(queue) = 0
    BY <2>1 DEF Whole, Contents
  <2>3. queue = <<>>
    BY <2>2 DEF MarksTypes
  <2> QED BY <2>1, <2>3 DEF Consuming
<1>12. Consuming'
  <2>1. /\ (consumer.at = "idle") = (consumer.call = "none") /\ (consumer.at # "idle" /\ queue = <<>> => emptyAtCall)
        /\ (consumer.at = "tailAgain" => frontBlock # tailBlock)
    BY DEF Consuming
  <2>2. /\ consumer'.at = "take" => block'[frontBlock'].front # block'[frontBlock'].localTail
        /\ consumer'.at = "next" => Filled(frontBlock)' = 0
    BY <1>1, <1>2, <1>4, <1>9, <1>10
  <2> QED BY <1>1, <1>2, <1>11, <2>1, <2>2 DEF Consuming
<1> QED BY <1>1, <1>2, <1>4, <1>5, <1>6, <1>7, <1>8, <1>12, WholeKept

LEMMA LoadsTailBlock ==
  ASSUME MarksTypes, GoodBlocks, Producing, Consuming, NEW place, NEW before, NEW last,
         Whole(place, before, last), LoadTailBlock
  PROVE  (MarksTypes /\ GoodBlocks /\ Producing /\ Consuming /\ Whole(place, before, last))'
<1> USE DEF LoadTailBlock, ConsumerStep, Consume, Return
<1>1. /\ consumer.at = "tailBlock" /\ emptyAtCall' \in BOOLEAN
      /\ IF frontBlock # tailBlock
         THEN consumer'.at = "tailAgain" /\ consumer'.call = consumer.call /\ emptyAtCall' = emptyAtCall
         ELSE consumer'.at = "idle" /\ consumer'.call = "none"
      /\ consumer' \in [at : ConsumerAt, call : {"none", "peek", "try_dequeue"}, element : Nat, next : Nat]
  <2>1. CASE frontBlock # tailBlock
    BY <2>1 DEF MarksTypes, ConsumerAt
  <2>2. CASE frontBlock = tailBlock
    <3>1. consumer' = NoCall /\ emptyAtCall' = FALSE /\ consumer.at = "tailBlock"
      BY <2>2
    <3> HIDE DEF LoadTailBlock, ConsumerStep, Consume, Return
    <3> QED BY <2>2, <3>1 DEF ConsumerAt, NoCall, Gone
  <2> QED BY <2>1, <2>2
<1>2. /\ UNCHANGED <<block, maxSize, MAX_BLOCK_SIZE, frontBlock, tailBlock, largestBlockSize, enqueued, producer, queue,
                     lengthAtEnqueue>>
  OBVIOUS
<1> HIDE DEF LoadTailBlock, ConsumerStep, Consume, Return
<1>3. CopiesChange
  BY <1>2 DEF CopiesChange
<1>4. Linked' = Linked
  BY <1>2, LinkedKept
<1>5. MarksTypes'
  BY <1>1, <1>2, <1>4, LeastKept DEF MarksTypes
<1>6. GoodBlocks'
  BY <1>2, BlocksKept
<1>7. Producing'
  BY <1>2, <1>3, ProducingKept
<1>8. FullWhenBegun(place)'
  BY <1>2, FullKept DEF Whole
<1>9. Consuming'
  BY <1>1, <1>2 DEF Consuming
<1> QED BY <1>1, <1>2, <1>3, <1>4, <1>5, <1>6, <1>7, <1>8, <1>9, WholeKept

LEMMA LoadsNext ==
  ASSUME MarksTypes, GoodBlocks, Producing, Consuming, NEW place, NEW before, NEW last,
         Whole(place, before, last), LoadNext
  PROVE  (MarksTypes /\ GoodBlocks /\ Producing /\ Consuming /\ Whole(place, before, last))'
<1> USE DEF LoadNext, ConsumerStep
<1>1. frontBlock \in 1..Len(block) /\ block[frontBlock].next \in Nat
  <2>1. frontBlock \in 1..Len(block) /\ block[frontBlock] \in Blocks
    BY DEF MarksTypes, Linked
  <2> QED BY <2>1 DEF Blocks
<1>2. /\ consumer.at = "next" /\ consumer'.at = "tailOfNext" /\ consumer'.call = consumer.call
      /\ consumer'.next = block[frontBlock].next
      /\ consumer' \in [at : ConsumerAt, call : {"none", "peek", "try_dequeue"}, element : Nat, next : Nat]
  BY <1>1 DEF MarksTypes, ConsumerAt
<1>3. /\ UNCHANGED <<block, maxSize, MAX_BLOCK_SIZE, frontBlock, tailBlock, largestBlockSize, enqueued, producer, queue,
                     lengthAtEnqueue, emptyAtCall>>
  OBVIOUS
<1> HIDE DEF LoadNext, ConsumerStep
<1>4. CopiesChange
  BY <1>3 DEF CopiesChange
<1>5. Linked' = Linked
  BY <1>3, LinkedKept
<1>6. MarksTypes'
  BY <1>2, <1>3, <1>5, LeastKept DEF MarksTypes
<1>7. GoodBlocks'
  BY <1>3, BlocksKept
<1>8. Producing'
  BY <1>3, <1>4, ProducingKept
<1>9. FullWhenBegun(place)'
  BY <1>3, FullKept DEF Whole
<1>10. Filled(frontBlock)' = Filled(frontBlock)
  BY <1>1, <1>3, <1>4, CopiesKeepSizes
<1>11. Consuming'
  BY <1>2, <1>3, <1>10 DEF Consuming
<1> QED BY <1>2, <1>3, <1>4, <1>5, <1>6, <1>7, <1>8, <1>9, <1>11, WholeKept

LEMMA LoadsTailOfNext ==
  ASSUME MarksTypes, GoodBlocks, Producing, Consuming, NEW place, NEW before, NEW last,
         Whole(place, before, last), LoadTailOfNext
  PROVE  (MarksTypes /\ GoodBlocks /\ Producing /\ Consuming /\ Whole(place, before, last))'
<1> USE DEF LoadTailOfNext, ConsumerStep, Consume
<1> DEFINE n == consumer.next
<1>1. /\ consumer.at = "tailOfNext" /\ consumer'.call = consumer.call /\ consumer'.next = n
      /\ consumer'.at = (IF consumer.call = "peek" THEN "peekNext" ELSE "advance")
      /\ consumer' \in [at : ConsumerAt, call : {"none", "peek", "try_dequeue"}, element : Nat, next : Nat]
  BY DEF MarksTypes, ConsumerAt
<1>2. /\ UNCHANGED <<maxSize, MAX_BLOCK_SIZE, frontBlock, tailBlock, largestBlockSize, enqueued, producer, queue,
                     emptyAtCall, lengthAtEnqueue>>
      /\ IF consumer.call = "peek" THEN block' = block ELSE block' = [block EXCEPT ![n].localTail = block[n].tail]
  OBVIOUS
<1> HIDE DEF LoadTailOfNext, ConsumerStep, Consume
<1>3. n \in Linked /\ Filled(n) > 0 /\ Filled(frontBlock) = 0 /\ frontBlock # tailBlock /\ n = block[frontBlock].next
  BY <1>1, ConsumersNext
<1>4. n \in 1..Len(block) /\ GoodBlock(n) /\ frontBlock \in 1..Len(block)
  BY <1>3 DEF MarksTypes, Linked, GoodBlocks
<1>5. /\ CopiesChange /\ block' \in Seq(Blocks) /\ GoodBlocks' /\ (consumer.call # "peek" => block'[n].localTail = block[n].tail)
      /\ \A b \in 1..Len(block) : block'[b].localFront = block[b].localFront
  <2>1. CASE consumer.call = "peek"
    <3>1. block' = block
      BY <1>2, <2>1
    <3> QED BY <1>2, <2>1, <3>1, BlocksKept DEF CopiesChange, MarksTypes
  <2>2. CASE consumer.call # "peek"
    BY <1>2, <1>3, <2>2, TailIsSeen
  <2> QED BY <2>1, <2>2
<1>6. Linked' = Linked
  BY <1>2, <1>5, LinkedKept DEF CopiesChange
<1>7. MarksTypes'
  BY <1>1, <1>2, <1>5, <1>6, LeastKept DEF MarksTypes
<1>8. Producing'
  BY <1>2, <1>5, ProducingKept
<1>9. FullWhenBegun(place)'
  BY <1>2, FullKept DEF Whole
<1>10. /\ Filled(frontBlock)' = Filled(frontBlock) /\ block'[n].front = block[n].front
       /\ block'[frontBlock].next = block[frontBlock].next
  BY <1>4, <1>5, CopiesKeepSizes DEF CopiesChange
<1>11. block[n].front # block[n].tail
  BY <1>3, <1>4, BlockIndices
<1>12. Consuming'
  <2>1. (consumer.at = "idle") = (consumer.call = "none") /\ (queue = <<>> => emptyAtCall)
    BY <1>1 DEF Consuming
  <2>2. consumer.call # "none" /\ consumer.call \in {"none", "peek", "try_dequeue"}
    BY <1>1, <2>1 DEF MarksTypes
  <2>3. consumer'.at = "advance" => consumer'.call = "try_dequeue" /\ block'[n].front # block'[n].localTail
    BY <1>1, <1>5, <1>10, <1>11, <2>2
  <2> QED BY <1>1, <1>2, <1>3, <1>10, <2>1, <2>2, <2>3 DEF Consuming
<1> QED BY <1>1, <1>2, <1>5, <1>6, <1>7, <1>8, <1>9, <1>12, WholeKept

LEMMA Peeks ==
  ASSUME MarksTypes, GoodBlocks, Producing, Consuming, NEW place, NEW before, NEW last,
         Whole(place, before, last), Peek
  PROVE  (MarksTypes /\ GoodBlocks /\ Producing /\ Consuming /\ Whole(place, before, last))'
<1>1. /\ UNCHANGED <<block, maxSize, MAX_BLOCK_SIZE, frontBlock, tailBlock, largestBlockSize, enqueued, producer, queue,
                     lengthAtEnqueue>>
      /\ consumer.at \in {"take", "peekNext"} /\ consumer' = NoCall /\ emptyAtCall' = FALSE
  BY DEF Peek, PeekAt, ConsumerStep, Return
<1>2. /\ consumer'.at = "idle" /\ consumer'.call = "none"
      /\ consumer' \in [at : ConsumerAt, call : {"none", "peek", "try_dequeue"}, element : Nat, next : Nat]
  BY <1>1 DEF NoCall, Gone, ConsumerAt
<1>3. CopiesChange
  BY <1>1 DEF CopiesChange
<1>4. Linked' = Linked
  BY <1>1, LinkedKept
<1>5. MarksTypes'
  BY <1>1, <1>2, <1>4, LeastKept DEF MarksTypes
<1>6. GoodBlocks'
  BY <1>1, BlocksKept
<1>7. Producing'
  BY <1>1, <1>3, ProducingKept
<1>8. FullWhenBegun(place)'
  BY <1>1, FullKept DEF Whole
<1>9. Consuming'
  BY <1>2 DEF Consuming
<1> QED BY <1>1, <1>2, <1>3, <1>4, <1>5, <1>6, <1>7, <1>8, <1>9, WholeKept
-----------------------------------------------------------------------------
(* Steps that write an element.                                            *)

\* A slot of a block is written.
LEMMA SlotWritten ==
  ASSUME MarksTypes, GoodBlocks, NEW x \in Linked, NEW s \in 0..(Size(x) - 1), NEW v \in Nat,
         UNCHANGED <<maxSize, MAX_BLOCK_SIZE, frontBlock, tailBlock, queue>>,
         block' = [block EXCEPT ![x].data[s] = v]
  PROVE  /\ IndicesKept /\ block' \in Seq(Blocks) /\ GoodBlocks'
         /\ \A b \in 1..Len(block) :
              /\ block'[b].localTail = block[b].localTail /\ block'[b].localFront = block[b].localFront
              /\ b # x => block'[b] = block[b]
         /\ block'[x].data[s] = v
         /\ \A t \in 0..(Size(x) - 1) : t # s => block'[x].data[t] = block[x].data[t]
<1>1. x \in 1..Len(block) /\ block \in Seq(Blocks) /\ GoodBlock(x)
  BY DEF MarksTypes, Linked, GoodBlocks
<1> DEFINE r == [block[x] EXCEPT !.data = [block[x].data EXCEPT ![s] = v]]
<1>2. PICK c : c = Size(x)
  OBVIOUS
<1>3. block[x] \in Blocks /\ c \in Nat /\ block[x].data \in [0..(c - 1) -> Nat] /\ s \in 0..(c - 1)
  <2>1. block[x] \in Blocks
    BY <1>1
  <2> QED BY <1>1, <1>2, <2>1 DEF GoodBlock
<1>4. /\ r.data = [block[x].data EXCEPT ![s] = v] /\ r.data \in [0..(c - 1) -> Nat]
      /\ r.front = block[x].front /\ r.tail = block[x].tail
      /\ r.next = block[x].next /\ r.localFront = block[x].localFront /\ r.localTail = block[x].localTail
  BY <1>3 DEF Blocks
<1>5. r \in Blocks
  <2>1. r.data \in BlockData
    BY <1>3, <1>4 DEF BlockData
  <2> QED BY <1>3, <2>1 DEF Blocks
<1>6. block' = [block EXCEPT ![x] = r]
  OBVIOUS
<1>7. /\ \A t \in 0..(c - 1) : t # s => r.data[t] = block[x].data[t]
      /\ r.data[s] = v /\ DOMAIN r.data = DOMAIN block[x].data
  BY <1>3, <1>4
<1> HIDE DEF r
<1>8. /\ block' \in Seq(Blocks) /\ Len(block') = Len(block) /\ block'[x] = r
      /\ \A b \in 1..Len(block) : b # x => block'[b] = block[b]
  BY <1>1, <1>5, <1>6, BlockWrite
<1>9. IndicesKept
  BY <1>4, <1>7, <1>8 DEF IndicesKept
<1>10. GoodBlocks'
  <2> SUFFICES ASSUME NEW b \in 1..Len(block) PROVE GoodBlock(b)'
    BY <1>8 DEF GoodBlocks
  <2>1. Size(b)' = Size(b) /\ Filled(b)' = Filled(b) /\ Least' = Least
    BY <1>9, SizesStay, LeastKept
  <2>2. GoodBlock(b)
    BY DEF GoodBlocks
  <2>3. CASE b # x
    BY <1>8, <2>1, <2>2, <2>3 DEF GoodBlock
  <2>4. CASE b = x
    <3>1. /\ block'[x].front = block[x].front /\ block'[x].tail = block[x].tail
          /\ block'[x].next = block[x].next /\ block'[x].localFront = block[x].localFront
          /\ block'[x].localTail = block[x].localTail /\ block'[x].data \in [0..(Size(x) - 1) -> Nat]
      BY <1>2, <1>4, <1>8
    <3> QED BY <2>1, <2>2, <2>4, <3>1 DEF GoodBlock
  <2> QED BY <2>3, <2>4
<1> QED BY <1>2, <1>4, <1>7, <1>8, <1>9, <1>10

\* The slots that are in use are neither the one at tail nor, but for the first, the one at front.
LEMMA UsedSlots ==
  ASSUME NEW b, GoodBlock(b), NEW j \in Nat, j < Filled(b), NEW s, s = SlotAhead(Size(b), block[b].front, j)
  PROVE  s \in 0..(Size(b) - 1) /\ s # block[b].tail /\ (j # 0 => s # block[b].front)
<1>1. PICK c, f, t : c = Size(b) /\ f = block[b].front /\ t = block[b].tail
  OBVIOUS
<1>2. c \in Nat /\ f \in 0..(c - 1) /\ t \in 0..(c - 1) /\ j < Ahead(c, f, t) /\ s = SlotAhead(c, f, j)
  BY <1>1 DEF GoodBlock, Filled
<1> QED BY <1>1, <1>2, SlotsDiffer

\* The producer constructs the element where no element is.
LEMMA Constructs ==
  ASSUME MarksTypes, GoodBlocks, Producing, Consuming, NEW place, NEW before, NEW last,
         Whole(place, before, last), Construct
  PROVE  (MarksTypes /\ GoodBlocks /\ Producing /\ Consuming /\ Whole(place, before, last))'
<1> USE DEF Construct, ProducerStep, Produce
<1> DEFINE x == tailBlock
           s == block[tailBlock].tail
<1>1. /\ producer.at = "construct" /\ producer'.at = "tail" /\ producer'.element = producer.element
      /\ producer' \in [at : ProducerAt, element : Nat, next : Nat] /\ producer' # NoEnqueue
  BY DEF MarksTypes, ProducerAt, NoEnqueue
<1>2. /\ UNCHANGED <<maxSize, MAX_BLOCK_SIZE, frontBlock, tailBlock, largestBlockSize, enqueued, consumer, queue,
                     emptyAtCall, lengthAtEnqueue>>
      /\ block' = [block EXCEPT ![x].data[s] = producer.element]
  BY <1>1
<1> HIDE DEF Construct, ProducerStep, Produce
<1>3. x \in Linked /\ x \in 1..Len(block) /\ GoodBlock(x) /\ s \in 0..(Size(x) - 1) /\ producer.element \in Nat
  BY DEF MarksTypes, Linked, GoodBlocks, GoodBlock
<1>4. /\ IndicesKept /\ block' \in Seq(Blocks) /\ GoodBlocks' /\ block'[x].data[s] = producer.element
      /\ \A b \in 1..Len(block) :
           /\ block'[b].localTail = block[b].localTail /\ block'[b].localFront = block[b].localFront
           /\ b # x => block'[b] = block[b]
      /\ \A t \in 0..(Size(x) - 1) : t # s => block'[x].data[t] = block[x].data[t]
  <2>1. UNCHANGED <<maxSize, MAX_BLOCK_SIZE, frontBlock, tailBlock, queue>>
    BY <1>2
  <2>2. PICK i, v : i = s /\ v = producer.element
    OBVIOUS
  <2>3. i \in 0..(Size(x) - 1) /\ v \in Nat /\ block' = [block EXCEPT ![x].data[i] = v]
    BY <1>2, <1>3, <2>2
  <2>4. /\ IndicesKept /\ block' \in Seq(Blocks) /\ GoodBlocks'
        /\ \A b \in 1..Len(block) :
             /\ block'[b].localTail = block[b].localTail /\ block'[b].localFront = block[b].localFront
             /\ b # x => block'[b] = block[b]
        /\ block'[x].data[i] = v
        /\ \A t \in 0..(Size(x) - 1) : t # i => block'[x].data[t] = block[x].data[t]
    BY <1>3, <2>1, <2>3, SlotWritten
  <2> QED BY <2>2, <2>4
<1>5. Linked' = Linked
  BY <1>1, <1>4, LinkedKept DEF IndicesKept
<1>6. MarksTypes'
  BY <1>1, <1>2, <1>4, <1>5, LeastKept DEF MarksTypes
<1>7. Consuming'
  BY <1>2, <1>4, ConsumingStays
<1>8. FullWhenBegun(place)'
  BY <1>1 DEF FullWhenBegun
<1>9. Producing'
  <2>1. /\ producer.element \in Element /\ lengthAtEnqueue >= Len(queue)
        /\ Ahead(Size(x), block[x].localFront, block[x].tail) < Size(x) - 1
    BY <1>1 DEF Producing
  <2>2. /\ block'[x].localFront = block[x].localFront /\ block'[x].tail = block[x].tail /\ x' = x
        /\ Size(x)' = Size(x)
    BY <1>2, <1>3, <1>4, SizesStay DEF IndicesKept
  <2>3. /\ Ahead(Size(x)', block'[x'].localFront, block'[x'].tail) < Size(x)' - 1
        /\ block'[x'].data[block'[x'].tail] = producer'.element
        /\ producer'.element \in Element /\ lengthAtEnqueue' >= Len(queue')
    BY <1>1, <1>2, <1>4, <2>1, <2>2
  <2> QED BY <1>1, <2>3 DEF Producing
<1>10. \A b \in InUse(place), j \in Nat :
         j < Filled(b) /\ ~(consumer'.at = "front" /\ b = frontBlock /\ j = 0) =>
           block'[b].data[SlotAhead(Size(b), block[b].front, j)] = queue[before[b] + j + 1]
  <2> SUFFICES ASSUME NEW b \in InUse(place), NEW j \in Nat, j < Filled(b),
                      ~(consumer'.at = "front" /\ b = frontBlock /\ j = 0)
               PROVE  block'[b].data[SlotAhead(Size(b), block[b].front, j)] = queue[before[b] + j + 1]
    OBVIOUS
  <2>1. block[b].data[SlotAhead(Size(b), block[b].front, j)] = queue[before[b] + j + 1]
    BY <1>2 DEF Whole, Contents
  <2>2. b \in 1..Len(block)
    BY DEF InUse, Linked
  <2>3. CASE b # x
    BY <1>4, <2>1, <2>2, <2>3
  <2>4. CASE b = x
    <3>1. PICK t : t = SlotAhead(Size(b), block[b].front, j)
      OBVIOUS
    <3>2. t \in 0..(Size(x) - 1) /\ t # s
      BY <1>3, <2>4, <3>1, UsedSlots
    <3> QED BY <1>4, <2>1, <2>4, <3>1, <3>2
  <2> QED BY <2>3, <2>4
<1>11. Whole(place, before, last)'
  BY <1>1, <1>4, <1>5, <1>8, <1>10, RingStays, ContentsStay DEF Whole
<1> QED BY <1>4, <1>6, <1>7, <1>9, <1>11

LEMMA ConstructsNext ==
  ASSUME MarksTypes, GoodBlocks, Producing, Consuming, NEW place, NEW before, NEW last,
         Whole(place, before, last), ConstructNext
  PROVE  (MarksTypes /\ GoodBlocks /\ Producing /\ Consuming /\ Whole(place, before, last))'
<1> USE DEF ConstructNext, ProducerStep, Produce
<1> DEFINE n == producer.next
           s == block[producer.next].tail
<1>1. /\ producer.at = "constructNext" /\ producer'.at = "nextTail" /\ producer'.element = producer.element
      /\ producer'.next = n
      /\ producer' \in [at : ProducerAt, element : Nat, next : Nat] /\ producer' # NoEnqueue
  BY DEF MarksTypes, ProducerAt, NoEnqueue
<1>2. /\ UNCHANGED <<maxSize, MAX_BLOCK_SIZE, frontBlock, tailBlock, largestBlockSize, enqueued, consumer, queue,
                     emptyAtCall, lengthAtEnqueue>>
      /\ block' = [block EXCEPT ![n].data[s] = producer.element]
  BY <1>1
<1> HIDE DEF ConstructNext, ProducerStep, Produce
<1>3. n \in Linked /\ n \notin InUse(place) /\ n = block[tailBlock].next /\ n # frontBlock /\ n # tailBlock
  BY <1>1, ProducersNext
<1>4. n \in 1..Len(block) /\ GoodBlock(n) /\ s \in 0..(Size(n) - 1) /\ producer.element \in Nat
      /\ tailBlock \in 1..Len(block)
  BY <1>3 DEF MarksTypes, Linked, GoodBlocks, GoodBlock
<1>5. /\ IndicesKept /\ block' \in Seq(Blocks) /\ GoodBlocks' /\ block'[n].data[s] = producer.element
      /\ \A b \in 1..Len(block) :
           /\ block'[b].localTail = block[b].localTail /\ block'[b].localFront = block[b].localFront
           /\ b # n => block'[b] = block[b]
  <2>1. UNCHANGED <<maxSize, MAX_BLOCK_SIZE, frontBlock, tailBlock, queue>>
    BY <1>2
  <2>2. PICK x, i, v : x = n /\ i = s /\ v = producer.element
    OBVIOUS
  <2>3. /\ x \in Linked /\ i \in 0..(Size(x) - 1) /\ v \in Nat
        /\ block' = [block EXCEPT ![x].data[i] = v]
    BY <1>2, <1>3, <1>4, <2>2
  <2>4. /\ IndicesKept /\ block' \in Seq(Blocks) /\ GoodBlocks'
        /\ \A b \in 1..Len(block) :
             /\ block'[b].localTail = block[b].localTail /\ block'[b].localFront = block[b].localFront
             /\ b # x => block'[b] = block[b]
        /\ block'[x].data[i] = v
    BY <2>1, <2>3, SlotWritten
  <2> QED BY <2>2, <2>4
<1>6. Linked' = Linked
  BY <1>1, <1>5, LinkedKept DEF IndicesKept
<1>7. MarksTypes'
  BY <1>1, <1>2, <1>5, <1>6, LeastKept DEF MarksTypes
<1>8. Consuming'
  BY <1>2, <1>5, ConsumingStays
<1>9. FullWhenBegun(place)'
  BY <1>1 DEF FullWhenBegun
<1>10. Producing'
  <2>1. /\ producer.element \in Element /\ lengthAtEnqueue >= Len(queue)
        /\ tailBlock = frontBlock \/ Filled(tailBlock) >= Least
        /\ block[n].localFront = block[n].front
    BY <1>1 DEF Producing
  <2>2. /\ Filled(tailBlock)' = Filled(tailBlock) /\ Least' = Least /\ block'[tailBlock].next = block[tailBlock].next
        /\ block'[n].front = block[n].front /\ block'[n].tail = block[n].tail /\ block'[n].localFront = block[n].localFront
    BY <1>2, <1>4, <1>5, SizesStay, LeastKept DEF IndicesKept
  <2>3. frontBlock' = frontBlock /\ tailBlock' = tailBlock /\ lengthAtEnqueue' = lengthAtEnqueue /\ queue' = queue
    BY <1>2
  <2>4. /\ n = block'[tailBlock].next /\ block'[n].localFront = block'[n].front
        /\ block'[n].data[block'[n].tail] = producer.element
    BY <1>3, <1>5, <2>1, <2>2
  <2> QED BY <1>1, <1>3, <2>1, <2>2, <2>3, <2>4 DEF Producing
<1>11. \A b \in InUse(place), j \in Nat :
         j < Filled(b) /\ ~(consumer'.at = "front" /\ b = frontBlock /\ j = 0) =>
           block'[b].data[SlotAhead(Size(b), block[b].front, j)] = queue[before[b] + j + 1]
  <2>1. \A b \in InUse(place) : block'[b] = block[b]
    BY <1>3, <1>5 DEF InUse, Linked
  <2> QED BY <1>2, <2>1 DEF Whole, Contents
<1>12. Whole(place, before, last)'
  BY <1>1, <1>5, <1>6, <1>9, <1>11, RingStays, ContentsStay DEF Whole
<1> QED BY <1>5, <1>7, <1>8, <1>10, <1>12

\* The consumer takes the first element out of its slot.
LEMMA Takes ==
  ASSUME MarksTypes, GoodBlocks, Producing, Consuming, NEW place, NEW before, NEW last,
         Whole(place, before, last), Take
  PROVE  /\ (MarksTypes /\ GoodBlocks /\ Producing /\ Consuming /\ Whole(place, before, last))'
         /\ consumer'.call = consumer.call
<1> USE DEF Take, ConsumerStep
<1> DEFINE f == frontBlock
           s == block[frontBlock].front
           e == block[frontBlock].data[block[frontBlock].front]
<1>1. consumer.at = "take"
  OBVIOUS
<1>2. f \in Linked /\ f \in 1..Len(block) /\ GoodBlock(f) /\ s \in 0..(Size(f) - 1) /\ e \in Nat
  <2>1. f \in Linked /\ f \in 1..Len(block) /\ GoodBlock(f)
    BY DEF MarksTypes, Linked, GoodBlocks
  <2> QED BY <2>1 DEF GoodBlock
<1>3. /\ consumer'.at = "front" /\ consumer'.call = consumer.call /\ consumer'.element = e /\ consumer.call # "peek"
      /\ consumer' \in [at : ConsumerAt, call : {"none", "peek", "try_dequeue"}, element : Nat, next : Nat]
  BY <1>2 DEF MarksTypes, ConsumerAt
<1>4. /\ UNCHANGED <<maxSize, MAX_BLOCK_SIZE, frontBlock, tailBlock, largestBlockSize, enqueued, producer, queue,
                     emptyAtCall, lengthAtEnqueue>>
      /\ block' = [block EXCEPT ![f].data[s] = 0]
  BY DEF Gone
<1> HIDE DEF Take, ConsumerStep
<1>5. /\ IndicesKept /\ block' \in Seq(Blocks) /\ GoodBlocks'
      /\ \A b \in 1..Len(block) :
           /\ block'[b].localTail = block[b].localTail /\ block'[b].localFront = block[b].localFront
           /\ b # f => block'[b] = block[b]
      /\ \A t \in 0..(Size(f) - 1) : t # s => block'[f].data[t] = block[f].data[t]
  <2>1. UNCHANGED <<maxSize, MAX_BLOCK_SIZE, frontBlock, tailBlock, queue>>
    BY <1>4
  <2>2. PICK i, v : i = s /\ v = 0
    OBVIOUS
  <2>3. i \in 0..(Size(f) - 1) /\ v \in Nat /\ block' = [block EXCEPT ![f].data[i] = v]
    BY <1>2, <1>4, <2>2
  <2>4. /\ IndicesKept /\ block' \in Seq(Blocks) /\ GoodBlocks'
        /\ \A b \in 1..Len(block) :
             /\ block'[b].localTail = block[b].localTail /\ block'[b].localFront = block[b].localFront
             /\ b # f => block'[b] = block[b]
        /\ block'[f].data[i] = v
        /\ \A t \in 0..(Size(f) - 1) : t # i => block'[f].data[t] = block[f].data[t]
    BY <1>2, <2>1, <2>3, SlotWritten
  <2> QED BY <2>2, <2>4
<1>6. Linked' = Linked
  BY <1>4, <1>5, LinkedKept DEF IndicesKept
<1>7. MarksTypes'
  BY <1>3, <1>4, <1>5, <1>6, LeastKept DEF MarksTypes
<1>8. FullWhenBegun(place)'
  BY <1>4, FullKept DEF Whole
<1>9. Filled(f) > 0 /\ f \in InUse(place) /\ before[f] = 0 /\ Filled(f) \in Nat /\ s # block[f].tail
  <2>1. Filled(f) > 0
    BY <1>1, ElementIsThere
  <2>2. f \in InUse(place) /\ before[f] = 0
    BY UsedBlocks DEF Whole, Contents
  <2>3. Filled(f) \in 0..(Size(f) - 1) /\ (Filled(f) = 0 <=> s = block[f].tail) /\ Size(f) \in Nat
    BY <1>2, BlockIndices DEF GoodBlock
  <2> QED BY <2>1, <2>2, <2>3
<1>10. e = queue[1]
  <2>1. block[f].data[SlotAhead(Size(f), s, 0)] = queue[before[f] + 0 + 1]
    BY <1>1, <1>9 DEF Whole, Contents
  <2>2. SlotAhead(Size(f), s, 0) = s
    <3>1. PICK c : c = Size(f)
      OBVIOUS
    <3>2. c \in Nat /\ s \in 0..(c - 1)
      BY <1>2, <3>1 DEF GoodBlock
    <3> QED BY <3>1, <3>2 DEF SlotAhead
  <2> QED BY <1>9, <2>1, <2>2
<1>11. Consuming'
  <2>1. /\ block[f].front # block[f].localTail /\ consumer.call # "none" /\ (queue = <<>> => emptyAtCall)
    BY <1>1 DEF Consuming
  <2>2. consumer.call = "try_dequeue"
    BY <1>3, <2>1 DEF MarksTypes
  <2>3. block'[f].front = block[f].front /\ block'[f].localTail = block[f].localTail
    BY <1>2, <1>5 DEF IndicesKept
  <2> QED BY <1>3, <1>4, <1>10, <2>1, <2>2, <2>3 DEF Consuming
<1>12. Producing'
  <2>1. /\ tailBlock \in 1..Len(block) /\ GoodBlock(tailBlock)
    BY DEF MarksTypes, Linked, GoodBlocks
  <2>2. /\ Filled(tailBlock)' = Filled(tailBlock) /\ Least' = Least /\ block'[tailBlock].next = block[tailBlock].next
        /\ block'[tailBlock].tail = block[tailBlock].tail /\ block'[tailBlock].localFront = block[tailBlock].localFront
        /\ Size(tailBlock)' = Size(tailBlock)
        /\ block'[tailBlock].data[block[tailBlock].tail] = block[tailBlock].data[block[tailBlock].tail]
    <3>1. block[tailBlock].tail \in 0..(Size(tailBlock) - 1)
      BY <2>1 DEF GoodBlock
    <3>2. block'[tailBlock].data[block[tailBlock].tail] = block[tailBlock].data[block[tailBlock].tail]
      BY <1>5, <1>9, <2>1, <3>1
    <3> QED BY <1>4, <1>5, <2>1, <3>2, SizesStay, LeastKept DEF IndicesKept
  <2>3. frontBlock' = frontBlock /\ tailBlock' = tailBlock /\ lengthAtEnqueue' = lengthAtEnqueue /\ queue' = queue
        /\ producer' = producer /\ maxSize' = maxSize /\ Len(block') = Len(block)
    BY <1>4, <1>5 DEF IndicesKept
  <2>4. CASE producer.at \in {"nextFront", "constructNext", "nextTail", "tailBlock", "link"}
    <3>1. producer.next \in 1..Len(block) /\ producer.next # f
      BY <2>4, <1>2, ProducersNext DEF Linked
    <3>2. block'[producer.next] = block[producer.next]
      BY <1>5, <3>1
    <3>3. Filled(producer.next)' = Filled(producer.next)
      BY <1>5, <2>3, <3>1, SizesStay
    <3> QED BY <2>2, <2>3, <2>4, <3>2, <3>3 DEF Producing
  <2>5. CASE producer.at \notin {"nextFront", "constructNext", "nextTail", "tailBlock", "link"}
    BY <2>2, <2>3, <2>5 DEF Producing
  <2> QED BY <2>4, <2>5
<1>13. \A b \in InUse(place), j \in Nat :
         j < Filled(b) /\ ~(consumer'.at = "front" /\ b = frontBlock /\ j = 0) =>
           block'[b].data[SlotAhead(Size(b), block[b].front, j)] = queue[before[b] + j + 1]
  <2> SUFFICES ASSUME NEW b \in InUse(place), NEW j \in Nat, j < Filled(b),
                      ~(consumer'.at = "front" /\ b = frontBlock /\ j = 0)
               PROVE  block'[b].data[SlotAhead(Size(b), block[b].front, j)] = queue[before[b] + j + 1]
    OBVIOUS
  <2>1. block[b].data[SlotAhead(Size(b), block[b].front, j)] = queue[before[b] + j + 1]
    BY <1>1 DEF Whole, Contents
  <2>2. b \in 1..Len(block)
    BY DEF InUse, Linked
  <2>3. CASE b # f
    BY <1>5, <2>1, <2>2, <2>3
  <2>4. CASE b = f
    <3>1. PICK t : t = SlotAhead(Size(b), block[b].front, j)
      OBVIOUS
    <3>2. t \in 0..(Size(f) - 1) /\ t # s
      BY <1>2, <1>3, <2>4, <3>1, UsedSlots
    <3> QED BY <1>5, <2>1, <2>4, <3>1, <3>2
  <2> QED BY <2>3, <2>4
<1>14. Whole(place, before, last)'
  BY <1>4, <1>5, <1>6, <1>8, <1>13, RingStays, ContentsStay DEF Whole
<1> QED BY <1>3, <1>5, <1>7, <1>11, <1>12, <1>14
-----------------------------------------------------------------------------
(* Steps that move an index.                                               *)

LEMMA TailStored ==
  ASSUME MarksTypes, GoodBlocks, NEW x \in Linked, NEW u, u = After(x, block[x].tail),
         Ahead(Size(x), block[x].localFront, block[x].tail) < Size(x) - 1,
         UNCHANGED <<maxSize, MAX_BLOCK_SIZE>>, block' = [block EXCEPT ![x].tail = u]
  PROVE  /\ block' \in Seq(Blocks) /\ Len(block') = Len(block) /\ GoodBlocks'
         /\ Filled(x)' = Filled(x) + 1 /\ SlotAhead(Size(x), block[x].front, Filled(x)) = block[x].tail
         /\ \A b \in 1..Len(block) :
              /\ block'[b].front = block[b].front /\ block'[b].data = block[b].data /\ block'[b].next = block[b].next
              /\ block'[b].localTail = block[b].localTail /\ block'[b].localFront = block[b].localFront
              /\ Size(b)' = Size(b) /\ (b # x => Filled(b)' = Filled(b) /\ block'[b] = block[b])
<1>1. x \in 1..Len(block) /\ block \in Seq(Blocks) /\ GoodBlock(x)
  BY DEF MarksTypes, Linked, GoodBlocks
<1>2. PICK c, f, t, l, m :
        c = Size(x) /\ f = block[x].front /\ t = block[x].tail /\ l = block[x].localFront /\ m = block[x].localTail
  OBVIOUS
<1>3. c \in Nat /\ c > 1 /\ c > Least /\ f \in 0..(c - 1) /\ t \in 0..(c - 1) /\ l \in 0..(c - 1) /\ m \in 0..(c - 1)
      /\ Ahead(c, f, m) <= Filled(x) /\ Filled(x) = Ahead(c, f, t) /\ Filled(x) <= Ahead(c, l, t) /\ Ahead(c, l, t) < c - 1
      /\ block[x].data \in [0..(c - 1) -> Nat]
  BY <1>1, <1>2 DEF GoodBlock, Filled
<1>4. u = (IF t + 1 = c THEN 0 ELSE t + 1)
  BY <1>2, <1>3, NextIndex
<1>5. Ahead(c, f, t) \in 0..(c - 1) /\ Ahead(c, l, t) \in 0..(c - 1) /\ Ahead(c, f, m) \in 0..(c - 1)
  BY <1>3, AheadRange
<1>6. Ahead(c, f, t) < c - 1
  BY <1>3, <1>5
<1>7. u \in 0..(c - 1) /\ Ahead(c, f, u) = Ahead(c, f, t) + 1 /\ SlotAhead(c, f, Ahead(c, f, t)) = t
  BY <1>3, <1>4, <1>6, TailGoesOn
<1>8. Ahead(c, l, u) = Ahead(c, l, t) + 1
  <2>1. Ahead(c, l, t) < c - 1
    BY <1>3
  <2>2. c \in Nat /\ c > 1 /\ l \in 0..(c - 1) /\ t \in 0..(c - 1)
    BY <1>3
  <2> QED BY <1>4, <2>1, <2>2, TailGoesOn
<1> DEFINE r == [block[x] EXCEPT !.tail = u]
<1>9. block[x] \in Blocks
  BY <1>1
<1>10. r \in Blocks /\ r.front = f /\ r.tail = u /\ r.data = block[x].data
       /\ r.next = block[x].next /\ r.localFront = l /\ r.localTail = m
  BY <1>2, <1>7, <1>9 DEF Blocks
<1>11. block' = [block EXCEPT ![x] = r]
  OBVIOUS
<1> HIDE DEF r
<1>12. /\ block' \in Seq(Blocks) /\ Len(block') = Len(block) /\ block'[x] = r
       /\ \A b \in 1..Len(block) : b # x => block'[b] = block[b]
  BY <1>1, <1>10, <1>11, BlockWrite
<1>13. \A b \in 1..Len(block) :
         /\ block'[b].front = block[b].front /\ block'[b].data = block[b].data /\ block'[b].next = block[b].next
         /\ block'[b].localTail = block[b].localTail /\ block'[b].localFront = block[b].localFront
  BY <1>2, <1>10, <1>12
<1>14. \A b \in 1..Len(block) : Size(b)' = Size(b) /\ (b # x => Filled(b)' = Filled(b))
  BY <1>12, <1>13, SameSize DEF Filled
<1>15. Filled(x)' = Ahead(c, f, u)
  BY <1>1, <1>2, <1>10, <1>12, <1>14 DEF Filled
<1>16. GoodBlocks'
  <2> SUFFICES ASSUME NEW b \in 1..Len(block) PROVE GoodBlock(b)'
    BY <1>12 DEF GoodBlocks
  <2>1. Least' = Least /\ GoodBlock(b)
    BY LeastKept DEF GoodBlocks
  <2>2. CASE b # x
    BY <1>12, <1>14, <2>1, <2>2 DEF GoodBlock
  <2>3. CASE b = x
    <3>1. /\ Size(x)' = c /\ Filled(x)' = Ahead(c, f, t) + 1 /\ block'[x].data \in [0..(c - 1) -> Nat]
          /\ block'[x].front = f /\ block'[x].tail = u /\ block'[x].localFront = l /\ block'[x].localTail = m
      BY <1>1, <1>2, <1>3, <1>7, <1>10, <1>12, <1>14, <1>15
    <3>2. Ahead(c, f, m) <= Ahead(c, f, t) + 1 /\ Ahead(c, f, t) + 1 <= Ahead(c, l, u)
      <4>1. PICK k, p, q : k = Ahead(c, f, t) /\ p = Ahead(c, f, m) /\ q = Ahead(c, l, t)
        OBVIOUS
      <4>2. k \in Nat /\ p \in Nat /\ q \in Nat /\ p <= k /\ k <= q
        BY <1>3, <1>5, <4>1
      <4> QED BY <1>8, <4>1, <4>2
    <3>3. {f, u, l, m} \subseteq 0..(c - 1)
      BY <1>3, <1>7
    <3> QED BY <1>3, <2>1, <2>3, <3>1, <3>2, <3>3 DEF GoodBlock
  <2> QED BY <2>2, <2>3
<1>17. Filled(x)' = Filled(x) + 1 /\ SlotAhead(Size(x), block[x].front, Filled(x)) = block[x].tail
  BY <1>2, <1>3, <1>7, <1>15
<1> QED BY <1>12, <1>13, <1>14, <1>16, <1>17

LEMMA FrontStored ==
  ASSUME MarksTypes, GoodBlocks, NEW x \in Linked, NEW u, u = After(x, block[x].front),
         block[x].front # block[x].localTail,
         UNCHANGED <<maxSize, MAX_BLOCK_SIZE>>, block' = [block EXCEPT ![x].front = u]
  PROVE  /\ block' \in Seq(Blocks) /\ Len(block') = Len(block) /\ GoodBlocks'
         /\ Filled(x)' = Filled(x) - 1 /\ Filled(x) > 0
         /\ \A j \in Nat : j < Filled(x) - 1 =>
              SlotAhead(Size(x), u, j) = SlotAhead(Size(x), block[x].front, j + 1)
         /\ \A b \in 1..Len(block) :
              /\ block'[b].tail = block[b].tail /\ block'[b].data = block[b].data /\ block'[b].next = block[b].next
              /\ block'[b].localTail = block[b].localTail /\ block'[b].localFront = block[b].localFront
              /\ Size(b)' = Size(b) /\ (b # x => Filled(b)' = Filled(b) /\ block'[b] = block[b])
         /\ block'[x].front = u
<1>1. x \in 1..Len(block) /\ block \in Seq(Blocks) /\ GoodBlock(x)
  BY DEF MarksTypes, Linked, GoodBlocks
<1>2. PICK c, f, t, l, m :
        c = Size(x) /\ f = block[x].front /\ t = block[x].tail /\ l = block[x].localFront /\ m = block[x].localTail
  OBVIOUS
<1>3. c \in Nat /\ c > 1 /\ c > Least /\ f \in 0..(c - 1) /\ t \in 0..(c - 1) /\ l \in 0..(c - 1) /\ m \in 0..(c - 1)
      /\ Ahead(c, f, m) <= Filled(x) /\ Filled(x) = Ahead(c, f, t) /\ Filled(x) <= Ahead(c, l, t) /\ f # m
      /\ block[x].data \in [0..(c - 1) -> Nat]
  BY <1>1, <1>2 DEF GoodBlock, Filled
<1>4. u = (IF f + 1 = c THEN 0 ELSE f + 1)
  BY <1>2, <1>3, NextIndex
<1>5. /\ Ahead(c, f, t) \in 0..(c - 1) /\ Ahead(c, l, t) \in 0..(c - 1) /\ Ahead(c, f, m) \in 0..(c - 1)
      /\ (Ahead(c, f, t) = 0) = (f = t) /\ (Ahead(c, f, m) = 0) = (f = m)
  BY <1>3, AheadRange
<1>6. f # t /\ Ahead(c, f, t) > 0
  <2>1. PICK k, p : k = Ahead(c, f, t) /\ p = Ahead(c, f, m)
    OBVIOUS
  <2>2. k \in Nat /\ p \in Nat /\ p <= k /\ p # 0
    BY <1>3, <1>5, <2>1
  <2> QED BY <1>5, <2>1, <2>2
<1>7. u \in 0..(c - 1) /\ Ahead(c, u, t) = Ahead(c, f, t) - 1
      /\ \A j \in Nat : j < c - 1 => SlotAhead(c, u, j) = SlotAhead(c, f, j + 1)
  BY <1>3, <1>4, <1>6, FrontGoesOn
<1>8. Ahead(c, u, m) = Ahead(c, f, m) - 1
  BY <1>3, <1>4, FrontGoesOn
<1> DEFINE r == [block[x] EXCEPT !.front = u]
<1>9. block[x] \in Blocks
  BY <1>1
<1>10. r \in Blocks /\ r.front = u /\ r.tail = t /\ r.data = block[x].data
       /\ r.next = block[x].next /\ r.localFront = l /\ r.localTail = m
  BY <1>2, <1>7, <1>9 DEF Blocks
<1>11. block' = [block EXCEPT ![x] = r]
  OBVIOUS
<1> HIDE DEF r
<1>12. /\ block' \in Seq(Blocks) /\ Len(block') = Len(block) /\ block'[x] = r
       /\ \A b \in 1..Len(block) : b # x => block'[b] = block[b]
  BY <1>1, <1>10, <1>11, BlockWrite
<1>13. \A b \in 1..Len(block) :
         /\ block'[b].tail = block[b].tail /\ block'[b].data = block[b].data /\ block'[b].next = block[b].next
         /\ block'[b].localTail = block[b].localTail /\ block'[b].localFront = block[b].localFront
  BY <1>2, <1>10, <1>12
<1>14. \A b \in 1..Len(block) : Size(b)' = Size(b) /\ (b # x => Filled(b)' = Filled(b))
  BY <1>12, <1>13, SameSize DEF Filled
<1>15. Filled(x)' = Ahead(c, u, t)
  BY <1>1, <1>2, <1>10, <1>12, <1>14 DEF Filled
<1>16. GoodBlocks'
  <2> SUFFICES ASSUME NEW b \in 1..Len(block) PROVE GoodBlock(b)'
    BY <1>12 DEF GoodBlocks
  <2>1. Least' = Least /\ GoodBlock(b)
    BY LeastKept DEF GoodBlocks
  <2>2. CASE b # x
    BY <1>12, <1>14, <2>1, <2>2 DEF GoodBlock
  <2>3. CASE b = x
    <3>1. /\ Size(x)' = c /\ Filled(x)' = Ahead(c, f, t) - 1 /\ block'[x].data \in [0..(c - 1) -> Nat]
          /\ block'[x].front = u /\ block'[x].tail = t /\ block'[x].localFront = l /\ block'[x].localTail = m
      BY <1>1, <1>2, <1>3, <1>7, <1>10, <1>12, <1>14, <1>15
    <3>2. Ahead(c, u, m) <= Ahead(c, f, t) - 1 /\ Ahead(c, f, t) - 1 <= Ahead(c, l, t)
      <4>1. PICK k, p, q : k = Ahead(c, f, t) /\ p = Ahead(c, f, m) /\ q = Ahead(c, l, t)
        OBVIOUS
      <4>2. k \in Nat /\ p \in Nat /\ q \in Nat /\ p <= k /\ k <= q
        BY <1>3, <1>5, <4>1
      <4> QED BY <1>8, <4>1, <4>2
    <3>3. {u, t, l, m} \subseteq 0..(c - 1)
      BY <1>3, <1>7
    <3> QED BY <1>3, <2>1, <2>3, <3>1, <3>2, <3>3 DEF GoodBlock
  <2> QED BY <2>2, <2>3
<1>17. Filled(x)' = Filled(x) - 1 /\ Filled(x) > 0
  BY <1>3, <1>6, <1>7, <1>15
<1>18. \A j \in Nat : j < Filled(x) - 1 =>
         SlotAhead(Size(x), u, j) = SlotAhead(Size(x), block[x].front, j + 1)
  BY <1>2, <1>3, <1>5, <1>7
<1> QED BY <1>10, <1>12, <1>13, <1>14, <1>16, <1>17, <1>18

LEMMA RingGoesOn ==
  ASSUME MarksTypes, Len(block') = Len(block), Linked' = Linked, UNCHANGED <<maxSize, MAX_BLOCK_SIZE, frontBlock>>,
         \A b \in 1..Len(block) : block'[b].next = block[b].next, NEW place, NEW last, Ring(place, last)
  PROVE  Ring(place, last)'
<1>1. \A b \in Linked : b \in 1..Len(block) /\ block'[b].next = block[b].next
  BY DEF Linked
<1>2. frontBlock' = frontBlock /\ InitialBlockCount(maxSize)' = InitialBlockCount(maxSize)
  BY LeastKept
<1> QED BY <1>1, <1>2 DEF Ring

\* The element is in the queue when the producer stores tail.
LEMMA StoresTail ==
  ASSUME MarksTypes, GoodBlocks, Producing, Consuming, NEW place, NEW before, NEW last,
         Whole(place, before, last), StoreTail
  PROVE  (MarksTypes /\ GoodBlocks /\ Producing /\ Consuming /\ Whole(place, before, last))'
<1> USE DEF StoreTail, ProducerStep
<1> DEFINE e == producer.element
<1>1. /\ producer.at = "tail" /\ producer' = NoEnqueue /\ queue' = Append(queue, e) /\ lengthAtEnqueue' = 0
  OBVIOUS
<1>2. /\ producer'.at = "idle" /\ producer' \in [at : ProducerAt, element : Nat, next : Nat]
  BY <1>1 DEF ProducerAt, NoEnqueue, Gone
<1>3. UNCHANGED <<maxSize, MAX_BLOCK_SIZE, frontBlock, tailBlock, largestBlockSize, enqueued, consumer, emptyAtCall>>
  OBVIOUS
<1> DEFINE x == tailBlock
<1>4. x \in Linked /\ x \in 1..Len(block)
  BY DEF MarksTypes, Linked
<1>5. /\ Ahead(Size(x), block[x].localFront, block[x].tail) < Size(x) - 1
      /\ block[x].data[block[x].tail] = e /\ e \in Element
  BY <1>1 DEF Producing
<1>6. PICK u : u = After(x, block[x].tail)
  OBVIOUS
<1>7. block' = [block EXCEPT ![x].tail = u]
  BY <1>6
<1> HIDE DEF StoreTail, ProducerStep
<1>8. /\ block' \in Seq(Blocks) /\ Len(block') = Len(block) /\ GoodBlocks'
      /\ Filled(x)' = Filled(x) + 1 /\ SlotAhead(Size(x), block[x].front, Filled(x)) = block[x].tail
      /\ \A b \in 1..Len(block) :
           /\ block'[b].front = block[b].front /\ block'[b].data = block[b].data /\ block'[b].next = block[b].next
           /\ block'[b].localTail = block[b].localTail /\ block'[b].localFront = block[b].localFront
           /\ Size(b)' = Size(b) /\ (b # x => Filled(b)' = Filled(b) /\ block'[b] = block[b])
  <2>1. PICK y : y = x
    OBVIOUS
  <2>2. /\ y \in Linked /\ u = After(y, block[y].tail) /\ block' = [block EXCEPT ![y].tail = u]
        /\ Ahead(Size(y), block[y].localFront, block[y].tail) < Size(y) - 1
        /\ UNCHANGED <<maxSize, MAX_BLOCK_SIZE>>
    BY <1>3, <1>4, <1>5, <1>6, <1>7, <2>1
  <2>3. /\ block' \in Seq(Blocks) /\ Len(block') = Len(block) /\ GoodBlocks'
        /\ Filled(y)' = Filled(y) + 1 /\ SlotAhead(Size(y), block[y].front, Filled(y)) = block[y].tail
        /\ \A b \in 1..Len(block) :
             /\ block'[b].front = block[b].front /\ block'[b].data = block[b].data /\ block'[b].next = block[b].next
             /\ block'[b].localTail = block[b].localTail /\ block'[b].localFront = block[b].localFront
             /\ Size(b)' = Size(b) /\ (b # y => Filled(b)' = Filled(b) /\ block'[b] = block[b])
    BY <2>2, TailStored
  <2>4. Filled(x)' = Filled(y)'
    BY <1>3, <2>1 DEF Filled, Size
  <2> QED BY <2>1, <2>3, <2>4
<1>9. Linked' = Linked
  BY <1>1, <1>2, <1>8, LinkedKept
<1>10. queue \in Seq(Nat) /\ e \in Nat /\ queue' \in Seq(Nat) /\ Len(queue') = Len(queue) + 1 /\ queue'[Len(queue) + 1] = e
       /\ \A k \in 1..Len(queue) : queue'[k] = queue[k]
  <2>1. queue \in Seq(Nat) /\ e \in Nat
    BY DEF MarksTypes
  <2> QED BY <1>1, <2>1
<1>11. MarksTypes'
  BY <1>1, <1>2, <1>3, <1>8, <1>9, <1>10, LeastKept DEF MarksTypes
<1>12. Producing' /\ FullWhenBegun(place)'
  BY <1>2 DEF Producing, FullWhenBegun
<1>13. Consuming'
  <2>1. queue' # <<>>
    BY <1>10 DEF MarksTypes
  <2>2. consumer.at = "front" => queue[1] = queue'[1]
    <3>1. consumer.at = "front" => Len(queue) > 0
      BY ElementIsThere
    <3>2. Len(queue) \in Nat
      BY <1>10
    <3> QED BY <1>10, <3>1, <3>2
  <2>3. frontBlock \in 1..Len(block)
    BY DEF MarksTypes, Linked
  <2>4. frontBlock # tailBlock => Filled(frontBlock)' = Filled(frontBlock)
    BY <1>3, <1>8, <2>3
  <2>5. block'[frontBlock].front = block[frontBlock].front /\ block'[frontBlock].localTail = block[frontBlock].localTail
        /\ block'[frontBlock].next = block[frontBlock].next /\ frontBlock' = frontBlock /\ tailBlock' = tailBlock
        /\ consumer' = consumer /\ emptyAtCall' = emptyAtCall
    BY <1>3, <1>8, <2>3
  <2>6. CASE consumer.at = "advance"
    <3>1. consumer.next \in 1..Len(block)
      BY <2>6, ConsumersNext DEF Linked
    <3>2. block'[consumer.next].front = block[consumer.next].front /\ block'[consumer.next].localTail = block[consumer.next].localTail
      BY <1>8, <3>1
    <3> QED BY <2>1, <2>4, <2>5, <2>6, <3>2 DEF Consuming
  <2>7. CASE consumer.at # "advance"
    BY <2>1, <2>2, <2>4, <2>5, <2>7 DEF Consuming
  <2> QED BY <2>6, <2>7
<1>14. Ring(place, last)'
  BY <1>3, <1>8, <1>9, RingGoesOn DEF Whole
<1>15. Contents(place, before)'
  <2>1. /\ frontBlock \in InUse(place) /\ x \in InUse(place) /\ InUse(place) \subseteq Linked
        /\ \A b \in InUse(place) : before[b] \in Nat /\ before[b] + Filled(b) <= Len(queue)
    BY UsedBlocks DEF Whole
  <2>2. frontBlock' = frontBlock /\ x' = x /\ InUse(place)' = InUse(place) /\ Least' = Least /\ consumer' = consumer
    BY <1>3, <1>9, LeastKept DEF InUse
  <2>3. \A b \in Linked : /\ b \in 1..Len(block) /\ block'[b].next = block[b].next /\ block'[b].front = block[b].front
                          /\ block'[b].data = block[b].data /\ Size(b)' = Size(b)
                          /\ b # x => Filled(b)' = Filled(b)
    BY <1>8 DEF Linked
  <2>4. \A b \in Linked : Filled(b) \in Nat /\ place[b] \in Int
    BY LinkedBlocks DEF GoodBlock, Whole, Ring
  <2>5. /\ before[frontBlock]' = 0 /\ \A b \in InUse(place)' : before[b] \in Nat
        /\ before[x]' + Filled(x)' = Len(queue)'
    <3>1. before[frontBlock] = 0 /\ before[x] + Filled(x) = Len(queue)
      BY DEF Whole, Contents
    <3>2. PICK u0, v0, w : u0 = before[x] /\ v0 = Filled(x) /\ w = Len(queue)
      OBVIOUS
    <3>3. u0 \in Nat /\ v0 \in Nat /\ u0 + v0 = w /\ Filled(x)' = v0 + 1 /\ Len(queue') = w + 1
      BY <1>4, <1>8, <1>10, <2>1, <2>4, <3>1, <3>2
    <3>4. before[x]' = u0 /\ before[frontBlock]' = 0 /\ \A b \in InUse(place)' : before[b] \in Nat
      BY <2>1, <2>2, <3>1, <3>2
    <3> QED BY <3>3, <3>4
  <2>6. \A b \in InUse(place)' : b # x' => before[block'[b].next] = before[b] + Filled(b)'
    BY <2>1, <2>2, <2>3 DEF Whole, Contents
  <2>7. \A b \in InUse(place)' : b # frontBlock' => Filled(b)' > 0
    <3> SUFFICES ASSUME NEW b \in InUse(place), b # frontBlock PROVE Filled(b)' > 0
      BY <2>2
    <3>1. Filled(b) > 0
      BY DEF Whole, Contents
    <3>2. CASE b = x
      <4>1. Filled(b)' = Filled(x)'
        BY <2>2, <3>2 DEF Filled, Size
      <4> QED BY <1>8, <2>1, <2>4, <4>1
    <3>3. CASE b # x
      BY <2>1, <2>3, <3>1, <3>3
    <3> QED BY <3>2, <3>3
  <2>8. \A b, d \in InUse(place)' : place[b] < place[d] =>
         before[d] >= before[b] + Filled(b)' + (place[d] - place[b] - 1) * Least'
    <3> SUFFICES ASSUME NEW b \in InUse(place), NEW d \in InUse(place), place[b] < place[d]
                 PROVE  before[d] >= before[b] + Filled(b)' + (place[d] - place[b] - 1) * Least'
      BY <2>2
    <3>1. b # x
      BY <2>1, <2>4 DEF InUse
    <3>2. Filled(b)' = Filled(b)
      BY <2>1, <2>3, <3>1
    <3> QED BY <2>2, <3>2 DEF Whole, Contents
  <2>9. \A b \in InUse(place)', j \in Nat :
         j < Filled(b)' /\ ~(consumer'.at = "front" /\ b = frontBlock' /\ j = 0) =>
           block'[b].data[SlotAhead(Size(b)', block'[b].front, j)] = queue'[before[b] + j + 1]
    <3> SUFFICES ASSUME NEW b \in InUse(place), NEW j \in Nat, j < Filled(b)',
                        ~(consumer.at = "front" /\ b = frontBlock /\ j = 0)
                 PROVE  block[b].data[SlotAhead(Size(b), block[b].front, j)] = queue'[before[b] + j + 1]
      BY <2>1, <2>2, <2>3
    <3>1. CASE j < Filled(b)
      <4>1. block[b].data[SlotAhead(Size(b), block[b].front, j)] = queue[before[b] + j + 1]
        BY <3>1 DEF Whole, Contents
      <4>2. PICK k : k = before[b] + j + 1
        OBVIOUS
      <4>3. k \in 1..Len(queue)
        <5>1. before[b] \in Nat /\ before[b] + Filled(b) <= Len(queue) /\ Filled(b) \in Nat /\ Len(queue) \in Nat
          BY <1>10, <2>1, <2>4
        <5> QED BY <3>1, <4>2, <5>1
      <4> QED BY <1>10, <4>1, <4>2, <4>3
    <3>2. CASE ~(j < Filled(b))
      <4>1. b = x
        BY <2>1, <2>3, <3>2
      <4>2. Filled(b)' = Filled(x)'
        BY <2>2, <4>1 DEF Filled, Size
      <4>3. j = Filled(x)
        BY <1>8, <2>1, <2>4, <3>2, <4>1, <4>2
      <4>4. before[b] + j = Len(queue)
        BY <4>1, <4>3 DEF Whole, Contents
      <4> QED BY <1>5, <1>8, <1>10, <4>1, <4>3, <4>4
    <3> QED BY <3>1, <3>2
  <2>10. \A b \in Linked' \ InUse(place)' : ~(producer'.at = "tailBlock" /\ b = producer'.next) => Filled(b)' = 0
    <3> SUFFICES ASSUME NEW b \in Linked, b \notin InUse(place) PROVE Filled(b)' = 0
      BY <1>9, <2>2
    <3>1. Filled(b) = 0
      BY <1>1 DEF Whole, Contents
    <3> QED BY <2>1, <2>3, <3>1
  <2> QED BY <2>5, <2>6, <2>7, <2>8, <2>9, <2>10 DEF Contents
<1> QED BY <1>8, <1>11, <1>12, <1>13, <1>14, <1>15 DEF Whole

\* The next block has one element before it becomes tailBlock.
LEMMA StoresNextTail ==
  ASSUME MarksTypes, GoodBlocks, Producing, Consuming, NEW place, NEW before, NEW last,
         Whole(place, before, last), StoreNextTail
  PROVE  (MarksTypes /\ GoodBlocks /\ Producing /\ Consuming /\ Whole(place, before, last))'
<1> USE DEF StoreNextTail, ProducerStep, Produce
<1>1. PICK n : n = producer.next
  OBVIOUS
<1>2. /\ producer.at = "nextTail" /\ producer'.at = "tailBlock" /\ producer'.element = producer.element
      /\ producer'.next = n
      /\ producer' \in [at : ProducerAt, element : Nat, next : Nat] /\ producer' # NoEnqueue
  BY <1>1 DEF MarksTypes, ProducerAt, NoEnqueue
<1>3. PICK u : u = After(n, block[n].tail)
  OBVIOUS
<1>4. /\ UNCHANGED <<maxSize, MAX_BLOCK_SIZE, frontBlock, tailBlock, largestBlockSize, enqueued, consumer, queue,
                     emptyAtCall, lengthAtEnqueue>>
      /\ block' = [block EXCEPT ![n].tail = u]
  BY <1>1, <1>2, <1>3
<1> HIDE DEF StoreNextTail, ProducerStep, Produce
<1>5. n \in Linked /\ n \notin InUse(place) /\ n = block[tailBlock].next /\ n # frontBlock /\ n # tailBlock
  BY <1>1, <1>2, ProducersNext
<1>6. n \in 1..Len(block) /\ GoodBlock(n) /\ tailBlock \in 1..Len(block) /\ frontBlock \in 1..Len(block)
  BY <1>5 DEF MarksTypes, Linked, GoodBlocks
<1>7. Filled(n) = 0
  BY <1>2, <1>5 DEF Whole, Contents
<1>8. /\ producer.element \in Element /\ lengthAtEnqueue >= Len(queue)
      /\ tailBlock = frontBlock \/ Filled(tailBlock) >= Least
      /\ block[n].localFront = block[n].front /\ block[n].data[block[n].tail] = producer.element
  BY <1>1, <1>2 DEF Producing
<1>9. Ahead(Size(n), block[n].localFront, block[n].tail) < Size(n) - 1
  <2>1. Size(n) \in Nat /\ Size(n) > 1
    BY <1>6 DEF GoodBlock
  <2>2. Ahead(Size(n), block[n].localFront, block[n].tail) = 0
    BY <1>7, <1>8 DEF Filled
  <2> QED BY <2>1, <2>2
<1>10. block[n].front = block[n].tail
  BY <1>6, <1>7, BlockIndices
<1>11. /\ block' \in Seq(Blocks) /\ Len(block') = Len(block) /\ GoodBlocks'
       /\ Filled(n)' = Filled(n) + 1
       /\ \A b \in 1..Len(block) :
            /\ block'[b].front = block[b].front /\ block'[b].data = block[b].data /\ block'[b].next = block[b].next
            /\ block'[b].localTail = block[b].localTail /\ block'[b].localFront = block[b].localFront
            /\ Size(b)' = Size(b) /\ (b # n => Filled(b)' = Filled(b) /\ block'[b] = block[b])
  <2>1. UNCHANGED <<maxSize, MAX_BLOCK_SIZE>>
    BY <1>4
  <2> QED BY <1>3, <1>4, <1>5, <1>9, <2>1, TailStored
<1>12. Linked' = Linked
  BY <1>2, <1>11, LinkedKept
<1>13. MarksTypes'
  BY <1>2, <1>4, <1>11, <1>12, LeastKept DEF MarksTypes
<1>14. FullWhenBegun(place)'
  BY <1>2 DEF FullWhenBegun
<1>15. frontBlock' = frontBlock /\ tailBlock' = tailBlock /\ queue' = queue /\ Least' = Least /\ consumer' = consumer
       /\ emptyAtCall' = emptyAtCall /\ lengthAtEnqueue' = lengthAtEnqueue
  BY <1>4, LeastKept
<1>16. Producing'
  <2>1. Filled(tailBlock)' = Filled(tailBlock) /\ block'[tailBlock].next = block[tailBlock].next
    BY <1>5, <1>6, <1>11, <1>15
  <2>2. Filled(n)' = 1 /\ block'[n].data[block'[n].front] = producer.element
    BY <1>6, <1>7, <1>8, <1>10, <1>11
  <2> QED BY <1>2, <1>5, <1>8, <1>15, <2>1, <2>2 DEF Producing
<1>17. Consuming'
  <2>1. Filled(frontBlock)' = Filled(frontBlock) /\ block'[frontBlock] = block[frontBlock]
    BY <1>5, <1>6, <1>11, <1>15
  <2>2. CASE consumer.at = "advance"
    <3>1. consumer.next \in 1..Len(block)
      BY <2>2, ConsumersNext DEF Linked
    <3>2. block'[consumer.next].front = block[consumer.next].front /\ block'[consumer.next].localTail = block[consumer.next].localTail
      BY <1>11, <3>1
    <3> QED BY <1>15, <2>1, <2>2, <3>2 DEF Consuming
  <2>3. CASE consumer.at # "advance"
    BY <1>15, <2>1, <2>3 DEF Consuming
  <2> QED BY <2>2, <2>3
<1>18. Ring(place, last)'
  BY <1>4, <1>11, <1>12, RingGoesOn DEF Whole
<1>19. Contents(place, before)'
  <2>1. tailBlock \in InUse(place) /\ frontBlock \in InUse(place) /\ InUse(place) \subseteq Linked
    BY UsedBlocks DEF Whole
  <2>2. InUse(place)' = InUse(place)
    BY <1>12, <1>15 DEF InUse
  <2>3. \A b \in Linked : b # n => b \in 1..Len(block) /\ block'[b] = block[b] /\ Filled(b)' = Filled(b)
                                     /\ Size(b)' = Size(b)
    BY <1>11 DEF Linked
  <2>4. \A b \in InUse(place) : block'[b] = block[b] /\ Filled(b)' = Filled(b) /\ Size(b)' = Size(b)
    BY <1>5, <2>1, <2>3
  <2>5. Filled(tailBlock)' = Filled(tailBlock)
    BY <1>15, <2>1, <2>4
  <2>6. /\ before[frontBlock]' = 0 /\ \A b \in InUse(place)' : before[b] \in Nat
        /\ before[tailBlock]' + Filled(tailBlock)' = Len(queue)'
    BY <1>15, <2>2, <2>5 DEF Whole, Contents
  <2>7. \A b \in InUse(place)' : b # tailBlock' => before[block'[b].next] = before[b] + Filled(b)'
    BY <1>15, <2>2, <2>4 DEF Whole, Contents
  <2>8. \A b \in InUse(place)' : b # frontBlock' => Filled(b)' > 0
    BY <1>15, <2>2, <2>4 DEF Whole, Contents
  <2>9. \A b, d \in InUse(place)' : place[b] < place[d] =>
         before[d] >= before[b] + Filled(b)' + (place[d] - place[b] - 1) * Least'
    BY <1>15, <2>2, <2>4 DEF Whole, Contents
  <2>10. \A b \in InUse(place)', j \in Nat :
         j < Filled(b)' /\ ~(consumer'.at = "front" /\ b = frontBlock' /\ j = 0) =>
           block'[b].data[SlotAhead(Size(b)', block'[b].front, j)] = queue'[before[b] + j + 1]
    BY <1>15, <2>2, <2>4 DEF Whole, Contents
  <2>11. \A b \in Linked' \ InUse(place)' : ~(producer'.at = "tailBlock" /\ b = producer'.next) => Filled(b)' = 0
    <3> SUFFICES ASSUME NEW b \in Linked, b \notin InUse(place), b # n PROVE Filled(b)' = 0
      BY <1>2, <1>12, <2>2
    <3> QED BY <1>2, <2>3 DEF Whole, Contents
  <2> QED BY <2>6, <2>7, <2>8, <2>9, <2>10, <2>11 DEF Contents
<1> QED BY <1>11, <1>13, <1>14, <1>16, <1>17, <1>18, <1>19 DEF Whole

LEMMA NextInUse ==
  ASSUME MarksTypes, NEW place, NEW last, Ring(place, last), NEW b \in InUse(place), b # tailBlock,
         NEW n, n = block[b].next
  PROVE  n \in InUse(place) /\ n # frontBlock /\ place[n] = place[b] + 1 /\ b # last
<1>1. b \in Linked /\ place[b] \in Int /\ place[tailBlock] \in Int /\ place[b] <= place[tailBlock] /\ place[b] # place[tailBlock]
      /\ place[tailBlock] <= place[last] /\ place[frontBlock] <= place[b] /\ place[frontBlock] \in Int
  BY DEF InUse, Ring, MarksTypes
<1>2. b # last
  BY <1>1
<1>3. n \in Linked /\ place[n] = place[b] + 1
  BY <1>1, <1>2 DEF Ring
<1> QED BY <1>1, <1>2, <1>3 DEF InUse

\* The element leaves the queue when the consumer stores front.
LEMMA StoresFront ==
  ASSUME MarksTypes, GoodBlocks, Producing, Consuming, NEW place, NEW before, NEW last,
         Whole(place, before, last), StoreFront
  PROVE  (MarksTypes /\ GoodBlocks /\ Producing /\ Consuming /\ \E after : Whole(place, after, last))'
<1> USE DEF StoreFront, ConsumerStep, Return
<1>1. PICK f : f = frontBlock
  OBVIOUS
<1>2. PICK u : u = After(f, block[f].front)
  OBVIOUS
<1>3. /\ consumer.at = "front" /\ consumer' = NoCall /\ emptyAtCall' = FALSE /\ queue' = Tail(queue)
      /\ UNCHANGED <<maxSize, MAX_BLOCK_SIZE, frontBlock, tailBlock, largestBlockSize, enqueued, producer,
                     lengthAtEnqueue>>
      /\ block' = [block EXCEPT ![f].front = u]
  BY <1>1, <1>2
<1> HIDE DEF StoreFront, ConsumerStep, Return
<1>4. /\ consumer'.at = "idle" /\ consumer'.call = "none"
      /\ consumer' \in [at : ConsumerAt, call : {"none", "peek", "try_dequeue"}, element : Nat, next : Nat]
  BY <1>3 DEF NoCall, Gone, ConsumerAt
<1>5. f \in Linked /\ f \in 1..Len(block) /\ block[f].front # block[f].localTail
  BY <1>1, <1>3 DEF MarksTypes, Linked, Consuming
<1>6. /\ block' \in Seq(Blocks) /\ Len(block') = Len(block) /\ GoodBlocks'
      /\ Filled(f)' = Filled(f) - 1 /\ Filled(f) > 0
      /\ \A j \in Nat : j < Filled(f) - 1 =>
           SlotAhead(Size(f), u, j) = SlotAhead(Size(f), block[f].front, j + 1)
      /\ \A b \in 1..Len(block) :
           /\ block'[b].tail = block[b].tail /\ block'[b].data = block[b].data /\ block'[b].next = block[b].next
           /\ block'[b].localTail = block[b].localTail /\ block'[b].localFront = block[b].localFront
           /\ Size(b)' = Size(b) /\ (b # f => Filled(b)' = Filled(b) /\ block'[b] = block[b])
      /\ block'[f].front = u
  <2>1. UNCHANGED <<maxSize, MAX_BLOCK_SIZE>>
    BY <1>3
  <2>2. f \in Linked /\ block[f].front # block[f].localTail /\ block' = [block EXCEPT ![f].front = u]
    BY <1>3, <1>5
  <2> QED BY <1>2, <2>1, <2>2, FrontStored, ZenonT(60)
<1>7. Linked' = Linked
  BY <1>3, <1>6, LinkedKept
<1>8. queue \in Seq(Nat) /\ queue' \in Seq(Nat) /\ Len(queue) > 0 /\ Len(queue) \in Nat /\ Len(queue') = Len(queue) - 1
      /\ \A k \in 1..(Len(queue) - 1) : queue'[k] = queue[k + 1]
  <2>1. queue \in Seq(Nat) /\ queue # <<>> /\ Len(queue) > 0
    BY <1>3, ElementIsThere DEF MarksTypes
  <2> QED BY <1>3, <2>1
<1>9. MarksTypes'
  BY <1>3, <1>4, <1>6, <1>7, <1>8, LeastKept DEF MarksTypes
<1>10. Consuming'
  BY <1>4 DEF Consuming
<1>11. FullWhenBegun(place)'
  BY <1>3, FullKept DEF Whole
<1>12. frontBlock' = frontBlock /\ tailBlock' = tailBlock /\ Least' = Least /\ producer' = producer
       /\ lengthAtEnqueue' = lengthAtEnqueue /\ maxSize' = maxSize
  BY <1>3, LeastKept
<1>13. Producing'
  <2>1. tailBlock \in 1..Len(block) /\ lengthAtEnqueue \in Nat
    BY DEF MarksTypes, Linked
  <2>2. /\ block'[tailBlock].tail = block[tailBlock].tail /\ block'[tailBlock].data = block[tailBlock].data
        /\ block'[tailBlock].next = block[tailBlock].next /\ block'[tailBlock].localFront = block[tailBlock].localFront
        /\ Size(tailBlock)' = Size(tailBlock)
        /\ tailBlock # frontBlock => Filled(tailBlock)' = Filled(tailBlock)
    BY <1>1, <1>6, <1>12, <2>1 DEF Filled, Size
  <2>3. lengthAtEnqueue >= Len(queue) => lengthAtEnqueue' >= Len(queue')
    BY <1>8, <1>12, <2>1
  <2>4. CASE producer.at \in {"nextFront", "constructNext", "nextTail", "tailBlock", "link"}
    <3>1. PICK n : n = producer.next
      OBVIOUS
    <3>2. n \in 1..Len(block) /\ n # f
      BY <1>5, <2>4, <3>1, <1>1, ProducersNext DEF Linked
    <3>3. block'[n] = block[n] /\ Filled(n)' = Filled(n)
      BY <1>6, <3>2
    <3>4. Filled(producer.next)' = Filled(producer.next) /\ block'[producer.next] = block[producer.next]
      <4>1. Filled(producer.next)' = Filled(n)'
        BY <1>12, <3>1 DEF Filled, Size
      <4> QED BY <3>1, <3>3, <4>1
    <3>5. block'[producer'.next] = block[producer.next]
      BY <1>12, <3>4
    <3> QED BY <1>6, <1>12, <2>2, <2>3, <2>4, <3>4, <3>5 DEF Producing
  <2>5. CASE producer.at \notin {"nextFront", "constructNext", "nextTail", "tailBlock", "link"}
    BY <1>12, <2>2, <2>3, <2>5 DEF Producing
  <2> QED BY <2>4, <2>5
<1>14. Ring(place, last)'
  BY <1>3, <1>6, <1>7, RingGoesOn DEF Whole
<1> DEFINE after == [b \in Linked |-> IF b = f THEN 0 ELSE before[b] - 1]
<1>15. \A b \in Linked : after[b] = IF b = f THEN 0 ELSE before[b] - 1
  OBVIOUS
<1>16. PICK aft : aft = after
  OBVIOUS
<1> HIDE DEF after
<1>17. Contents(place, aft)'
  <2>1. /\ f \in InUse(place) /\ tailBlock \in InUse(place) /\ InUse(place) \subseteq Linked
        /\ \A b \in InUse(place) : b # f => before[b] \in Nat /\ before[b] >= Filled(f) /\ place[f] < place[b]
        /\ \A b \in InUse(place) : before[b] \in Nat /\ before[b] + Filled(b) <= Len(queue)
    BY <1>1, UsedBlocks DEF Whole
  <2>2. before[f] = 0 /\ before[tailBlock] + Filled(tailBlock) = Len(queue)
    BY <1>1 DEF Whole, Contents
  <2>3. InUse(place)' = InUse(place) /\ f = frontBlock' /\ f = frontBlock
    BY <1>1, <1>7, <1>12 DEF InUse
  <2>4. \A b \in Linked : /\ b \in 1..Len(block) /\ block'[b].next = block[b].next
                          /\ block'[b].data = block[b].data /\ Size(b)' = Size(b)
                          /\ (b # f => Filled(b)' = Filled(b) /\ block'[b].front = block[b].front)
    BY <1>6 DEF Linked
  <2>5. \A b \in Linked : Filled(b) \in Nat /\ place[b] \in Int
    BY LinkedBlocks DEF GoodBlock, Whole, Ring
  <2>6. \A b \in InUse(place) : aft[b] \in Nat /\ aft[b] = (IF b = f THEN 0 ELSE before[b] - 1)
    <3> SUFFICES ASSUME NEW b \in InUse(place) PROVE aft[b] \in Nat /\ aft[b] = (IF b = f THEN 0 ELSE before[b] - 1)
      OBVIOUS
    <3>1. aft[b] = (IF b = f THEN 0 ELSE before[b] - 1)
      BY <1>15, <1>16, <2>1
    <3>2. b # f => before[b] \in Nat /\ before[b] >= Filled(f) /\ Filled(f) \in Nat
      BY <2>1, <2>5
    <3> QED BY <1>6, <3>1, <3>2
  <2>7. aft[tailBlock'] + Filled(tailBlock)' = Len(queue')
    <3>1. CASE tailBlock = f
      <4>1. Filled(tailBlock)' = Filled(f)'
        BY <1>12, <3>1 DEF Filled, Size
      <4>2. aft[tailBlock'] = 0 /\ before[tailBlock] = 0
        BY <1>12, <2>1, <2>2, <2>6, <3>1
      <4>3. Filled(f) \in Nat /\ Filled(f) = Filled(tailBlock)
        BY <1>5, <2>5, <3>1 DEF Filled
      <4> QED BY <1>6, <1>8, <2>2, <4>1, <4>2, <4>3
    <3>2. CASE tailBlock # f
      <4>1. Filled(tailBlock)' = Filled(tailBlock)
        BY <1>12, <2>1, <2>4, <3>2
      <4>2. aft[tailBlock'] = before[tailBlock] - 1 /\ before[tailBlock] \in Nat /\ Filled(tailBlock) \in Nat
        BY <1>12, <2>1, <2>5, <2>6, <3>2
      <4>3. PICK k, v : k = before[tailBlock] /\ v = Filled(tailBlock)
        OBVIOUS
      <4>4. k \in Nat /\ v \in Nat /\ k + v = Len(queue)
        BY <2>2, <4>2, <4>3
      <4>5. aft[tailBlock'] + Filled(tailBlock)' = (k - 1) + v
        BY <4>1, <4>2, <4>3
      <4> QED BY <1>8, <4>4, <4>5
    <3> QED BY <3>1, <3>2
  <2>8. \A b \in InUse(place) : b # tailBlock => aft[block'[b].next] = aft[b] + Filled(b)'
    <3> SUFFICES ASSUME NEW b \in InUse(place), b # tailBlock PROVE aft[block'[b].next] = aft[b] + Filled(b)'
      OBVIOUS
    <3>1. PICK n : n = block[b].next
      OBVIOUS
    <3>2. n \in InUse(place) /\ n # f /\ block'[b].next = n
      BY <1>1, <2>1, <2>4, <3>1, NextInUse DEF Whole
    <3>3. before[n] = before[b] + Filled(b)
      BY <3>1 DEF Whole, Contents
    <3>4. aft[n] = before[n] - 1 /\ before[b] \in Nat /\ Filled(b) \in Nat
      BY <2>1, <2>5, <2>6, <3>2
    <3>5. CASE b = f
      BY <1>6, <2>2, <2>6, <3>2, <3>3, <3>4, <3>5
    <3>6. CASE b # f
      BY <2>1, <2>4, <2>6, <3>2, <3>3, <3>4, <3>6
    <3> QED BY <3>5, <3>6
  <2>9. \A b \in InUse(place) : b # f => Filled(b)' > 0
    BY <2>1, <2>3, <2>4 DEF Whole, Contents
  <2>10. \A b, d \in InUse(place) : place[b] < place[d] =>
          aft[d] >= aft[b] + Filled(b)' + (place[d] - place[b] - 1) * Least
    <3> SUFFICES ASSUME NEW b \in InUse(place), NEW d \in InUse(place), place[b] < place[d]
                 PROVE  aft[d] >= aft[b] + Filled(b)' + (place[d] - place[b] - 1) * Least
      OBVIOUS
    <3>1. before[d] >= before[b] + Filled(b) + (place[d] - place[b] - 1) * Least
      BY DEF Whole, Contents
    <3>2. PICK k : k = (place[d] - place[b] - 1) * Least
      OBVIOUS
    <3>3. k \in Int
      <4>1. place[d] - place[b] - 1 \in Int /\ Least \in Nat
        BY <2>1, <2>5, LeastIsPositive
      <4> QED BY <3>2, <4>1
    <3>4. d # f
      <4>1. place[b] \in Int /\ place[f] \in Int /\ (b # f => place[f] < place[b])
        BY <2>1, <2>5
      <4> QED BY <4>1
    <3>5. aft[d] = before[d] - 1 /\ before[d] \in Nat /\ before[b] \in Nat /\ Filled(b) \in Nat
      BY <2>1, <2>5, <2>6, <3>4
    <3>6. CASE b = f
      BY <1>6, <2>2, <2>6, <3>1, <3>2, <3>3, <3>5, <3>6
    <3>7. CASE b # f
      <4>1. Filled(b)' = Filled(b) /\ aft[b] = before[b] - 1
        BY <2>1, <2>4, <2>6, <3>7
      <4> QED BY <3>1, <3>2, <3>3, <3>5, <4>1
    <3> QED BY <3>6, <3>7
  <2>11. \A b \in InUse(place), j \in Nat : j < Filled(b)' =>
           block'[b].data[SlotAhead(Size(b)', block'[b].front, j)] = queue'[aft[b] + j + 1]
    <3> SUFFICES ASSUME NEW b \in InUse(place), NEW j \in Nat, j < Filled(b)'
                 PROVE  block'[b].data[SlotAhead(Size(b)', block'[b].front, j)] = queue'[aft[b] + j + 1]
      OBVIOUS
    <3>1. before[b] \in Nat /\ before[b] + Filled(b) <= Len(queue) /\ Filled(b) \in Nat /\ b \in Linked
      BY <2>1, <2>5
    <3>2. CASE b = f
      <4>1. j + 1 < Filled(b) /\ j < Filled(f) - 1
        BY <1>6, <3>1, <3>2
      <4>2. SlotAhead(Size(b)', block'[b].front, j) = SlotAhead(Size(b), block[b].front, j + 1)
        BY <1>6, <2>4, <3>1, <3>2, <4>1
      <4>3. PICK i : i = j + 1
        OBVIOUS
      <4>4. block[b].data[SlotAhead(Size(b), block[b].front, i)] = queue[before[b] + i + 1]
        <5>1. i \in Nat /\ i < Filled(b) /\ i # 0
          BY <4>1, <4>3
        <5> QED BY <5>1 DEF Whole, Contents
      <4>5. before[b] = 0 /\ aft[b] = 0
        BY <2>2, <2>6, <3>2
      <4>6. queue'[j + 1] = queue[j + 2]
        <5>1. PICK k : k = j + 1
          OBVIOUS
        <5>2. k \in 1..(Len(queue) - 1)
          BY <1>8, <3>1, <4>1, <4>5, <5>1
        <5>3. queue'[k] = queue[k + 1]
          BY <1>8, <5>2
        <5> QED BY <5>1, <5>3
      <4> QED BY <2>4, <3>1, <4>2, <4>3, <4>4, <4>5, <4>6
    <3>3. CASE b # f
      <4>1. Filled(b)' = Filled(b) /\ block'[b].front = block[b].front
        BY <2>4, <3>1, <3>3
      <4>2. block[b].data[SlotAhead(Size(b), block[b].front, j)] = queue[before[b] + j + 1]
        BY <2>3, <3>3, <4>1 DEF Whole, Contents
      <4>3. aft[b] = before[b] - 1 /\ before[b] >= 1
        <5>1. before[b] >= Filled(f) /\ Filled(f) \in Nat
          BY <1>5, <2>1, <2>5, <3>3
        <5> QED BY <1>6, <2>6, <3>1, <3>3, <5>1
      <4>4. PICK k : k = before[b] + j
        OBVIOUS
      <4>5. k \in 1..(Len(queue) - 1)
        <5>1. PICK p, v : p = before[b] /\ v = Filled(b)
          OBVIOUS
        <5>2. p \in Nat /\ v \in Nat /\ p + v <= Len(queue) /\ j < v /\ p >= 1 /\ k = p + j
          BY <3>1, <4>1, <4>3, <4>4, <5>1
        <5> QED BY <1>8, <5>2
      <4>6. queue'[k] = queue[k + 1]
        BY <1>8, <4>5
      <4>7. aft[b] + j + 1 = k /\ before[b] + j + 1 = k + 1
        BY <3>1, <4>3, <4>4
      <4> QED BY <2>4, <3>1, <4>1, <4>2, <4>6, <4>7
    <3> QED BY <3>2, <3>3
  <2>12. \A b \in Linked \ InUse(place) : ~(producer.at = "tailBlock" /\ b = producer.next) => Filled(b)' = 0
    BY <2>1, <2>4 DEF Whole, Contents
  <2>13. aft[frontBlock'] = 0
    BY <2>1, <2>3, <2>6
  <2> QED BY <1>4, <1>7, <1>12, <2>3, <2>6, <2>7, <2>8, <2>9, <2>10, <2>11, <2>12, <2>13 DEF Contents
<1> QED BY <1>6, <1>9, <1>10, <1>11, <1>13, <1>14, <1>17 DEF Whole
-----------------------------------------------------------------------------
(* Steps that move on to another block.                                    *)

\* The element is in the queue when the producer makes its block tailBlock.
LEMMA StoresTailBlock ==
  ASSUME MarksTypes, GoodBlocks, Producing, Consuming, NEW place, NEW before, NEW last,
         Whole(place, before, last), StoreTailBlock
  PROVE  (MarksTypes /\ GoodBlocks /\ Producing /\ Consuming /\ \E after : Whole(place, after, last))'
<1> USE DEF StoreTailBlock, ProducerStep
<1> DEFINE e == producer.element
<1>1. PICK n, x : n = producer.next /\ x = tailBlock
  OBVIOUS
<1>2. /\ producer.at = "tailBlock" /\ producer' = NoEnqueue /\ queue' = Append(queue, e) /\ lengthAtEnqueue' = 0
      /\ UNCHANGED <<maxSize, MAX_BLOCK_SIZE, block, frontBlock, largestBlockSize, enqueued, consumer, emptyAtCall>>
      /\ tailBlock' = n
  BY <1>1
<1> HIDE DEF StoreTailBlock, ProducerStep
<1>3. producer'.at = "idle" /\ producer' \in [at : ProducerAt, element : Nat, next : Nat]
  BY <1>2 DEF ProducerAt, NoEnqueue, Gone
<1>4. /\ n \in Linked /\ n \notin InUse(place) /\ n = block[x].next /\ n # frontBlock /\ n # x /\ x # last
      /\ place[n] = place[x] + 1
  BY <1>1, <1>2, ProducersNext
<1>5. /\ x = frontBlock \/ Filled(x) >= Least
      /\ Filled(n) = 1 /\ block[n].data[block[n].front] = e /\ e \in Element
  <2>1. Filled(producer.next) = 1 /\ (tailBlock = frontBlock \/ Filled(tailBlock) >= Least)
        /\ block[producer.next].data[block[producer.next].front] = e /\ e \in Element
    BY <1>2 DEF Producing
  <2> QED BY <1>1, <2>1 DEF Filled
<1>6. /\ block' = block /\ frontBlock' = frontBlock /\ consumer' = consumer /\ emptyAtCall' = emptyAtCall /\ Least' = Least
      /\ \A b : Size(b)' = Size(b) /\ Filled(b)' = Filled(b)
  BY <1>2, LeastKept DEF Size, Filled
<1>7. Linked' = Linked
  BY <1>2, <1>3 DEF Linked
<1>8. queue \in Seq(Nat) /\ e \in Nat /\ queue' \in Seq(Nat) /\ Len(queue') = Len(queue) + 1 /\ queue'[Len(queue) + 1] = e
      /\ (\A k \in 1..Len(queue) : queue'[k] = queue[k]) /\ Len(queue) \in Nat
  <2>1. queue \in Seq(Nat) /\ e \in Nat
    BY DEF MarksTypes
  <2> QED BY <1>2, <2>1
<1>9. MarksTypes'
  BY <1>2, <1>3, <1>4, <1>7, <1>8, LeastKept DEF MarksTypes
<1>10. GoodBlocks'
  BY <1>2, BlocksKept
<1>11. Producing' /\ FullWhenBegun(place)'
  BY <1>3 DEF Producing, FullWhenBegun
<1>12. Consuming'
  <2>1. queue' # <<>>
    BY <1>8
  <2>2. consumer.at = "front" => queue[1] = queue'[1]
    <3>1. consumer.at = "front" => Len(queue) > 0
      BY ElementIsThere
    <3> QED BY <1>8, <3>1
  <2>3. frontBlock' # tailBlock' /\ Filled(frontBlock)' = Filled(frontBlock)
    BY <1>2, <1>4, <1>6 DEF Filled, Size
  <2> QED BY <1>6, <2>1, <2>2, <2>3 DEF Consuming
<1>13. Ring(place, last)'
  <2>1. InitialBlockCount(maxSize)' = InitialBlockCount(maxSize)
    BY <1>2, LeastKept
  <2> QED BY <1>6, <1>7, <2>1 DEF Whole, Ring
<1> DEFINE after == [b \in Linked |-> IF b = n THEN Len(queue) ELSE before[b]]
<1>14. \A b \in Linked : after[b] = IF b = n THEN Len(queue) ELSE before[b]
  OBVIOUS
<1>15. PICK aft : aft = after
  OBVIOUS
<1> HIDE DEF after
<1>16. Contents(place, aft)'
  <2>1. /\ frontBlock \in InUse(place) /\ x \in InUse(place) /\ InUse(place) \subseteq Linked
        /\ \A b \in InUse(place) : before[b] \in Nat /\ before[b] + Filled(b) <= Len(queue)
    BY <1>1, UsedBlocks DEF Whole
  <2>2. before[frontBlock] = 0 /\ before[x] + Filled(x) = Len(queue)
    <3>1. before[frontBlock] = 0 /\ before[tailBlock] + Filled(tailBlock) = Len(queue)
      BY DEF Whole, Contents
    <3> QED BY <1>1, <3>1 DEF Filled
  <2>3. \A b \in Linked : Filled(b) \in Nat /\ place[b] \in Int
    BY LinkedBlocks DEF GoodBlock, Whole, Ring
  <2>4. InUse(place)' = InUse(place) \cup {n}
    <3>1. \A b \in Linked : place[b] <= place[n] <=> (place[b] <= place[x] \/ b = n)
      <4> SUFFICES ASSUME NEW b \in Linked PROVE place[b] <= place[n] <=> (place[b] <= place[x] \/ b = n)
        OBVIOUS
      <4>1. place[b] \in Int /\ place[x] \in Int /\ (place[b] = place[n] => b = n)
        BY <1>4, <2>1, <2>3 DEF Whole, Ring
      <4> QED BY <1>4, <4>1
    <3>2. InUse(place) = {b \in Linked : place[b] <= place[x]} /\ InUse(place)' = {b \in Linked : place[b] <= place[n]}
      BY <1>1, <1>2, <1>7 DEF InUse
    <3> QED BY <1>4, <3>1, <3>2
  <2>5. aft[n] = Len(queue) /\ (\A b \in InUse(place) : aft[b] = before[b])
    BY <1>4, <1>14, <1>15, <2>1
  <2>6. aft[frontBlock] = 0 /\ (\A b \in InUse(place)' : aft[b] \in Nat)
    BY <1>8, <2>1, <2>2, <2>4, <2>5
  <2>7. aft[tailBlock'] + Filled(tailBlock)' = Len(queue')
    <3>1. Filled(tailBlock)' = Filled(n)
      BY <1>2, <1>6 DEF Filled, Size
    <3> QED BY <1>2, <1>5, <1>8, <2>5, <3>1
  <2>8. \A b \in InUse(place)' : b # n => aft[block[b].next] = aft[b] + Filled(b)
    <3> SUFFICES ASSUME NEW b \in InUse(place) PROVE aft[block[b].next] = aft[b] + Filled(b)
      BY <2>4
    <3>1. CASE b = x
      <4>1. aft[block[b].next] = Len(queue) /\ aft[b] = before[b]
        BY <1>4, <2>5, <3>1
      <4>2. before[b] + Filled(b) = Len(queue)
        BY <2>2, <3>1 DEF Filled
      <4> QED BY <4>1, <4>2
    <3>2. CASE b # x
      <4>1. block[b].next \in InUse(place)
        BY <1>1, <3>2, NextInUse DEF Whole
      <4>2. before[block[b].next] = before[b] + Filled(b)
        BY <1>1, <3>2 DEF Whole, Contents
      <4> QED BY <2>5, <4>1, <4>2
    <3> QED BY <3>1, <3>2
  <2>9. \A b \in InUse(place)' : b # frontBlock => Filled(b) > 0
    BY <1>5, <2>4 DEF Whole, Contents
  <2>10. \A b, d \in InUse(place)' : place[b] < place[d] =>
          aft[d] >= aft[b] + Filled(b) + (place[d] - place[b] - 1) * Least
    <3> SUFFICES ASSUME NEW b \in InUse(place)', NEW d \in InUse(place)', place[b] < place[d]
                 PROVE  aft[d] >= aft[b] + Filled(b) + (place[d] - place[b] - 1) * Least
      OBVIOUS
    <3>1. b \in InUse(place)
      <4>1. place[d] <= place[n] /\ place[d] \in Int /\ place[n] \in Int
        <5>1. d \in Linked /\ (d = n \/ place[d] <= place[x]) /\ place[x] \in Int
          BY <1>1, <1>4, <2>1, <2>3, <2>4 DEF InUse
        <5> QED BY <1>4, <2>3, <5>1
      <4> QED BY <2>4, <4>1
    <3>2. CASE d # n
      <4>1. d \in InUse(place)
        BY <2>4, <3>2
      <4>2. before[d] >= before[b] + Filled(b) + (place[d] - place[b] - 1) * Least
        BY <3>1, <4>1 DEF Whole, Contents
      <4> QED BY <2>5, <3>1, <4>1, <4>2
    <3>3. CASE d = n /\ b = x
      <4>1. place[d] - place[b] - 1 = 0 /\ 0 * Least = 0
        BY <1>4, <2>1, <2>3, <3>3, LeastIsPositive
      <4>2. aft[d] = Len(queue) /\ aft[b] = before[x] /\ Filled(b) = Filled(x)
        BY <2>5, <3>1, <3>3 DEF Filled
      <4> QED BY <1>8, <2>2, <4>1, <4>2
    <3>4. CASE d = n /\ b # x
      <4>1. place[b] < place[x] /\ x # frontBlock
        <5>1. place[b] <= place[x] /\ place[b] # place[x] /\ place[frontBlock] <= place[b]
          BY <1>1, <2>1, <3>1, <3>4 DEF InUse, Whole, Ring
        <5> QED BY <2>1, <2>3, <3>1, <5>1
      <4>2. before[x] >= before[b] + Filled(b) + (place[x] - place[b] - 1) * Least
        BY <2>1, <3>1, <4>1 DEF Whole, Contents
      <4>3. PICK i, k, y, u, v, w : i = place[x] - place[b] /\ k = Least /\ y = before[b] /\ u = Filled(b)
                                    /\ v = before[x] /\ w = Filled(x)
        OBVIOUS
      <4>4. i \in Int /\ k \in Nat /\ y \in Nat /\ u \in Nat /\ v \in Nat /\ w \in Nat /\ w >= k
        BY <1>5, <2>1, <2>3, <3>1, <4>1, <4>3, LeastIsPositive
      <4>5. v >= y + u + (i - 1) * k
        BY <4>2, <4>3
      <4>6. v + w >= y + u + i * k
        BY <4>4, <4>5
      <4>7. place[d] - place[b] - 1 = i /\ aft[d] = v + w /\ aft[b] = y
        <5>1. place[n] = place[x] + 1 /\ place[x] \in Int /\ place[b] \in Int /\ d = n
          BY <1>4, <2>1, <2>3, <3>1, <3>4
        <5>2. place[d] - place[b] - 1 = i
          BY <4>3, <5>1
        <5>3. aft[d] = Len(queue) /\ aft[b] = y
          BY <2>5, <3>1, <4>3, <5>1
        <5> QED BY <2>2, <4>3, <5>2, <5>3
      <4> QED BY <4>3, <4>6, <4>7
    <3> QED BY <3>2, <3>3, <3>4
  <2>11. \A b \in InUse(place)', j \in Nat : j < Filled(b) /\ ~(consumer.at = "front" /\ b = frontBlock /\ j = 0) =>
           block[b].data[SlotAhead(Size(b), block[b].front, j)] = queue'[aft[b] + j + 1]
    <3> SUFFICES ASSUME NEW b \in InUse(place)', NEW j \in Nat, j < Filled(b),
                        ~(consumer.at = "front" /\ b = frontBlock /\ j = 0)
                 PROVE  block[b].data[SlotAhead(Size(b), block[b].front, j)] = queue'[aft[b] + j + 1]
      OBVIOUS
    <3>1. CASE b = n
      <4>1. j = 0
        BY <1>5, <3>1
      <4>2. GoodBlock(n)
        BY <1>4, LinkedBlocks
      <4>3. SlotAhead(Size(n), block[n].front, 0) = block[n].front
        <5>1. PICK c, f : c = Size(n) /\ f = block[n].front
          OBVIOUS
        <5>2. c \in Nat /\ f \in 0..(c - 1)
          BY <4>2, <5>1 DEF GoodBlock
        <5> QED BY <5>1, <5>2 DEF SlotAhead
      <4> QED BY <1>5, <1>8, <2>5, <3>1, <4>1, <4>3
    <3>2. CASE b # n
      <4>1. b \in InUse(place) /\ b \in Linked
        BY <2>1, <2>4, <3>2
      <4>2. block[b].data[SlotAhead(Size(b), block[b].front, j)] = queue[before[b] + j + 1]
        BY <4>1 DEF Whole, Contents
      <4>3. PICK k : k = before[b] + j + 1
        OBVIOUS
      <4>4. k \in 1..Len(queue)
        <5>1. before[b] \in Nat /\ before[b] + Filled(b) <= Len(queue) /\ Filled(b) \in Nat
          BY <2>1, <2>3, <4>1
        <5>2. PICK p, v : p = before[b] /\ v = Filled(b)
          OBVIOUS
        <5>3. p \in Nat /\ v \in Nat /\ p + v <= Len(queue) /\ j < v /\ k = p + j + 1
          BY <4>3, <5>1, <5>2
        <5> QED BY <1>8, <5>3
      <4> QED BY <1>8, <2>5, <4>1, <4>2, <4>3, <4>4
    <3> QED BY <3>1, <3>2
  <2>12. \A b \in Linked \ InUse(place)' : Filled(b) = 0
    BY <1>1, <2>4 DEF Whole, Contents
  <2> QED BY <1>2, <1>6, <1>7, <2>6, <2>7, <2>8, <2>9, <2>10, <2>11, <2>12 DEF Contents
<1> QED BY <1>9, <1>10, <1>11, <1>12, <1>13, <1>16 DEF Whole

\* The consumer is done with a block: it becomes the last of the ring.
LEMMA StoresFrontBlock ==
  ASSUME MarksTypes, GoodBlocks, Producing, Consuming, NEW place, NEW before, NEW last,
         Whole(place, before, last), StoreFrontBlock
  PROVE  /\ (MarksTypes /\ GoodBlocks /\ Producing /\ Consuming)'
         /\ \E after, end : Whole(after, before, end)'
         /\ consumer'.call = consumer.call
<1> USE DEF StoreFrontBlock, ConsumerStep, Consume
<1>1. PICK n, f : n = consumer.next /\ f = frontBlock
  OBVIOUS
<1>2. /\ consumer.at = "advance" /\ consumer'.at = "take" /\ consumer'.call = consumer.call
      /\ UNCHANGED <<maxSize, MAX_BLOCK_SIZE, block, tailBlock, largestBlockSize, enqueued, producer, queue,
                     emptyAtCall, lengthAtEnqueue>>
      /\ frontBlock' = n
      /\ consumer' \in [at : ConsumerAt, call : {"none", "peek", "try_dequeue"}, element : Nat, next : Nat]
  BY <1>1 DEF MarksTypes, ConsumerAt
<1> HIDE DEF StoreFrontBlock, ConsumerStep, Consume
<1>3. /\ n \in InUse(place) /\ n \in Linked /\ n # f /\ n = block[f].next /\ Filled(n) > 0 /\ before[n] = 0
      /\ Filled(f) = 0 /\ f # tailBlock /\ place[n] = place[f] + 1 /\ f # last
  <2>1. /\ n \in InUse(place) /\ n \in Linked /\ n # frontBlock /\ n = block[frontBlock].next
        /\ Filled(n) > 0 /\ before[n] = 0 /\ Filled(frontBlock) = 0 /\ frontBlock # tailBlock
        /\ place[n] = place[frontBlock] + 1 /\ frontBlock # last
    BY <1>1, <1>2, ConsumersNext
  <2> QED BY <1>1, <2>1 DEF Filled
<1>4. /\ block' = block /\ tailBlock' = tailBlock /\ Least' = Least /\ producer' = producer /\ queue' = queue
      /\ lengthAtEnqueue' = lengthAtEnqueue /\ maxSize' = maxSize /\ emptyAtCall' = emptyAtCall
      /\ \A b : Size(b)' = Size(b) /\ Filled(b)' = Filled(b)
  BY <1>2, LeastKept DEF Size, Filled
<1>5. Linked' = Linked
  BY <1>4 DEF Linked
<1>6. MarksTypes'
  BY <1>2, <1>3, <1>5, LeastKept DEF MarksTypes
<1>7. GoodBlocks'
  BY <1>2, BlocksKept
<1>8. /\ f \in InUse(place) /\ tailBlock \in InUse(place) /\ InUse(place) \subseteq Linked
      /\ \A b \in InUse(place) : before[b] \in Nat
  BY <1>1, UsedBlocks DEF Whole
<1>9. Filled(tailBlock)' = Filled(tailBlock) /\ Filled(producer.next)' = Filled(producer.next)
      /\ Size(tailBlock)' = Size(tailBlock)
  BY <1>4 DEF Filled, Size
<1>10. Producing'
  <2>1. producer.at \in {"nextFront", "constructNext", "nextTail", "tailBlock"} => producer.next # frontBlock'
    BY <1>2, <1>3, ProducersNext
  <2>2. producer.at \in {"frontBlock", "nextFront", "constructNext", "nextTail", "make", "link", "tailBlock"} =>
          Filled(tailBlock) >= Least
    BY <1>1, <1>3 DEF Producing
  <2> QED BY <1>4, <1>9, <2>1, <2>2 DEF Producing
<1>11. Consuming'
  <2>1. /\ consumer.call # "none" /\ (queue = <<>> => emptyAtCall) /\ consumer.call = "try_dequeue"
        /\ block[n].front # block[n].localTail
    BY <1>1, <1>2 DEF Consuming
  <2> QED BY <1>2, <1>4, <2>1 DEF Consuming
<1>12. \A b \in Linked : place[b] \in Int /\ place[f] <= place[b] /\ place[b] <= place[last] /\ (place[b] = place[f] => b = f)
  BY <1>1, <1>8 DEF Whole, Ring
<1> DEFINE after == [b \in Linked |-> IF b = f THEN place[last] + 1 ELSE place[b]]
<1>13. \A b \in Linked : after[b] = IF b = f THEN place[last] + 1 ELSE place[b]
  OBVIOUS
<1>14. PICK aft : aft = after
  OBVIOUS
<1> HIDE DEF after
<1>15. last \in Linked /\ f \in Linked /\ n \in Linked /\ tailBlock \in Linked
  BY <1>3, <1>8 DEF Whole, Ring
<1>16. /\ aft[f] = place[last] + 1 /\ (\A b \in Linked : b # f => aft[b] = place[b]) /\ aft[n] = place[f] + 1
       /\ \A b \in Linked : aft[b] \in Int /\ aft[n] <= aft[b] /\ aft[b] <= aft[f]
  <2>1. aft[f] = place[last] + 1 /\ \A b \in Linked : b # f => aft[b] = place[b]
    BY <1>13, <1>14, <1>15
  <2>2. aft[n] = place[f] + 1 /\ place[f] \in Int /\ place[last] \in Int /\ place[f] < place[last]
    <3>1. place[f] \in Int /\ place[last] \in Int /\ place[f] <= place[last] /\ place[f] # place[last]
      BY <1>3, <1>12, <1>15
    <3> QED BY <1>3, <1>15, <2>1, <3>1
  <2>3. ASSUME NEW b \in Linked PROVE aft[b] \in Int /\ aft[n] <= aft[b] /\ aft[b] <= aft[f]
    <3>1. CASE b = f
      BY <2>1, <2>2, <3>1
    <3>2. CASE b # f
      <4>1. place[b] \in Int /\ place[f] <= place[b] /\ place[b] <= place[last] /\ place[b] # place[f] /\ aft[b] = place[b]
        BY <1>12, <2>1, <3>2
      <4> QED BY <2>1, <2>2, <4>1
    <3> QED BY <3>1, <3>2
  <2> QED BY <2>1, <2>2, <2>3
<1>17. Ring(aft, f)'
  <2>1. \A b \in Linked : b # f => block[b].next \in Linked /\ aft[block[b].next] = aft[b] + 1
    <3> SUFFICES ASSUME NEW b \in Linked, b # f PROVE block[b].next \in Linked /\ aft[block[b].next] = aft[b] + 1
      OBVIOUS
    <3>1. CASE b = last
      <4>1. block[b].next = f
        BY <1>1, <3>1 DEF Whole, Ring
      <4> QED BY <1>15, <1>16, <3>1, <4>1
    <3>2. CASE b # last
      <4>1. PICK m : m = block[b].next
        OBVIOUS
      <4>2. m \in Linked /\ place[m] = place[b] + 1
        BY <3>2, <4>1 DEF Whole, Ring
      <4>3. place[b] \in Int /\ place[f] \in Int /\ place[f] <= place[b]
        BY <1>12, <1>15
      <4>4. m # f
        BY <4>2, <4>3
      <4> QED BY <1>16, <4>1, <4>2, <4>4
    <3> QED BY <3>1, <3>2
  <2>2. \A b, d \in Linked : aft[b] = aft[d] => b = d
    <3> SUFFICES ASSUME NEW b \in Linked, NEW d \in Linked, aft[b] = aft[d] PROVE b = d
      OBVIOUS
    <3>1. \A c \in Linked : c # f => aft[c] # aft[f]
      <4> SUFFICES ASSUME NEW c \in Linked, c # f PROVE aft[c] # aft[f]
        OBVIOUS
      <4>1. aft[c] = place[c] /\ place[c] \in Int /\ place[c] <= place[last] /\ place[last] \in Int
        BY <1>12, <1>15, <1>16
      <4> QED BY <1>16, <4>1
    <3>2. CASE b = f \/ d = f
      BY <3>1, <3>2
    <3>3. CASE b # f /\ d # f
      <4>1. place[b] = place[d]
        BY <1>16, <3>3
      <4> QED BY <4>1 DEF Whole, Ring
    <3> QED BY <3>2, <3>3
  <2>3. aft[f] - aft[n] >= InitialBlockCount(maxSize) - 1
    <3>1. place[last] - place[f] >= InitialBlockCount(maxSize) - 1 /\ place[last] \in Int /\ place[f] \in Int
      BY <1>1, <1>12, <1>15 DEF Whole, Ring
    <3>2. aft[f] - aft[n] = place[last] - place[f]
      BY <1>16, <3>1
    <3> QED BY <3>1, <3>2
  <2>4. InitialBlockCount(maxSize)' = InitialBlockCount(maxSize)
    BY <1>2, LeastKept
  <2> QED BY <1>2, <1>3, <1>4, <1>5, <1>15, <1>16, <2>1, <2>2, <2>3, <2>4 DEF Ring
<1>18. InUse(aft)' = InUse(place) \ {f}
  <2>1. InUse(aft)' = {b \in Linked : aft[b] <= aft[tailBlock]}
    BY <1>4, <1>5 DEF InUse
  <2>2. aft[tailBlock] = place[tailBlock] /\ place[tailBlock] \in Int /\ place[tailBlock] <= place[last] /\ place[last] \in Int
    BY <1>3, <1>12, <1>15, <1>16
  <2>3. ~(aft[f] <= aft[tailBlock])
    BY <1>16, <2>2
  <2> QED BY <1>16, <2>1, <2>2, <2>3 DEF InUse
<1>19. Contents(aft, before)'
  <2>1. \A b \in InUse(place) \ {f} : b \in InUse(place) /\ b \in Linked /\ b # f /\ b # frontBlock /\ aft[b] = place[b]
    BY <1>1, <1>8, <1>16
  <2>2. before[tailBlock] + Filled(tailBlock) = Len(queue)
    BY DEF Whole, Contents
  <2>3. \A b \in InUse(place) \ {f} : b # tailBlock => before[block[b].next] = before[b] + Filled(b)
    BY <2>1 DEF Whole, Contents
  <2>4. \A b \in InUse(place) \ {f} : Filled(b) > 0
    BY <2>1 DEF Whole, Contents
  <2>5. \A b, d \in InUse(place) \ {f} : aft[b] < aft[d] =>
          before[d] >= before[b] + Filled(b) + (aft[d] - aft[b] - 1) * Least
    BY <2>1 DEF Whole, Contents
  <2>6. \A b \in InUse(place) \ {f}, j \in Nat : j < Filled(b) =>
          block[b].data[SlotAhead(Size(b), block[b].front, j)] = queue[before[b] + j + 1]
    BY <1>2, <2>1 DEF Whole, Contents
  <2>7. \A b \in Linked \ (InUse(place) \ {f}) : ~(producer.at = "tailBlock" /\ b = producer.next) => Filled(b) = 0
    BY <1>3 DEF Whole, Contents
  <2>8. before[frontBlock'] = 0 /\ (\A b \in InUse(aft)' : before[b] \in Nat)
        /\ before[tailBlock'] + Filled(tailBlock)' = Len(queue')
    BY <1>2, <1>3, <1>4, <1>8, <1>9, <1>18, <2>2
  <2>9. \A b \in InUse(aft)' : b # tailBlock' => before[block'[b].next] = before[b] + Filled(b)'
    BY <1>4, <1>18, <2>3
  <2>10. \A b \in InUse(aft)' : b # frontBlock' => Filled(b)' > 0
    BY <1>4, <1>18, <2>4
  <2>11. \A b, d \in InUse(aft)' : aft[b] < aft[d] =>
           before[d] >= before[b] + Filled(b)' + (aft[d] - aft[b] - 1) * Least'
    BY <1>4, <1>18, <2>5
  <2>12. \A b \in InUse(aft)', j \in Nat :
          j < Filled(b)' /\ ~(consumer'.at = "front" /\ b = frontBlock' /\ j = 0) =>
            block'[b].data[SlotAhead(Size(b)', block'[b].front, j)] = queue'[before[b] + j + 1]
    BY <1>4, <1>18, <2>6
  <2>13. \A b \in Linked' \ InUse(aft)' : ~(producer'.at = "tailBlock" /\ b = producer'.next) => Filled(b)' = 0
    BY <1>4, <1>5, <1>18, <2>7
  <2> QED BY <2>8, <2>9, <2>10, <2>11, <2>12, <2>13 DEF Contents
<1>20. FullWhenBegun(aft)'
  <2> SUFFICES ASSUME producer.at = "frontBlock"
               PROVE  lengthAtEnqueue >= Least /\ lengthAtEnqueue >= (aft[tailBlock] - aft[n]) * Least
    BY <1>2, <1>4 DEF FullWhenBegun
  <2>1. lengthAtEnqueue >= Least /\ lengthAtEnqueue >= (place[tailBlock] - place[f]) * Least
    BY <1>1 DEF Whole, FullWhenBegun
  <2>2. PICK i, k : i = place[tailBlock] - place[f] /\ k = Least
    OBVIOUS
  <2>3. aft[tailBlock] - aft[n] = i - 1 /\ i \in Int /\ k \in Nat /\ lengthAtEnqueue \in Nat
    <3>1. place[tailBlock] \in Int /\ place[f] \in Int /\ aft[tailBlock] = place[tailBlock] /\ aft[n] = place[f] + 1
      BY <1>3, <1>12, <1>15, <1>16
    <3>2. aft[tailBlock] - aft[n] = i - 1 /\ i \in Int
      BY <2>2, <3>1
    <3> QED BY <2>2, <3>2, LeastIsPositive DEF MarksTypes
  <2>4. i * k >= (i - 1) * k /\ i * k \in Int /\ (i - 1) * k \in Int
    BY <2>3
  <2> QED BY <2>1, <2>2, <2>3, <2>4
<1> QED BY <1>2, <1>6, <1>7, <1>10, <1>11, <1>17, <1>19, <1>20 DEF Whole

LEMMA BlockCount ==
  ASSUME <<maxSize, MAX_BLOCK_SIZE>> \in Constructions
  PROVE  InitialBlockCount(maxSize) \in Nat /\ InitialBlockCount(maxSize) > 0
<1>1. maxSize \in Nat /\ maxSize > 0 /\ MAX_BLOCK_SIZE \in Nat /\ MAX_BLOCK_SIZE > 1
  BY Constructed
<1>2. PICK m, s, q : m = MAX_BLOCK_SIZE - 1 /\ s = maxSize + 2 * MAX_BLOCK_SIZE - 3 /\ q = s \div m
  OBVIOUS
<1>3. m \in Nat /\ m > 0 /\ s \in Nat /\ s >= m
  BY <1>1, <1>2
<1>4. q \in Nat /\ q > 0
  <2>1. q \in Nat /\ s < (q + 1) * m
    BY <1>2, <1>3
  <2>2. q # 0
    BY <1>3, <2>1
  <2> QED BY <2>1, <2>2
<1> QED BY <1>2, <1>4 DEF InitialBlockCount

LEMMA SizeAfter == \A b : Size(b)' = Cardinality(DOMAIN block'[b].data)
  BY DEF Size, Cardinality, Cardinality

\* The producer makes a block with one element, which only it knows.
LEMMA MakesBlock ==
  ASSUME MarksTypes, GoodBlocks, Producing, Consuming, NEW place, NEW before, NEW last,
         Whole(place, before, last), MakeBlock
  PROVE  (MarksTypes /\ GoodBlocks /\ Producing /\ Consuming /\ Whole(place, before, last))'
<1> USE DEF MakeBlock, ProducerStep
<1>1. PICK c, m, e : c = largestBlockSize' /\ m = Len(block) + 1 /\ e = producer.element
  <2>1. PICK y : y = largestBlockSize'
    OBVIOUS
  <2> QED BY <2>1
<1> DEFINE new == [NewBlock(c) EXCEPT !.data[0] = e, !.tail = 1, !.localTail = 1,
                                            !.next = block[tailBlock].next]
<1>2. /\ producer.at = "make" /\ block' = Append(block, new)
      /\ producer' = [producer EXCEPT !.at = "link", !.next = m]
      /\ c = (IF largestBlockSize >= MAX_BLOCK_SIZE THEN largestBlockSize ELSE 2 * largestBlockSize)
      /\ lengthAtEnqueue' = (IF producer' = NoEnqueue THEN 0 ELSE lengthAtEnqueue)
      /\ UNCHANGED <<maxSize, MAX_BLOCK_SIZE, frontBlock, tailBlock, enqueued, consumer, queue, emptyAtCall>>
  BY <1>1
<1> HIDE DEF MakeBlock, ProducerStep, new
<1>3. block \in Seq(Blocks) /\ Len(block) \in Nat /\ m \in Nat /\ e \in Nat /\ tailBlock \in 1..Len(block)
      /\ block[tailBlock].next \in Nat
  <2>1. block \in Seq(Blocks) /\ tailBlock \in 1..Len(block) /\ producer.element \in Nat
    BY DEF MarksTypes, Linked
  <2>2. block[tailBlock] \in Blocks
    BY <2>1
  <2>3. block[tailBlock].next \in Nat
    BY <2>2 DEF Blocks
  <2> QED BY <1>1, <2>1, <2>3
<1>4. /\ producer'.at = "link" /\ producer'.next = m /\ producer'.element = e
      /\ producer' \in [at : ProducerAt, element : Nat, next : Nat] /\ lengthAtEnqueue' = lengthAtEnqueue
  <2>1. producer'.at = "link" /\ producer'.next = m /\ producer'.element = e
        /\ producer' \in [at : ProducerAt, element : Nat, next : Nat]
    BY <1>1, <1>2, <1>3 DEF MarksTypes, ProducerAt
  <2> QED BY <1>2, <2>1 DEF NoEnqueue
<1>5. c \in Nat /\ c > 1 /\ c > Least
  <2>1. largestBlockSize \in Nat /\ largestBlockSize > Least /\ Least \in Nat /\ Least > 0
    BY LeastIsPositive DEF MarksTypes
  <2> QED BY <1>2, <2>1
<1>6. /\ new.front = 0 /\ new.tail = 1 /\ new.localTail = 1 /\ new.localFront = 0 /\ new.next = block[tailBlock].next
      /\ new.data \in [0..(c - 1) -> Nat] /\ new.data[0] = e /\ new \in Blocks
  <2>1. PICK base, v : /\ base = NewBlock(c) /\ v = [slot \in 0..(c - 1) |-> 0]
                       /\ base = [front |-> 0, localTail |-> 0, tail |-> 0, localFront |-> 0, next |-> 1, data |-> v]
    BY DEF NewBlock, Gone
  <2>2. v \in [0..(c - 1) -> Nat] /\ 0 \in 0..(c - 1)
    BY <1>5, <2>1
  <2>3. PICK w : w = [v EXCEPT ![0] = e]
    OBVIOUS
  <2>4. w \in [0..(c - 1) -> Nat] /\ w[0] = e
    BY <1>3, <2>2, <2>3
  <2>5. new = [front |-> 0, localTail |-> 1, tail |-> 1, localFront |-> 0, next |-> block[tailBlock].next, data |-> w]
    <3>1. new = [base EXCEPT !.data[0] = e, !.tail = 1, !.localTail = 1, !.next = block[tailBlock].next]
      BY <2>1 DEF new
    <3>2. base.data = v
      BY <2>1
    <3>3. new = [base EXCEPT !.data = w, !.tail = 1, !.localTail = 1, !.next = block[tailBlock].next]
      BY <2>3, <3>1, <3>2
    <3>4. base = [front |-> 0, localTail |-> 0, tail |-> 0, localFront |-> 0, next |-> 1, data |-> v]
      BY <2>1
    <3> QED BY <3>3, <3>4
  <2>6. w \in BlockData
    BY <1>5, <2>4 DEF BlockData
  <2> QED BY <1>3, <2>4, <2>5, <2>6 DEF Blocks
<1>7. /\ block' \in Seq(Blocks) /\ Len(block') = m /\ block'[m] = new /\ m \notin 1..Len(block)
      /\ 1..Len(block') = 1..Len(block) \cup {m} /\ (\A b \in 1..Len(block) : block'[b] = block[b])
  <2>1. block' \in Seq(Blocks) /\ Len(block') = Len(block) + 1 /\ block'[Len(block) + 1] = new
        /\ \A b \in 1..Len(block) : block'[b] = block[b]
    BY <1>2, <1>3, <1>6
  <2> QED BY <1>1, <1>3, <2>1
<1>8. Linked = 1..Len(block) /\ Linked' = Linked
  <2>1. Linked = 1..Len(block)
    BY <1>2 DEF Linked
  <2>2. Linked' = {b \in 1..Len(block') : b # m}
    BY <1>4 DEF Linked
  <2> QED BY <1>7, <2>1, <2>2
<1>9. \A b \in 1..Len(block) : Size(b)' = Size(b) /\ Filled(b)' = Filled(b)
  BY <1>7, SameSize DEF Filled
<1>10. Size(m)' = c /\ Filled(m)' = 1 /\ Ahead(c, 0, 1) = 1
  <2>1. DOMAIN block'[m].data = 0..(c - 1)
    BY <1>6, <1>7
  <2>2. Cardinality(0..(c - 1)) = c
    BY <1>5, FS_Interval
  <2>3. Size(m)' = c
    BY <2>1, <2>2, SizeAfter
  <2>4. Filled(m)' = Ahead(c, 0, 1)
    BY <1>6, <1>7, <2>3 DEF Filled
  <2> QED BY <2>3, <2>4 DEF Ahead
<1>11. frontBlock' = frontBlock /\ tailBlock' = tailBlock /\ queue' = queue /\ Least' = Least /\ consumer' = consumer
       /\ emptyAtCall' = emptyAtCall
  BY <1>2, LeastKept
<1>12. MarksTypes'
  BY <1>1, <1>2, <1>4, <1>5, <1>7, <1>8, <1>11 DEF MarksTypes
<1>13. GoodBlocks'
  <2> SUFFICES ASSUME NEW b \in 1..Len(block') PROVE GoodBlock(b)'
    BY DEF GoodBlocks
  <2>1. CASE b # m
    <3>1. b \in 1..Len(block)
      BY <1>7, <2>1
    <3>2. GoodBlock(b)
      BY <3>1 DEF GoodBlocks
    <3> QED BY <1>7, <1>9, <1>11, <3>1, <3>2 DEF GoodBlock
  <2>2. CASE b = m
    <3>1. {new.front, new.tail, new.localFront, new.localTail} \subseteq 0..(c - 1)
      BY <1>5, <1>6
    <3> QED BY <1>5, <1>6, <1>7, <1>10, <1>11, <2>2, <3>1 DEF GoodBlock
  <2> QED BY <2>1, <2>2
<1>14. frontBlock \in 1..Len(block)
  BY <1>8 DEF MarksTypes
<1>15. FullWhenBegun(place)'
  BY <1>4 DEF FullWhenBegun
<1>16. Filled(tailBlock)' = Filled(tailBlock) /\ Filled(frontBlock)' = Filled(frontBlock)
  <2>1. Size(tailBlock)' = Size(tailBlock) /\ Size(frontBlock)' = Size(frontBlock)
    BY <1>3, <1>7, <1>11, <1>14 DEF Size
  <2> QED BY <1>3, <1>7, <1>11, <1>14, <2>1 DEF Filled
<1>17. Filled(producer.next)' = 1
  <2>1. Size(producer.next)' = Size(m)'
    BY <1>4 DEF Size
  <2>2. Filled(producer.next)' = Filled(m)'
    BY <1>4, <2>1 DEF Filled
  <2> QED BY <1>10, <2>2
<1>18. Producing'
  <2>1. /\ producer.element \in Element /\ lengthAtEnqueue >= Len(queue)
        /\ tailBlock = frontBlock \/ Filled(tailBlock) >= Least
    BY <1>2 DEF Producing
  <2> QED BY <1>1, <1>3, <1>4, <1>6, <1>7, <1>11, <1>16, <1>17, <2>1 DEF Producing
<1>19. Consuming'
  <2>1. CASE consumer.at = "advance"
    <3>1. consumer.next \in 1..Len(block)
      BY <2>1, ConsumersNext DEF Linked
    <3>2. block'[consumer.next] = block[consumer.next]
      BY <1>7, <3>1
    <3> QED BY <1>7, <1>11, <1>14, <1>16, <2>1, <3>2 DEF Consuming
  <2>2. CASE consumer.at # "advance"
    BY <1>7, <1>11, <1>14, <1>16, <2>2 DEF Consuming
  <2> QED BY <2>1, <2>2
<1>20. Ring(place, last)'
  <2>1. \A b \in Linked : block'[b].next = block[b].next
    BY <1>7, <1>8
  <2>2. InitialBlockCount(maxSize)' = InitialBlockCount(maxSize)
    BY <1>2, LeastKept
  <2> QED BY <1>8, <1>11, <2>1, <2>2 DEF Whole, Ring
<1>21. Contents(place, before)'
  <2>1. \A b \in Linked : block'[b] = block[b] /\ Size(b)' = Size(b) /\ Filled(b)' = Filled(b)
    BY <1>7, <1>8, <1>9
  <2>2. InUse(place)' = InUse(place) /\ InUse(place) \subseteq Linked
    BY <1>8, <1>11 DEF InUse
  <2>3. before[frontBlock'] = 0 /\ (\A b \in InUse(place)' : before[b] \in Nat)
        /\ before[tailBlock'] + Filled(tailBlock)' = Len(queue')
    BY <1>11, <1>16, <2>2 DEF Whole, Contents
  <2>4. \A b \in InUse(place)' : b # tailBlock' => before[block'[b].next] = before[b] + Filled(b)'
    BY <1>11, <2>1, <2>2 DEF Whole, Contents
  <2>5. \A b \in InUse(place)' : b # frontBlock' => Filled(b)' > 0
    BY <1>11, <2>1, <2>2 DEF Whole, Contents
  <2>6. \A b, d \in InUse(place)' : place[b] < place[d] =>
          before[d] >= before[b] + Filled(b)' + (place[d] - place[b] - 1) * Least'
    BY <1>11, <2>1, <2>2 DEF Whole, Contents
  <2>7. \A b \in InUse(place)', j \in Nat :
          j < Filled(b)' /\ ~(consumer'.at = "front" /\ b = frontBlock' /\ j = 0) =>
            block'[b].data[SlotAhead(Size(b)', block'[b].front, j)] = queue'[before[b] + j + 1]
    BY <1>11, <2>1, <2>2 DEF Whole, Contents
  <2>8. \A b \in Linked' \ InUse(place)' : ~(producer'.at = "tailBlock" /\ b = producer'.next) => Filled(b)' = 0
    BY <1>2, <1>8, <2>1, <2>2 DEF Whole, Contents
  <2> QED BY <2>3, <2>4, <2>5, <2>6, <2>7, <2>8 DEF Contents
<1> QED BY <1>12, <1>13, <1>15, <1>18, <1>19, <1>20, <1>21 DEF Whole

\* The new block comes into the ring after tailBlock.
LEMMA LinksBlock ==
  ASSUME MarksTypes, GoodBlocks, Producing, Consuming, NEW place, NEW before, NEW last,
         Whole(place, before, last), LinkBlock
  PROVE  /\ (MarksTypes /\ GoodBlocks /\ Producing /\ Consuming)'
         /\ \E after, end : Whole(after, before, end)'
<1> USE DEF LinkBlock, ProducerStep, Produce
<1>1. PICK m, x, n : m = producer.next /\ x = tailBlock /\ n = block[tailBlock].next
  OBVIOUS
<1>2. /\ producer.at = "link" /\ producer'.at = "tailBlock" /\ producer'.next = m /\ producer'.element = producer.element
      /\ producer' \in [at : ProducerAt, element : Nat, next : Nat] /\ producer' # NoEnqueue
  BY <1>1 DEF MarksTypes, ProducerAt, NoEnqueue
<1>3. /\ UNCHANGED <<maxSize, MAX_BLOCK_SIZE, frontBlock, tailBlock, largestBlockSize, enqueued, consumer, queue,
                     emptyAtCall, lengthAtEnqueue>>
      /\ block' = [block EXCEPT ![x].next = m]
  BY <1>1, <1>2
<1> HIDE DEF LinkBlock, ProducerStep, Produce
<1>4. m \in 1..Len(block) /\ m \notin Linked /\ m = Len(block) /\ block[m].next = n
  <2>1. producer.next \in 1..Len(block) /\ producer.next \notin Linked
    BY <1>2, ProducersNext
  <2> QED BY <1>1, <1>2, <2>1 DEF Producing
<1>5. x \in Linked /\ x \in 1..Len(block) /\ x # m /\ block \in Seq(Blocks) /\ frontBlock \in Linked /\ m # frontBlock
  BY <1>1, <1>4 DEF MarksTypes, Linked
<1> DEFINE r == [block[x] EXCEPT !.next = m]
<1>6. r \in Blocks /\ r.front = block[x].front /\ r.tail = block[x].tail /\ r.data = block[x].data /\ r.next = m
      /\ r.localFront = block[x].localFront /\ r.localTail = block[x].localTail
  <2>1. block[x] \in Blocks
    BY <1>5
  <2> QED BY <1>4, <2>1 DEF Blocks
<1>7. block' = [block EXCEPT ![x] = r]
  BY <1>3
<1> HIDE DEF r
<1>8. /\ block' \in Seq(Blocks) /\ Len(block') = Len(block) /\ block'[x] = r
      /\ \A b \in 1..Len(block) : b # x => block'[b] = block[b]
  BY <1>5, <1>6, <1>7, BlockWrite
<1>9. \A b \in 1..Len(block) :
        /\ block'[b].front = block[b].front /\ block'[b].tail = block[b].tail /\ block'[b].data = block[b].data
        /\ block'[b].localFront = block[b].localFront /\ block'[b].localTail = block[b].localTail
        /\ block'[b].next = (IF b = x THEN m ELSE block[b].next)
  BY <1>6, <1>8
<1>10. \A b \in 1..Len(block) : Size(b)' = Size(b) /\ Filled(b)' = Filled(b)
  BY <1>9, SameSize DEF Filled
<1>11. Linked = 1..Len(block) \ {m} /\ Linked' = 1..Len(block)
  BY <1>1, <1>2, <1>8 DEF Linked
<1>12. frontBlock' = frontBlock /\ tailBlock' = tailBlock /\ queue' = queue /\ Least' = Least /\ consumer' = consumer
       /\ emptyAtCall' = emptyAtCall /\ lengthAtEnqueue' = lengthAtEnqueue
  BY <1>3, LeastKept
<1>13. MarksTypes'
  BY <1>1, <1>2, <1>3, <1>5, <1>8, <1>11, <1>12 DEF MarksTypes
<1>14. GoodBlocks'
  <2> SUFFICES ASSUME NEW b \in 1..Len(block) PROVE GoodBlock(b)'
    BY <1>8 DEF GoodBlocks
  <2>1. GoodBlock(b)
    BY DEF GoodBlocks
  <2> QED BY <1>9, <1>10, <1>12, <2>1 DEF GoodBlock
<1>15. FullWhenBegun(place)'
  BY <1>2 DEF FullWhenBegun
<1>16. Filled(tailBlock)' = Filled(tailBlock) /\ Filled(frontBlock)' = Filled(frontBlock)
       /\ Filled(producer.next)' = Filled(producer.next)
  <2>1. tailBlock \in 1..Len(block) /\ frontBlock \in 1..Len(block) /\ producer.next \in 1..Len(block)
        /\ producer'.next = producer.next
    BY <1>1, <1>2, <1>4, <1>5, <1>11
  <2>2. Size(tailBlock)' = Size(tailBlock) /\ Size(frontBlock)' = Size(frontBlock)
        /\ Size(producer.next)' = Size(producer.next)
    BY <1>9, <1>12, <2>1 DEF Size
  <2> QED BY <1>9, <1>12, <2>1, <2>2 DEF Filled
<1>17. Producing'
  <2>1. /\ producer.element \in Element /\ lengthAtEnqueue >= Len(queue)
        /\ tailBlock = frontBlock \/ Filled(tailBlock) >= Least
        /\ Filled(producer.next) = 1 /\ block[m].data[block[m].front] = producer.element
    BY <1>1, <1>2 DEF Producing
  <2>2. block'[m].data[block'[m].front] = producer.element /\ block'[x].next = m
    BY <1>4, <1>5, <1>9, <2>1
  <2>3. block'[tailBlock'].next = m /\ m # frontBlock'
    BY <1>1, <1>5, <1>12, <2>2
  <2> QED BY <1>2, <1>12, <1>16, <2>1, <2>2, <2>3 DEF Producing
<1>18. Consuming'
  <2>1. frontBlock \in 1..Len(block)
    BY <1>5, <1>11
  <2>2. /\ block'[frontBlock].front = block[frontBlock].front /\ block'[frontBlock].localTail = block[frontBlock].localTail
        /\ frontBlock # tailBlock => block'[frontBlock].next = block[frontBlock].next
    BY <1>1, <1>9, <2>1
  <2>3. CASE consumer.at = "advance"
    <3>1. consumer.next \in 1..Len(block)
      BY <2>3, ConsumersNext DEF Linked
    <3>2. block'[consumer.next].front = block[consumer.next].front /\ block'[consumer.next].localTail = block[consumer.next].localTail
      BY <1>9, <3>1
    <3> QED BY <1>12, <1>16, <2>2, <2>3, <3>2 DEF Consuming
  <2>4. CASE consumer.at # "advance"
    BY <1>12, <1>16, <2>2, <2>4 DEF Consuming
  <2> QED BY <2>3, <2>4
<1>19. /\ last \in Linked /\ block[last].next = frontBlock
       /\ \A b \in Linked : place[b] \in Int /\ place[frontBlock] <= place[b] /\ place[b] <= place[last]
       /\ \A b \in Linked : b # last => block[b].next \in Linked /\ place[block[b].next] = place[b] + 1
       /\ \A b, d \in Linked : place[b] = place[d] => b = d
       /\ place[last] - place[frontBlock] >= InitialBlockCount(maxSize) - 1
  BY DEF Whole, Ring
<1> DEFINE after == [b \in 1..Len(block) |->
                       IF b = m THEN place[x] + 1 ELSE IF place[b] <= place[x] THEN place[b] ELSE place[b] + 1]
<1>20. \A b \in 1..Len(block) :
         after[b] = IF b = m THEN place[x] + 1 ELSE IF place[b] <= place[x] THEN place[b] ELSE place[b] + 1
  OBVIOUS
<1>21. PICK aft, end : aft = after /\ end = (IF last = x THEN m ELSE last)
  OBVIOUS
<1> HIDE DEF after
<1>22. place[x] \in Int /\ place[last] \in Int /\ place[x] <= place[last] /\ (last # x => place[x] < place[last])
       /\ (last # x => place[n] = place[x] + 1 /\ n \in Linked) /\ place[frontBlock] <= place[x] /\ place[frontBlock] \in Int
  <2>1. place[x] \in Int /\ place[last] \in Int /\ place[x] <= place[last] /\ (last # x => place[x] # place[last])
        /\ (last # x => place[n] = place[x] + 1 /\ n \in Linked) /\ place[frontBlock] <= place[x] /\ place[frontBlock] \in Int
    BY <1>1, <1>5, <1>19
  <2> QED BY <2>1
<1>23. /\ aft[m] = place[x] + 1 /\ aft[x] = place[x] /\ aft[frontBlock] = place[frontBlock]
       /\ \A b \in Linked : aft[b] = (IF place[b] <= place[x] THEN place[b] ELSE place[b] + 1) /\ b # m /\ b \in 1..Len(block)
  <2>1. aft[m] = place[x] + 1
    BY <1>4, <1>20, <1>21
  <2>2. \A b \in Linked : aft[b] = (IF place[b] <= place[x] THEN place[b] ELSE place[b] + 1) /\ b # m /\ b \in 1..Len(block)
    BY <1>11, <1>20, <1>21
  <2> QED BY <1>5, <1>22, <2>1, <2>2
<1>24. /\ end \in Linked' /\ aft[end] = place[last] + 1 /\ block'[end].next = frontBlock
  <2>1. CASE last = x
    BY <1>1, <1>4, <1>5, <1>9, <1>11, <1>19, <1>21, <1>23, <2>1
  <2>2. CASE last # x
    BY <1>9, <1>11, <1>19, <1>21, <1>22, <1>23, <2>2
  <2> QED BY <2>1, <2>2
<1>25. \A b \in Linked' : aft[b] \in Int /\ aft[frontBlock] <= aft[b] /\ aft[b] <= aft[end]
  <2> SUFFICES ASSUME NEW b \in Linked' PROVE aft[b] \in Int /\ aft[frontBlock] <= aft[b] /\ aft[b] <= aft[end]
    OBVIOUS
  <2>1. CASE b = m
    BY <1>22, <1>23, <1>24, <2>1
  <2>2. CASE b # m
    <3>1. b \in Linked
      BY <1>11, <2>2
    <3>2. place[b] \in Int /\ place[frontBlock] <= place[b] /\ place[b] <= place[last]
      BY <1>19, <3>1
    <3> QED BY <1>22, <1>23, <1>24, <3>1, <3>2
  <2> QED BY <2>1, <2>2
<1>26. \A b \in Linked' : b # end => block'[b].next \in Linked' /\ aft[block'[b].next] = aft[b] + 1
  <2> SUFFICES ASSUME NEW b \in Linked', b # end PROVE block'[b].next \in Linked' /\ aft[block'[b].next] = aft[b] + 1
    OBVIOUS
  <2>1. CASE b = m
    <3>1. last # x /\ block'[b].next = n
      BY <1>4, <1>5, <1>9, <1>21, <2>1
    <3>2. n \in Linked /\ place[n] = place[x] + 1 /\ aft[n] = place[n] + 1
      BY <1>22, <1>23, <3>1
    <3> QED BY <1>11, <1>22, <1>23, <2>1, <3>1, <3>2
  <2>2. CASE b = x
    BY <1>4, <1>5, <1>9, <1>11, <1>23, <2>2
  <2>3. CASE b # m /\ b # x
    <3>1. b \in Linked /\ b # last
      BY <1>11, <1>21, <2>3
    <3>2. PICK d : d = block[b].next
      OBVIOUS
    <3>3. d \in Linked /\ place[d] = place[b] + 1 /\ place[b] \in Int /\ place[b] # place[x]
      BY <1>5, <1>19, <2>3, <3>1, <3>2
    <3>4. block'[b].next = d
      BY <1>9, <1>23, <2>3, <3>1, <3>2
    <3>5. aft[d] = aft[b] + 1
      BY <1>22, <1>23, <3>1, <3>3
    <3> QED BY <1>11, <3>3, <3>4, <3>5
  <2> QED BY <2>1, <2>2, <2>3
<1>27. \A b, d \in Linked' : aft[b] = aft[d] => b = d
  <2>1. \A b \in Linked : aft[b] # aft[m]
    <3> SUFFICES ASSUME NEW b \in Linked PROVE aft[b] # aft[m]
      OBVIOUS
    <3>1. place[b] \in Int
      BY <1>19
    <3> QED BY <1>22, <1>23, <3>1
  <2>2. \A b, d \in Linked : aft[b] = aft[d] => b = d
    <3> SUFFICES ASSUME NEW b \in Linked, NEW d \in Linked, aft[b] = aft[d] PROVE b = d
      OBVIOUS
    <3>1. place[b] \in Int /\ place[d] \in Int /\ (place[b] = place[d] => b = d)
      BY <1>19
    <3>2. PICK i, j, k : i = place[b] /\ j = place[d] /\ k = place[x]
      OBVIOUS
    <3>3. aft[b] = (IF i <= k THEN i ELSE i + 1) /\ aft[d] = (IF j <= k THEN j ELSE j + 1) /\ k \in Int
      BY <1>22, <1>23, <3>2
    <3>4. (IF i <= k THEN i ELSE i + 1) = (IF j <= k THEN j ELSE j + 1)
      BY <3>3
    <3>5. i = j
      BY <3>1, <3>2, <3>3, <3>4
    <3> QED BY <3>1, <3>2, <3>5
  <2> QED BY <1>11, <2>1, <2>2
<1>28. Ring(aft, end)'
  <2>1. aft[end] - aft[frontBlock] >= InitialBlockCount(maxSize) - 1
    <3>1. PICK i : i = InitialBlockCount(maxSize) - 1
      OBVIOUS
    <3>2. i \in Int
      BY <3>1, BlockCount DEF MarksTypes
    <3>3. place[last] - place[frontBlock] >= i
      BY <1>19, <3>1
    <3> QED BY <1>22, <1>23, <1>24, <3>1, <3>2, <3>3
  <2>2. InitialBlockCount(maxSize)' = InitialBlockCount(maxSize)
    BY <1>3, LeastKept
  <2> QED BY <1>12, <1>24, <1>25, <1>26, <1>27, <2>1, <2>2 DEF Ring
<1>29. InUse(aft)' = InUse(place) /\ (\A b \in InUse(place) : aft[b] = place[b] /\ b \in Linked)
  <2>1. InUse(aft)' = {b \in Linked' : aft[b] <= aft[x]} /\ InUse(place) = {b \in Linked : place[b] <= place[x]}
    BY <1>1, <1>12 DEF InUse
  <2>2. \A b \in Linked : aft[b] <= aft[x] <=> place[b] <= place[x]
    <3> SUFFICES ASSUME NEW b \in Linked PROVE aft[b] <= aft[x] <=> place[b] <= place[x]
      OBVIOUS
    <3>1. place[b] \in Int
      BY <1>19
    <3> QED BY <1>22, <1>23, <3>1
  <2>3. ~(aft[m] <= aft[x])
    BY <1>22, <1>23
  <2> QED BY <1>11, <1>23, <2>1, <2>2, <2>3
<1>30. Contents(aft, before)'
  <2>1. \A b \in InUse(place) :
          /\ b \in 1..Len(block) /\ block'[b].front = block[b].front /\ block'[b].data = block[b].data
          /\ Size(b)' = Size(b) /\ Filled(b)' = Filled(b) /\ (b # x => block'[b].next = block[b].next)
    BY <1>9, <1>10, <1>23, <1>29
  <2>2. before[frontBlock'] = 0 /\ (\A b \in InUse(aft)' : before[b] \in Nat)
        /\ before[tailBlock'] + Filled(tailBlock)' = Len(queue')
    BY <1>12, <1>16, <1>29 DEF Whole, Contents
  <2>3. \A b \in InUse(aft)' : b # tailBlock' => before[block'[b].next] = before[b] + Filled(b)'
    BY <1>1, <1>12, <1>29, <2>1 DEF Whole, Contents
  <2>4. \A b \in InUse(aft)' : b # frontBlock' => Filled(b)' > 0
    BY <1>12, <1>29, <2>1 DEF Whole, Contents
  <2>5. \A b, d \in InUse(aft)' : aft[b] < aft[d] =>
          before[d] >= before[b] + Filled(b)' + (aft[d] - aft[b] - 1) * Least'
    BY <1>12, <1>29, <2>1 DEF Whole, Contents
  <2>6. \A b \in InUse(aft)', j \in Nat :
          j < Filled(b)' /\ ~(consumer'.at = "front" /\ b = frontBlock' /\ j = 0) =>
            block'[b].data[SlotAhead(Size(b)', block'[b].front, j)] = queue'[before[b] + j + 1]
    BY <1>12, <1>29, <2>1 DEF Whole, Contents
  <2>7. \A b \in Linked' \ InUse(aft)' : ~(producer'.at = "tailBlock" /\ b = producer'.next) => Filled(b)' = 0
    <3> SUFFICES ASSUME NEW b \in 1..Len(block), b \notin InUse(place), b # m PROVE Filled(b)' = 0
      BY <1>2, <1>11, <1>29
    <3>1. Filled(b) = 0
      BY <1>2, <1>11 DEF Whole, Contents
    <3> QED BY <1>10, <3>1
  <2> QED BY <2>2, <2>3, <2>4, <2>5, <2>6, <2>7 DEF Contents
<1>31. FullWhenBegun(aft)'
  BY <1>2 DEF FullWhenBegun
<1> QED BY <1>13, <1>14, <1>17, <1>18, <1>28, <1>30, <1>31 DEF Whole
-----------------------------------------------------------------------------
(* The invariant holds.                                                    *)

LEMMA MarksBegin == ASSUME MarksInit PROVE MarksInv
<1> USE DEF MarksInit
<1>1. <<maxSize, MAX_BLOCK_SIZE>> \in Constructions
  <2>1. PICK built \in Constructions : maxSize = built[1] /\ MAX_BLOCK_SIZE = built[2]
    OBVIOUS
  <2>2. built \in Nat \X Nat
    BY MarksAssumption
  <2>3. built = <<maxSize, MAX_BLOCK_SIZE>>
    BY <2>1, <2>2
  <2> QED BY <2>1, <2>3
<1>2. PICK n, c : n = InitialBlockCount(maxSize) /\ c = InitialBlockSize(maxSize)
  OBVIOUS
<1>3. n \in Nat /\ n > 0 /\ c \in Nat /\ c > 1 /\ Least = c - 1
  BY <1>1, <1>2, BlockCount, Constructed DEF Least, InitialBlockSize
<1>4. block = [b \in 1..n |-> [NewBlock(c) EXCEPT !.next = (b % n) + 1]]
  BY <1>2
<1>5. /\ frontBlock = 1 /\ tailBlock = 1 /\ largestBlockSize = c /\ enqueued = 0 /\ producer = NoEnqueue
      /\ consumer = NoCall /\ queue = <<>> /\ lengthAtEnqueue = 0 /\ emptyAtCall = FALSE
  BY <1>2
<1> HIDE DEF MarksInit
<1>6. PICK v : v = [slot \in 0..(c - 1) |-> 0]
  OBVIOUS
<1>7. \A b \in 1..n :
        block[b] = [front |-> 0, localTail |-> 0, tail |-> 0, localFront |-> 0, next |-> (b % n) + 1, data |-> v]
  <2>1. NewBlock(c) = [front |-> 0, localTail |-> 0, tail |-> 0, localFront |-> 0, next |-> 1, data |-> v]
    BY <1>6 DEF NewBlock, Gone
  <2> QED BY <1>4, <2>1
<1>8. \A b \in 1..n : (b % n) + 1 = (IF b = n THEN 1 ELSE b + 1)
  <2> SUFFICES ASSUME NEW b \in 1..n PROVE (b % n) + 1 = (IF b = n THEN 1 ELSE b + 1)
    OBVIOUS
  <2>1. CASE b = n
    BY <1>3, <2>1
  <2>2. CASE b # n
    <3>1. b \in 0..(n - 1)
      BY <1>3, <2>2
    <3>2. b % n = b
      BY <1>3, <3>1
    <3> QED BY <2>2, <3>2
  <2> QED BY <2>1, <2>2
<1>9. v \in [0..(c - 1) -> Nat] /\ v \in BlockData
  <2>1. v \in [0..(c - 1) -> Nat]
    BY <1>3, <1>6
  <2> QED BY <1>3, <2>1 DEF BlockData
<1>10. \A b \in 1..n :
         /\ block[b] \in Blocks /\ block[b].front = 0 /\ block[b].localTail = 0 /\ block[b].tail = 0
         /\ block[b].localFront = 0 /\ block[b].data = v /\ block[b].next = (IF b = n THEN 1 ELSE b + 1)
  <2> SUFFICES ASSUME NEW b \in 1..n
               PROVE  /\ block[b] \in Blocks /\ block[b].front = 0 /\ block[b].localTail = 0 /\ block[b].tail = 0
                      /\ block[b].localFront = 0 /\ block[b].data = v /\ block[b].next = (IF b = n THEN 1 ELSE b + 1)
    OBVIOUS
  <2>1. PICK k : k = (b % n) + 1
    OBVIOUS
  <2>2. k \in Nat /\ k = (IF b = n THEN 1 ELSE b + 1)
    BY <1>3, <1>8, <2>1
  <2>3. block[b] = [front |-> 0, localTail |-> 0, tail |-> 0, localFront |-> 0, next |-> k, data |-> v]
    BY <1>7, <2>1
  <2> QED BY <1>9, <2>2, <2>3 DEF Blocks
<1>11. block \in Seq(Blocks) /\ Len(block) = n
  <2>1. block \in [1..n -> Blocks]
    BY <1>4, <1>10
  <2> QED BY <1>3, <2>1
<1>12. producer.at = "idle" /\ producer \in [at : ProducerAt, element : Nat, next : Nat]
  BY <1>5 DEF NoEnqueue, Gone, ProducerAt
<1>13. consumer.at = "idle" /\ consumer.call = "none"
       /\ consumer \in [at : ConsumerAt, call : {"none", "peek", "try_dequeue"}, element : Nat, next : Nat]
  BY <1>5 DEF NoCall, Gone, ConsumerAt
<1>14. Linked = 1..n /\ 1 \in 1..n /\ n \in 1..n
  BY <1>3, <1>11, <1>12 DEF Linked
<1>15. \A b \in 1..n : Size(b) = c /\ Filled(b) = 0
  <2> SUFFICES ASSUME NEW b \in 1..n PROVE Size(b) = c /\ Filled(b) = 0
    OBVIOUS
  <2>1. DOMAIN block[b].data = 0..(c - 1)
    BY <1>9, <1>10
  <2>2. Size(b) = c
    BY <1>3, <2>1, SizeOf
  <2>3. Filled(b) = Ahead(c, 0, 0)
    BY <1>10, <2>2 DEF Filled
  <2> QED BY <2>2, <2>3 DEF Ahead
<1>16. MarksTypes
  <2>1. enqueued \in 0..MaxEnqueues
    BY <1>5, MarksAssumption
  <2>2. largestBlockSize \in Nat /\ largestBlockSize > Least
    BY <1>3, <1>5
  <2>3. queue \in Seq(Nat) /\ lengthAtEnqueue \in Nat /\ emptyAtCall \in BOOLEAN
    <3>1. emptyAtCall \in BOOLEAN
      BY <1>5, Zenon
    <3>2. queue = <<>> /\ lengthAtEnqueue = 0
      BY <1>5
    <3> QED BY <3>1, <3>2
  <2>4. frontBlock \in Linked /\ tailBlock \in Linked
    BY <1>5, <1>14
  <2> QED BY <1>1, <1>11, <1>12, <1>13, <2>1, <2>2, <2>3, <2>4 DEF MarksTypes
<1>17. GoodBlocks
  <2> SUFFICES ASSUME NEW b \in 1..n PROVE GoodBlock(b)
    BY <1>11 DEF GoodBlocks
  <2>1. Ahead(c, 0, 0) = 0
    BY DEF Ahead
  <2>2. {block[b].front, block[b].tail, block[b].localFront, block[b].localTail} \subseteq 0..(c - 1)
    BY <1>3, <1>10
  <2>3. /\ Size(b) = c /\ Filled(b) = 0 /\ block[b].data \in [0..(c - 1) -> Nat]
        /\ Ahead(c, block[b].front, block[b].localTail) = 0 /\ Ahead(c, block[b].localFront, block[b].tail) = 0
    BY <1>9, <1>10, <1>15, <2>1
  <2>4. c > Least
    BY <1>3
  <2>5. PICK k : k = Size(b)
    OBVIOUS
  <2>6. /\ k \in Nat /\ k > Least /\ k > 1 /\ block[b].data \in [0..(k - 1) -> Nat]
        /\ {block[b].front, block[b].tail, block[b].localFront, block[b].localTail} \subseteq 0..(k - 1)
        /\ Ahead(k, block[b].front, block[b].localTail) = 0 /\ Ahead(k, block[b].localFront, block[b].tail) = 0
    BY <1>3, <2>2, <2>3, <2>4, <2>5
  <2>7. /\ Ahead(k, block[b].front, block[b].localTail) <= Filled(b)
        /\ Filled(b) <= Ahead(k, block[b].localFront, block[b].tail)
    BY <2>3, <2>6
  <2> QED BY <2>5, <2>6, <2>7 DEF GoodBlock
<1>18. Producing /\ Consuming
  BY <1>12, <1>13 DEF Producing, Consuming
<1>19. PICK place, before : place = [b \in 1..n |-> b] /\ before = [b \in 1..n |-> 0]
  OBVIOUS
<1>20. \A b \in 1..n : place[b] = b /\ before[b] = 0
  BY <1>19
<1>21. Ring(place, n)
  BY <1>2, <1>3, <1>5, <1>10, <1>14, <1>20 DEF Ring
<1>22. InUse(place) = {1}
  BY <1>3, <1>5, <1>14, <1>20 DEF InUse
<1>23. Contents(place, before)
  BY <1>5, <1>14, <1>15, <1>20, <1>22 DEF Contents
<1>24. FullWhenBegun(place)
  BY <1>12 DEF FullWhenBegun
<1> QED BY <1>16, <1>17, <1>18, <1>21, <1>23, <1>24 DEF MarksInv, Whole

\* Every step of the producer and the consumer keeps it.
LEMMA MarksStep == ASSUME MarksInv, MarksNext PROVE MarksInv'
<1>1. MarksTypes /\ GoodBlocks /\ Producing /\ Consuming
  BY DEF MarksInv
<1>2. PICK place, before, last : Whole(place, before, last)
  BY DEF MarksInv
<1>3. CASE OfferBegin
  BY <1>1, <1>2, <1>3, EnqueueBegins DEF MarksInv
<1>4. CASE LoadFront
  BY <1>1, <1>2, <1>4, LoadsFront DEF MarksInv
<1>5. CASE Construct
  BY <1>1, <1>2, <1>5, Constructs DEF MarksInv
<1>6. CASE StoreTail
  BY <1>1, <1>2, <1>6, StoresTail DEF MarksInv
<1>7. CASE LoadFrontBlock
  BY <1>1, <1>2, <1>7, LoadsFrontBlock DEF MarksInv
<1>8. CASE LoadNextFront
  BY <1>1, <1>2, <1>8, LoadsNextFront DEF MarksInv
<1>9. CASE ConstructNext
  BY <1>1, <1>2, <1>9, ConstructsNext DEF MarksInv
<1>10. CASE StoreNextTail
  BY <1>1, <1>2, <1>10, StoresNextTail DEF MarksInv
<1>11. CASE MakeBlock
  BY <1>1, <1>2, <1>11, MakesBlock DEF MarksInv
<1>12. CASE MakeBlockFails
  BY <1>1, <1>2, <1>12, MakesNoBlock DEF MarksInv
<1>13. CASE LinkBlock
  BY <1>1, <1>2, <1>13, LinksBlock DEF MarksInv
<1>14. CASE StoreTailBlock
  BY <1>1, <1>2, <1>14, StoresTailBlock DEF MarksInv
<1>15. ASSUME NEW operation \in {"peek", "try_dequeue"}, CallBegin(operation) PROVE MarksInv'
  BY <1>1, <1>2, <1>15, CallBegins DEF MarksInv
<1>16. CASE LoadTail \/ ReloadTail
  BY <1>1, <1>2, <1>16, LoadsTail DEF MarksInv
<1>17. CASE LoadTailBlock
  BY <1>1, <1>2, <1>17, LoadsTailBlock DEF MarksInv
<1>18. CASE LoadNext
  BY <1>1, <1>2, <1>18, LoadsNext DEF MarksInv
<1>19. CASE LoadTailOfNext
  BY <1>1, <1>2, <1>19, LoadsTailOfNext DEF MarksInv
<1>20. CASE StoreFrontBlock
  BY <1>1, <1>2, <1>20, StoresFrontBlock DEF MarksInv
<1>21. CASE Peek
  BY <1>1, <1>2, <1>21, Peeks DEF MarksInv
<1>22. CASE Take
  BY <1>1, <1>2, <1>22, Takes DEF MarksInv
<1>23. CASE StoreFront
  BY <1>1, <1>2, <1>23, StoresFront DEF MarksInv
<1> QED BY <1>3, <1>4, <1>5, <1>6, <1>7, <1>8, <1>9, <1>10, <1>11, <1>12, <1>13, <1>14, <1>15, <1>16, <1>17, <1>18,
           <1>19, <1>20, <1>21, <1>22, <1>23 DEF MarksNext

LEMMA MarksRest == ASSUME MarksInv, UNCHANGED marksVars PROVE MarksInv'
<1>1. /\ UNCHANGED <<maxSize, MAX_BLOCK_SIZE, block, frontBlock, tailBlock, largestBlockSize, enqueued, producer,
                     consumer, queue, lengthAtEnqueue, emptyAtCall>>
  BY DEF marksVars
<1>2. MarksTypes /\ GoodBlocks /\ Producing /\ Consuming
  BY DEF MarksInv
<1>3. PICK place, before, last : Whole(place, before, last)
  BY DEF MarksInv
<1>4. CopiesChange
  BY <1>1 DEF CopiesChange
<1>5. Linked' = Linked
  BY <1>1 DEF Linked
<1>6. MarksTypes'
  BY <1>1, <1>2, <1>5, LeastKept DEF MarksTypes
<1>7. GoodBlocks'
  BY <1>1, <1>2, BlocksKept
<1>8. Producing'
  BY <1>1, <1>2, <1>3, <1>4, ProducingKept
<1>9. Consuming'
  BY <1>1, <1>2, <1>3, <1>4, ConsumingKept
<1>10. FullWhenBegun(place)'
  BY <1>1, <1>3, FullKept DEF Whole
<1>11. Whole(place, before, last)'
  BY <1>1, <1>2, <1>3, <1>4, <1>5, <1>10, WholeKept
<1> QED BY <1>6, <1>7, <1>8, <1>9, <1>11 DEF MarksInv
-----------------------------------------------------------------------------
(* The assertions and the queue.                                           *)

\* What the invariant says of the blocks the threads move on to.
LEMMA MarksAsserted == ASSUME MarksInv PROVE AssertsHold /\ AllocatesOnlyBeyondMaxSize
<1>1. MarksTypes /\ GoodBlocks /\ Producing /\ Consuming
  BY DEF MarksInv
<1>2. PICK place, before, last : Whole(place, before, last)
  BY DEF MarksInv
<1>3. PICK n, d : n = producer.next /\ d = consumer.next
  OBVIOUS
<1>4. ASSUME producer.at = "constructNext" PROVE block[n].front = block[n].tail /\ n # frontBlock
  <2>1. n \in Linked /\ n \notin InUse(place) /\ n # frontBlock
    BY <1>1, <1>2, <1>3, <1>4, ProducersNext
  <2>2. Filled(n) = 0
    BY <1>2, <1>4, <2>1 DEF Whole, Contents
  <2> QED BY <1>1, <2>1, <2>2, LinkedBlocks
<1>5. ASSUME consumer.at \in {"advance", "peekNext"} PROVE block[d].front # block[d].tail
  <2>1. d \in Linked /\ Filled(d) > 0
    BY <1>1, <1>2, <1>3, <1>5, ConsumersNext
  <2>2. Filled(d) # 0
    BY <2>1
  <2> QED BY <1>1, <2>1, <2>2, LinkedBlocks
<1>6. AssertsHold
  BY <1>3, <1>4, <1>5 DEF AssertsHold
<1>7. AllocatesOnlyBeyondMaxSize
  BY <1>1 DEF Producing, AllocatesOnlyBeyondMaxSize
<1> QED BY <1>6, <1>7

\* The first element of the queue is where the consumer reads.
LEMMA FirstElement ==
  ASSUME MarksTypes, GoodBlocks, NEW place, NEW before, NEW last, Whole(place, before, last),
         consumer.at # "front", NEW b \in InUse(place), before[b] = 0, Filled(b) > 0
  PROVE  queue # <<>> /\ block[b].data[block[b].front] = Head(queue)
<1>1. b \in Linked /\ GoodBlock(b) /\ Filled(b) \in Nat
  BY LinkedBlocks DEF InUse
<1>2. PICK c, f : c = Size(b) /\ f = block[b].front
  OBVIOUS
<1>3. c \in Nat /\ f \in 0..(c - 1)
  BY <1>1, <1>2 DEF GoodBlock
<1>4. SlotAhead(c, f, 0) = f
  BY <1>3, AheadRange
<1>5. block[b].data[SlotAhead(c, f, 0)] = queue[before[b] + 0 + 1]
  BY <1>1, <1>2 DEF Whole, Contents
<1>6. queue \in Seq(Nat) /\ before[b] + Filled(b) <= Len(queue)
  BY UsedBlocks DEF MarksTypes, Whole
<1>7. Len(queue) > 0
  BY <1>1, <1>6
<1>8. Head(queue) = queue[1]
  BY <1>6, <1>7
<1> QED BY <1>2, <1>4, <1>5, <1>6, <1>7, <1>8

LEMMA MarksBeginAsQueue == ASSUME MarksInit PROVE Unbounded!Init
  BY DEF MarksInit, Unbounded!Init, NoCall

\* A step of neither thread that the abstract queue sees.
QueueRests == UNCHANGED <<queue, emptyAtCall, answer>> /\ consumer'.call = consumer.call

LEMMA ProducersSteps ==
  ASSUME MarksInv,
         \/ OfferBegin \/ LoadFront \/ Construct \/ LoadFrontBlock
         \/ LoadNextFront \/ ConstructNext \/ StoreNextTail \/ MakeBlock
         \/ MakeBlockFails \/ LinkBlock
  PROVE  QueueRests
  BY DEF QueueRests, OfferBegin, LoadFront, Construct, LoadFrontBlock,
         LoadNextFront, ConstructNext, StoreNextTail, MakeBlock,
         MakeBlockFails, LinkBlock, ProducerStep

LEMMA ConsumersSteps ==
  ASSUME MarksInv,
         \/ LoadTail \/ ReloadTail \/ LoadNext \/ LoadTailOfNext
         \/ StoreFrontBlock \/ Take \/ (LoadTailBlock /\ frontBlock # tailBlock)
  PROVE  QueueRests
<1>1. consumer \in [at : ConsumerAt, call : {"none", "peek", "try_dequeue"}, element : Nat, next : Nat]
  BY DEF MarksInv, MarksTypes
<1>2. CASE LoadTail \/ ReloadTail
  BY <1>1, <1>2 DEF QueueRests, LoadTail, ReloadTail, LoadTailThen, Consume, ConsumerStep
<1>3. CASE LoadNext \/ StoreFrontBlock
  BY <1>1, <1>3 DEF QueueRests, LoadNext, StoreFrontBlock, Consume, ConsumerStep
<1>4. CASE LoadTailOfNext
  BY <1>1, <1>4 DEF QueueRests, LoadTailOfNext, Consume, ConsumerStep
<1>5. CASE Take
  BY <1>1, <1>5 DEF QueueRests, Take, ConsumerStep
<1>6. CASE LoadTailBlock /\ frontBlock # tailBlock
  BY <1>1, <1>6 DEF QueueRests, LoadTailBlock, Consume, ConsumerStep
<1> QED BY <1>2, <1>3, <1>4, <1>5, <1>6

\* Every step is one of the queue, or changes nothing in it.
LEMMA MarksStepAsQueue == ASSUME MarksInv, MarksNext PROVE [Unbounded!Next]_(Unbounded!vars)
<1>1. MarksTypes /\ GoodBlocks /\ Producing /\ Consuming
  BY DEF MarksInv
<1>2. PICK place, before, last : Whole(place, before, last)
  BY DEF MarksInv
<1>3. QueueRests => UNCHANGED Unbounded!vars
  BY DEF QueueRests, Unbounded!vars
<1>4. ASSUME StoreTail \/ StoreTailBlock
      PROVE  Unbounded!Enqueue(producer.element) /\ producer.element \in Element
  <2>1. producer.at \in {"tail", "tailBlock"} /\ queue' = Append(queue, producer.element)
        /\ UNCHANGED <<consumer, emptyAtCall, answer>>
    BY <1>4 DEF StoreTail, StoreTailBlock, ProducerStep
  <2>2. producer.element \in Element
    BY <1>1, <2>1 DEF Producing
  <2> QED BY <2>1, <2>2 DEF Unbounded!Enqueue
<1>5. ASSUME NEW operation \in {"peek", "try_dequeue"}, CallBegin(operation)
      PROVE  Unbounded!Begin(operation)
  <2>1. consumer.at = "idle" /\ consumer'.call = operation /\ answer' = <<>> /\ UNCHANGED queue
    BY <1>1, <1>5 DEF CallBegin, MarksTypes
  <2>2. consumer.call = "none"
    BY <1>1, <2>1 DEF Consuming
  <2>3. emptyAtCall' = (queue = <<>>)
    BY <1>5 DEF CallBegin
  <2> QED BY <2>1, <2>2, <2>3 DEF Unbounded!Begin
<1>6. ASSUME LoadTailBlock, frontBlock = tailBlock PROVE Unbounded!AnswerEmpty
  <2>1. /\ consumer.at = "tailBlock" /\ consumer' = NoCall /\ emptyAtCall' = FALSE
        /\ UNCHANGED <<queue, answer>>
    BY <1>6 DEF LoadTailBlock, Return
  <2>2. consumer.call # "none" /\ emptyAtCall
    BY <1>1, <1>6, <2>1 DEF Consuming
  <2> QED BY <2>1, <2>2 DEF Unbounded!AnswerEmpty, NoCall
<1>7. ASSUME Peek PROVE Unbounded!Peek
  <2>1. PICK b : b \in InUse(place) /\ before[b] = 0 /\ Filled(b) > 0 /\ answer' = <<block[b].data[block[b].front]>>
    <3>1. CASE PeekAt("take", frontBlock)
      <4>1. consumer.at = "take" /\ answer' = <<block[frontBlock].data[block[frontBlock].front]>>
        BY <3>1 DEF PeekAt
      <4>2. Filled(frontBlock) > 0
        BY <1>1, <1>2, <4>1, ElementIsThere
      <4>3. frontBlock \in InUse(place) /\ before[frontBlock] = 0
        BY <1>1, <1>2, UsedBlocks DEF Whole, Contents
      <4> QED BY <4>1, <4>2, <4>3
    <3>2. CASE PeekAt("peekNext", consumer.next)
      <4>1. PICK n : n = consumer.next
        OBVIOUS
      <4>2. consumer.at = "peekNext" /\ answer' = <<block[n].data[block[n].front]>>
        BY <3>2, <4>1 DEF PeekAt
      <4>3. n \in InUse(place) /\ before[n] = 0 /\ Filled(n) > 0
        BY <1>1, <1>2, <4>1, <4>2, ConsumersNext
      <4> QED BY <4>2, <4>3
    <3> QED BY <1>7, <3>1, <3>2 DEF Peek
  <2>2. /\ consumer.at # "front" /\ consumer.call = "peek" /\ consumer' = NoCall /\ emptyAtCall' = FALSE
        /\ UNCHANGED queue
    BY <1>7 DEF Peek, PeekAt, Return
  <2>3. queue # <<>> /\ answer' = <<Head(queue)>>
    BY <1>1, <1>2, <2>1, <2>2, FirstElement
  <2> QED BY <2>2, <2>3 DEF Unbounded!Peek, NoCall
<1>8. ASSUME StoreFront PROVE Unbounded!Dequeue
  <2>1. /\ consumer.at = "front" /\ consumer' = NoCall /\ emptyAtCall' = FALSE
        /\ queue' = Tail(queue) /\ answer' = <<consumer.element>>
    BY <1>8 DEF StoreFront, Return
  <2>2. consumer.call = "try_dequeue" /\ consumer.element = queue[1]
    BY <1>1, <2>1 DEF Consuming
  <2>3. queue # <<>> /\ Len(queue) > 0 /\ queue \in Seq(Nat)
    BY <1>1, <1>2, <2>1, ElementIsThere DEF MarksTypes
  <2>4. Head(queue) = queue[1]
    BY <2>3
  <2> QED BY <2>1, <2>2, <2>3, <2>4 DEF Unbounded!Dequeue, NoCall
<1>9. ASSUME \/ OfferBegin \/ LoadFront \/ Construct \/ LoadFrontBlock
             \/ LoadNextFront \/ ConstructNext \/ StoreNextTail \/ MakeBlock
             \/ MakeBlockFails \/ LinkBlock
      PROVE  UNCHANGED Unbounded!vars
  BY <1>3, <1>9, ProducersSteps
<1>10. ASSUME \/ LoadTail \/ ReloadTail \/ LoadNext \/ LoadTailOfNext
              \/ StoreFrontBlock \/ Take \/ (LoadTailBlock /\ frontBlock # tailBlock)
       PROVE  UNCHANGED Unbounded!vars
  BY <1>3, <1>10, ConsumersSteps
<1> QED BY <1>4, <1>5, <1>6, <1>7, <1>8, <1>9, <1>10 DEF MarksNext, Unbounded!Next

\* The ring of blocks through which the network thread hands over its marks is an unbounded
\* queue: an element is in it at once or not at all, in order, and "empty" is answered only if
\* it was empty when the call began, whatever the threads do in between.  Its assertions hold,
\* and it allocates only when it has more than the elements it was made for
\* (readerwriterqueue.h).
THEOREM MarksAreAQueue == MarksSpec => ImplementsMarkQueue
<1>1. MarksInit => MarksInv /\ Unbounded!Init
  BY MarksBegin, MarksBeginAsQueue
<1>2. MarksInv /\ [MarksNext]_marksVars => MarksInv'
  BY MarksStep, MarksRest
<1>3. MarksInv /\ [MarksNext]_marksVars => [Unbounded!Next]_(Unbounded!vars)
  <2>1. UNCHANGED marksVars => UNCHANGED Unbounded!vars
    BY DEF marksVars, Unbounded!vars
  <2> QED BY <2>1, MarksStepAsQueue
<1>4. MarksInv => AssertsHold /\ AllocatesOnlyBeyondMaxSize
  BY MarksAsserted
<1> QED BY <1>1, <1>2, <1>3, <1>4, PTL DEF MarksSpec, ImplementsMarkQueue, Unbounded!Spec
=============================================================================
