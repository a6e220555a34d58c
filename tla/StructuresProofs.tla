--------------------------- MODULE StructuresProofs ---------------------------
(***************************************************************************)
(* Theorems about the data structures and objects that MCStructures puts   *)
(* to work: the fifo of the audio, the source table, the creation of a     *)
(* session, the transmitters, the scheduler of reports, what participants  *)
(* say of themselves and the packets of the stream, for every value of     *)
(* their constants.  Each has an invariant of its own.  That of the fifo   *)
(* says that an index never points into the wasted range, and that mRear   *)
(* is always mFront advanced by the fill level; the lemmas on sum, diff    *)
(* and SlotOf reduce everything else to arithmetic on that level.          *)
(***************************************************************************)
EXTENDS MCStructures, FiniteSetTheorems, SequenceTheorems, TLAPS

-----------------------------------------------------------------------------
(* Division with remainder.                                                *)

LEMMA RemainderRange ==
  ASSUME NEW a \in Int, NEW d \in Nat \ {0}
  PROVE  a % d \in 0..(d - 1)
  BY SMT

LEMMA DivisionForm ==
  ASSUME NEW a \in Int, NEW d \in Nat \ {0}
  PROVE  a = d * (a \div d) + (a % d)
  BY SMT

LEMMA RemainderUnique ==
  ASSUME NEW q \in Int, NEW d \in Nat \ {0}, NEW r \in 0..(d - 1)
  PROVE  (q * d + r) % d = r
  BY SMT

LEMMA RemainderSmall ==
  ASSUME NEW d \in Nat \ {0}, NEW a \in 0..(d - 1)
  PROVE  a % d = a
  BY SMT

LEMMA RemainderOnce ==
  ASSUME NEW d \in Nat \ {0}, NEW r \in 0..(d - 1)
  PROVE  (d + r) % d = r
  BY SMT

-----------------------------------------------------------------------------
(* Indices.  A good index lies outside the wasted range of its generation. *)

GoodIndex(i) == i \in Index /\ Pos(i) < FrameCount

NextGen(g) == IF g + FrameCountP2 = IndexRange THEN 0 ELSE g + FrameCountP2

LEMMA Constants ==
  /\ FrameCount \in Nat \ {0} /\ FrameCountP2 \in Nat \ {0} /\ IndexRange \in Nat \ {0}
  /\ FrameCount <= FrameCountP2 /\ 2 * FrameCountP2 < IndexRange
  /\ mFudgeFactor \in Nat /\ mFudgeFactor = FrameCountP2 - FrameCount
  /\ \E k \in Nat : IndexRange = k * FrameCountP2
<1>1. FrameCountP2 \in Nat \ {0} /\ IndexRange \in Nat \ {0}
  BY FifoAssumption, SMT
<1>2. IndexRange = FrameCountP2 * (IndexRange \div FrameCountP2) + 0
  BY <1>1, FifoAssumption, DivisionForm
<1>3. IndexRange \div FrameCountP2 \in Nat
  BY <1>1, SMT
<1> QED BY <1>1, <1>2, <1>3, FifoAssumption, SMT DEF mFudgeFactor

\* An index is a generation, a multiple of FrameCountP2, and a position.
LEMMA IndexParts ==
  ASSUME NEW i \in Index
  PROVE  /\ Pos(i) \in 0..(FrameCountP2 - 1) /\ Gen(i) \in Nat /\ i = Gen(i) + Pos(i)
         /\ Gen(i) + FrameCountP2 <= IndexRange
         /\ \E q \in Nat : Gen(i) = q * FrameCountP2
<1> DEFINE q == i \div FrameCountP2
<1>1. i \in Nat /\ i < IndexRange
  BY Constants, SMT DEF Index
<1>2. i = FrameCountP2 * q + Pos(i) /\ Pos(i) \in 0..(FrameCountP2 - 1)
  BY <1>1, Constants, DivisionForm, RemainderRange, SMT DEF Pos
<1>3. q \in Nat
  BY <1>1, Constants, SMT
<1>4. PICK k \in Nat : IndexRange = k * FrameCountP2
  BY Constants
<1> HIDE DEF q
<1>5. q < k
  BY <1>1, <1>2, <1>3, <1>4, Constants, SMT
<1>6. q * FrameCountP2 + FrameCountP2 <= k * FrameCountP2
  BY <1>5, <1>3, Constants, SMT
<1>7. Gen(i) = q * FrameCountP2
  BY <1>1, <1>2, <1>3, Constants, SMT DEF Gen
<1>8. Gen(i) \in Nat
  BY <1>7, <1>3, Constants, SMT
<1> QED BY <1>1, <1>2, <1>3, <1>4, <1>6, <1>7, <1>8, Constants, SMT DEF Gen

LEMMA GoodIndexFacts ==
  ASSUME NEW i, GoodIndex(i)
  PROVE  /\ i \in Index /\ i \in Nat /\ Pos(i) \in Nat /\ Pos(i) < FrameCount
         /\ Gen(i) \in Nat /\ i = Gen(i) + Pos(i) /\ Gen(i) + FrameCountP2 <= IndexRange
         /\ Gen(i) \in Index /\ NextGen(Gen(i)) \in Nat
<1>1. i \in Index /\ Pos(i) < FrameCount
  BY DEF GoodIndex
<1>2. /\ Pos(i) \in 0..(FrameCountP2 - 1) /\ Gen(i) \in Nat /\ i = Gen(i) + Pos(i)
      /\ Gen(i) + FrameCountP2 <= IndexRange
  BY <1>1, IndexParts
<1> QED BY <1>1, <1>2, Constants, SMT DEF Index, NextGen

\* A multiple of FrameCountP2 below IndexRange plus a position is an index
\* with that generation and that position.
LEMMA IndexFromParts ==
  ASSUME NEW q \in Nat, NEW p \in 0..(FrameCountP2 - 1),
         q * FrameCountP2 + FrameCountP2 <= IndexRange
  PROVE  /\ q * FrameCountP2 + p \in Index
         /\ Pos(q * FrameCountP2 + p) = p
         /\ Gen(q * FrameCountP2 + p) = q * FrameCountP2
<1>1. q * FrameCountP2 \in Nat
  BY Constants, SMT
<1>2. Pos(q * FrameCountP2 + p) = p
  BY RemainderUnique, Constants DEF Pos
<1> QED BY <1>1, <1>2, Constants, SMT DEF Index, Gen

-----------------------------------------------------------------------------
(* audio_utils_fifo_sum stays in the generation or moves to the next one.  *)

LEMMA SumInGeneration ==
  ASSUME NEW i, GoodIndex(i), NEW n \in 0..FrameCount, Pos(i) + n < FrameCount
  PROVE  /\ audio_utils_fifo_sum(i, n) = i + n
         /\ i + n \in Index /\ Pos(i + n) = Pos(i) + n /\ Gen(i + n) = Gen(i)
<1>1. PICK q \in Nat : Gen(i) = q * FrameCountP2
  BY IndexParts DEF GoodIndex
<1> DEFINE p == Pos(i)
<1>2. /\ p \in Nat /\ p + n \in 0..(FrameCountP2 - 1) /\ i = q * FrameCountP2 + p
      /\ q * FrameCountP2 + FrameCountP2 <= IndexRange /\ q * FrameCountP2 \in Nat
  BY <1>1, IndexParts, Constants, SMT DEF GoodIndex
<1> HIDE DEF p
<1>3. i + n = q * FrameCountP2 + (p + n)
  BY <1>2, Constants, SMT
<1>4. i + n \in Index /\ Pos(i + n) = p + n /\ Gen(i + n) = q * FrameCountP2
  BY <1>2, <1>3, IndexFromParts
<1>5. i + n + 0 = i + n /\ i + n \in 0..(IndexRange - 1)
  BY <1>3, <1>4, Constants, SMT DEF Index
<1>6. audio_utils_fifo_sum(i, n) = (i + n + 0) % IndexRange
  BY <1>2, Constants, SMT DEF audio_utils_fifo_sum, p
<1>7. (i + n) % IndexRange = i + n
  BY <1>5, RemainderSmall, Constants
<1> QED BY <1>1, <1>4, <1>5, <1>6, <1>7 DEF p

LEMMA SumNextGeneration ==
  ASSUME NEW i, GoodIndex(i), NEW n \in 0..FrameCount, Pos(i) + n >= FrameCount
  PROVE  LET s == audio_utils_fifo_sum(i, n)
             p == Pos(i) + n - FrameCount
         IN  /\ s = NextGen(Gen(i)) + p /\ p \in 0..Pos(i)
             /\ s \in Index /\ Pos(s) = p /\ Gen(s) = NextGen(Gen(i))
<1> DEFINE p == Pos(i) + n - FrameCount
           x == i + n + mFudgeFactor
<1>1. PICK q \in Nat : Gen(i) = q * FrameCountP2
  BY IndexParts DEF GoodIndex
<1>2. /\ p \in 0..Pos(i) /\ p \in 0..(FrameCountP2 - 1) /\ i \in Nat
      /\ i = q * FrameCountP2 + Pos(i) /\ Pos(i) \in Nat
      /\ q * FrameCountP2 + FrameCountP2 <= IndexRange /\ q * FrameCountP2 \in Nat
  BY <1>1, IndexParts, Constants, SMT DEF GoodIndex
<1>3. audio_utils_fifo_sum(i, n) = x % IndexRange
  BY <1>2, Constants, SMT DEF audio_utils_fifo_sum
<1>4. x = q * FrameCountP2 + FrameCountP2 + p
  BY <1>2, Constants, SMT
<1>5. CASE Gen(i) + FrameCountP2 = IndexRange
  <2>1. x = IndexRange + p /\ p \in 0..(IndexRange - 1)
    BY <1>1, <1>2, <1>4, <1>5, Constants, SMT
  <2>2. x % IndexRange = p
    BY <2>1, RemainderOnce, Constants
  <2>3. 0 * FrameCountP2 = 0 /\ 0 + p = p /\ FrameCountP2 <= IndexRange /\ 0 + FrameCountP2 = FrameCountP2
    BY <1>2, Constants, SMT
  <2>4. p \in Index /\ Pos(p) = p /\ Gen(p) = 0
    BY <1>2, <2>3, IndexFromParts
  <2> QED BY <1>2, <1>3, <1>5, <2>2, <2>3, <2>4 DEF NextGen
<1>6. CASE Gen(i) + FrameCountP2 # IndexRange
  <2>1. PICK k \in Nat : IndexRange = k * FrameCountP2
    BY Constants
  <2>2. q + 1 # k
    <3>1. (q + 1) * FrameCountP2 = q * FrameCountP2 + FrameCountP2
      BY Constants, SMT
    <3> QED BY <3>1, <1>1, <1>6, <2>1
  <2>3. q + 1 < k
    <3>1. SUFFICES ASSUME k <= q PROVE FALSE
      BY <2>2, SMT
    <3>2. k * FrameCountP2 <= q * FrameCountP2
      BY <3>1, Constants, SMT
    <3> QED BY <3>2, <1>2, <2>1, Constants, SMT
  <2>4. /\ (q + 1) * FrameCountP2 = Gen(i) + FrameCountP2
        /\ (q + 1) * FrameCountP2 + FrameCountP2 <= IndexRange /\ q + 1 \in Nat
    <3>1. (q + 2) * FrameCountP2 <= k * FrameCountP2
      BY <2>3, Constants, SMT
    <3>2. /\ (q + 1) * FrameCountP2 = q * FrameCountP2 + FrameCountP2
          /\ (q + 2) * FrameCountP2 = (q + 1) * FrameCountP2 + FrameCountP2
      BY Constants, SMT
    <3> QED BY <3>1, <3>2, <1>1, <2>1
  <2>5. x = (q + 1) * FrameCountP2 + p
    BY <1>1, <1>4, <2>4
  <2>6. x \in Index /\ Pos(x) = p /\ Gen(x) = (q + 1) * FrameCountP2
    BY <2>4, <2>5, <1>2, IndexFromParts
  <2>7. x % IndexRange = x
    BY <2>6, RemainderSmall, Constants DEF Index
  <2> QED BY <1>2, <1>3, <1>6, <2>4, <2>5, <2>6, <2>7 DEF NextGen
<1> QED BY <1>5, <1>6

\* sum yields good indices, and its slot is the one the copy loops compute.
LEMMA SumGood ==
  ASSUME NEW i, GoodIndex(i), NEW n \in 0..FrameCount
  PROVE  /\ GoodIndex(audio_utils_fifo_sum(i, n))
         /\ Pos(audio_utils_fifo_sum(i, n)) = SlotOf(i, n)
         /\ SlotOf(i, n) \in Slot
<1>1. Pos(i) \in Nat /\ Pos(i) < FrameCount /\ n \in Nat
  BY IndexParts, Constants, SMT DEF GoodIndex
<1>2. CASE Pos(i) + n < FrameCount
  BY <1>1, <1>2, SumInGeneration, Constants, SMT DEF GoodIndex, SlotOf, Slot
<1>3. CASE Pos(i) + n >= FrameCount
  BY <1>1, <1>3, SumNextGeneration, Constants, SMT DEF GoodIndex, SlotOf, Slot
<1> QED BY <1>1, <1>2, <1>3, Constants, SMT

\* No two of the FrameCount slots after an index coincide.
LEMMA SlotsDistinct ==
  ASSUME NEW i, GoodIndex(i),
         NEW a \in 0..(FrameCount - 1), NEW b \in 0..(FrameCount - 1), a # b
  PROVE  SlotOf(i, a) # SlotOf(i, b)
<1>1. Pos(i) \in Nat /\ Pos(i) < FrameCount
  BY IndexParts, Constants, SMT DEF GoodIndex
<1> QED BY <1>1, Constants, SMT DEF SlotOf

LEMMA SumOfSum ==
  ASSUME NEW i, GoodIndex(i), NEW a \in 0..FrameCount, NEW b \in 0..FrameCount,
         a + b <= FrameCount
  PROVE  audio_utils_fifo_sum(audio_utils_fifo_sum(i, a), b) = audio_utils_fifo_sum(i, a + b)
<1> DEFINE s == audio_utils_fifo_sum(i, a)
<1>1. /\ Pos(i) \in Nat /\ Pos(i) < FrameCount /\ i \in Nat /\ GoodIndex(s)
      /\ Gen(i) \in Nat /\ i = Gen(i) + Pos(i) /\ a + b \in 0..FrameCount
      /\ NextGen(Gen(i)) \in Nat /\ Pos(s) \in Nat
  <2>1. GoodIndex(s)
    BY SumGood
  <2> HIDE DEF s
  <2>2. Pos(s) \in Nat
    BY <2>1, GoodIndexFacts
  <2> QED BY <2>1, <2>2, GoodIndexFacts, Constants, SMT
<1>2. CASE Pos(i) + a < FrameCount
  <2>1. s = i + a /\ Pos(s) = Pos(i) + a /\ Gen(s) = Gen(i)
    BY <1>2, SumInGeneration
  <2> HIDE DEF s
  <2>2. CASE Pos(i) + (a + b) < FrameCount
    <3>1. Pos(s) + b < FrameCount
      BY <1>1, <2>1, <2>2, Constants, SMT
    <3>2. audio_utils_fifo_sum(s, b) = s + b
      BY <3>1, <1>1, SumInGeneration
    <3>3. audio_utils_fifo_sum(i, a + b) = i + (a + b)
      BY <2>2, <1>1, SumInGeneration
    <3> QED BY <3>2, <3>3, <2>1, <1>1, SMT DEF s
  <2>3. CASE Pos(i) + (a + b) >= FrameCount
    <3>1. Pos(s) + b >= FrameCount
      BY <1>1, <2>1, <2>3, Constants, SMT
    <3>2. audio_utils_fifo_sum(s, b) = NextGen(Gen(s)) + (Pos(s) + b - FrameCount)
      BY <3>1, <1>1, SumNextGeneration
    <3>3. audio_utils_fifo_sum(i, a + b) = NextGen(Gen(i)) + (Pos(i) + (a + b) - FrameCount)
      BY <2>3, <1>1, SumNextGeneration
    <3>4. Pos(s) + b - FrameCount = Pos(i) + (a + b) - FrameCount
      BY <2>1, <1>1, Constants, SMT
    <3> QED BY <3>2, <3>3, <3>4, <2>1 DEF s
  <2> QED BY <2>2, <2>3, <1>1, Constants, SMT
<1>3. CASE Pos(i) + a >= FrameCount
  <2>1. s = NextGen(Gen(i)) + (Pos(i) + a - FrameCount) /\ Pos(s) = Pos(i) + a - FrameCount
    BY <1>3, SumNextGeneration
  <2> HIDE DEF s
  <2>2. Pos(s) + b < FrameCount /\ Pos(i) + (a + b) >= FrameCount
    BY <1>1, <1>3, <2>1, Constants, SMT
  <2>3. audio_utils_fifo_sum(s, b) = s + b
    BY <2>2, <1>1, SumInGeneration
  <2>4. audio_utils_fifo_sum(i, a + b) = NextGen(Gen(i)) + (Pos(i) + (a + b) - FrameCount)
    BY <2>2, <1>1, SumNextGeneration
  <2>5. s + b = NextGen(Gen(i)) + (Pos(i) + (a + b) - FrameCount)
    BY <2>1, <1>1, Constants, SMT
  <2> QED BY <2>3, <2>4, <2>5 DEF s
<1> QED BY <1>1, <1>2, <1>3, Constants, SMT

LEMMA SlotOfSum ==
  ASSUME NEW i, GoodIndex(i), NEW a \in 0..FrameCount, NEW b \in 0..FrameCount,
         a + b <= FrameCount
  PROVE  SlotOf(audio_utils_fifo_sum(i, a), b) = SlotOf(i, a + b)
<1>1. GoodIndex(audio_utils_fifo_sum(i, a)) /\ a + b \in 0..FrameCount
  BY SumGood, Constants, SMT
<1>2. Pos(audio_utils_fifo_sum(audio_utils_fifo_sum(i, a), b)) = SlotOf(audio_utils_fifo_sum(i, a), b)
  BY <1>1, SumGood
<1>3. Pos(audio_utils_fifo_sum(i, a + b)) = SlotOf(i, a + b)
  BY <1>1, SumGood
<1> QED BY <1>2, <1>3, SumOfSum

LEMMA SignedOfDifference ==
  ASSUME NEW i \in Index, NEW s \in Index, NEW n \in 0..FrameCountP2,
         s = i + n \/ s = i + n - IndexRange
  PROVE  Signed((s - i) % IndexRange) = n
<1>1. n \in 0..(IndexRange - 1) /\ i \in Int /\ IndexRange \in Nat \ {0} /\ 2 * n < IndexRange
  BY Constants, SMT DEF Index
<1>2. (s - i) % IndexRange = n
  <2>1. CASE s = i + n
    BY <2>1, <1>1, RemainderSmall, SMT
  <2>2. CASE s = i + n - IndexRange
    <3>1. s - i = (-1) * IndexRange + n
      BY <2>2, <1>1, SMT
    <3> QED BY <3>1, <1>1, RemainderUnique, SMT
  <2> QED BY <2>1, <2>2
<1> QED BY <1>1, <1>2, Constants, SMT DEF Signed

\* diff recovers the number of frames sum advanced by, and the assertion on
\* the generations holds.
LEMMA DiffOfSum ==
  ASSUME NEW i, GoodIndex(i), NEW n \in 0..FrameCount
  PROVE  LET s == audio_utils_fifo_sum(i, n)
         IN  /\ audio_utils_fifo_diff(s, i) = n
             /\ Signed((Gen(s) - Gen(i)) % IndexRange) \in {0, FrameCountP2}
<1> DEFINE s == audio_utils_fifo_sum(i, n)
<1>1. /\ Pos(i) \in Nat /\ Pos(i) < FrameCount /\ i \in Index /\ i \in Nat
      /\ Gen(i) \in Index /\ Gen(i) \in Nat /\ i = Gen(i) + Pos(i) /\ s \in Index
      /\ 0 \in 0..FrameCountP2 /\ FrameCountP2 \in 0..FrameCountP2
      /\ n + mFudgeFactor \in 0..FrameCountP2 /\ n \in 0..FrameCountP2
  <2>1. GoodIndex(s)
    BY SumGood
  <2> HIDE DEF s
  <2>2. s \in Index
    BY <2>1, GoodIndexFacts
  <2> QED BY <2>2, GoodIndexFacts, Constants, SMT
<1>2. CASE Pos(i) + n < FrameCount
  <2>1. s = i + n /\ Gen(s) = Gen(i)
    BY <1>2, SumInGeneration
  <2> HIDE DEF s
  <2>2. Signed((s - i) % IndexRange) = n
    BY <1>1, <2>1, SignedOfDifference
  <2>3. Gen(s) \in Index /\ Gen(s) = Gen(i) + 0
    BY <1>1, <2>1, SMT
  <2>4. Signed((Gen(s) - Gen(i)) % IndexRange) = 0
    BY <1>1, <2>3, SignedOfDifference
  <2>5. audio_utils_fifo_diff(s, i) = n
    BY <2>1, <2>2, Constants, SMT DEF audio_utils_fifo_diff
  <2> QED BY <2>4, <2>5 DEF s
<1>3. CASE Pos(i) + n >= FrameCount
  <2>1. s = NextGen(Gen(i)) + (Pos(i) + n - FrameCount) /\ Gen(s) = NextGen(Gen(i))
    BY <1>3, SumNextGeneration
  <2> HIDE DEF s
  <2>2. Gen(i) + FrameCountP2 <= IndexRange
    BY <1>1, IndexParts
  <2>3. /\ s = i + (n + mFudgeFactor) \/ s = i + (n + mFudgeFactor) - IndexRange
        /\ Gen(s) = Gen(i) + FrameCountP2 \/ Gen(s) = Gen(i) + FrameCountP2 - IndexRange
        /\ Gen(s) # Gen(i) /\ Gen(s) \in Index
    BY <1>1, <2>1, <2>2, Constants, SMT DEF NextGen, Index
  <2>4. Signed((s - i) % IndexRange) = n + mFudgeFactor
    BY <1>1, <2>3, SignedOfDifference
  <2>5. Signed((Gen(s) - Gen(i)) % IndexRange) = FrameCountP2
    BY <1>1, <2>3, SignedOfDifference
  <2>6. audio_utils_fifo_diff(s, i) = n
    BY <2>3, <2>4, Constants, SMT DEF audio_utils_fifo_diff
  <2> QED BY <2>5, <2>6 DEF s
<1> QED BY <1>1, <1>2, <1>3, Constants, SMT

-----------------------------------------------------------------------------
(* The inductive invariant: mRear is mFront advanced by the fill level.    *)
(* The invariants of AudioFifo alone are not inductive: they do not tell   *)
(* where mRear is relative to mFront once the indices wrap.                *)

IndexInv ==
  /\ GoodIndex(mFront) /\ GoodIndex(mRear)
  /\ Available \in 0..FrameCount
  /\ mRear = audio_utils_fifo_sum(mFront, Available)

Inv == TypeOK /\ IndexInv /\ ClaimsBacked

LEMMA AvailableAfterSum ==
  ASSUME NEW f, NEW n \in 0..FrameCount, GoodIndex(f)
  PROVE  audio_utils_fifo_diff(audio_utils_fifo_sum(f, n), f) = n
  BY DiffOfSum

LEMMA SubSeqFacts ==
  ASSUME NEW S, NEW s \in Seq(S), NEW n \in 0..Len(s)
  PROVE  /\ SubSeq(s, 1, n) \in Seq(S) /\ Len(SubSeq(s, 1, n)) = n
         /\ SubSeq(s, 1, n) = << >> <=> n = 0
  BY SMT

LEMMA InitInv == Init => Inv
<1> SUFFICES ASSUME Init PROVE Inv
  OBVIOUS
<1>1. 0 \in Index /\ Pos(0) = 0 /\ Gen(0) = 0
  BY Constants, SMT DEF Index, Pos, Gen
<1>2. GoodIndex(0)
  BY <1>1, Constants, SMT DEF GoodIndex
<1>3. audio_utils_fifo_sum(0, 0) = 0
  BY <1>1, <1>2, SumInGeneration, Constants, SMT
<1>4. Available = 0
  BY <1>2, <1>3, AvailableAfterSum, Constants, SMT DEF Init, Available
<1>5. TypeOK
  BY <1>1, SMT DEF Init, TypeOK
<1>6. IndexInv
  BY <1>2, <1>3, <1>4, Constants, SMT DEF Init, IndexInv
<1>7. ClaimsBacked
  BY <1>4, Constants, SMT DEF Init, ClaimsBacked
<1> QED BY <1>5, <1>6, <1>7 DEF Inv

LEMMA CallsAreSequences ==
  ASSUME NEW input \in Calls
  PROVE  input \in Seq(Frame)
<1>1. PICK n \in 0..MaxCall : input \in [1..n -> Frame]
  BY DEF Calls
<1>2. n \in Nat
  BY FifoAssumption, SMT
<1> QED BY <1>1, <1>2, SeqDef

\* The indices stay where they are: so do the facts about them.
LEMMA IndexStep ==
  ASSUME IndexInv, UNCHANGED <<mFront, mRear>>
  PROVE  IndexInv' /\ Available' = Available
  BY DEF IndexInv, Available

\* What a write call accepts: a prefix of the caller's input that fits.
LEMMA AcceptedPrefix ==
  ASSUME Inv, NEW input \in Seq(Frame)
  PROVE  LET n == AtMost(FrameCount - Available, Len(input))
         IN  /\ n \in 0..Len(input) /\ n <= FrameCount - Available
             /\ SubSeq(input, 1, n) \in Seq(Frame) /\ Len(SubSeq(input, 1, n)) = n
<1>1. AtMost(FrameCount - Available, Len(input)) \in 0..Len(input)
  BY LenProperties, Constants, SMT DEF Inv, IndexInv, AtMost
<1>2. AtMost(FrameCount - Available, Len(input)) <= FrameCount - Available
  BY LenProperties, Constants, SMT DEF Inv, IndexInv, AtMost
<1> QED BY <1>1, <1>2, SubSeqFacts

LEMMA WriteBeginInv == ASSUME Inv, NEW input \in Calls, WriteBegin(input) PROVE Inv'
<1>1. input \in Seq(Frame)
  BY CallsAreSequences
<1>2. IndexInv' /\ Available' = Available
  BY IndexStep DEF Inv, WriteBegin, readerVars
<1> DEFINE n == AtMost(FrameCount - Available, Len(input))
<1>3. /\ n \in 0..Len(input) /\ n <= FrameCount - Available
      /\ wbuf' \in Seq(Frame) /\ Len(wbuf') = n /\ wdone' = 0
  BY <1>1, AcceptedPrefix DEF WriteBegin
<1>4. n \in Nat /\ wdone' \in 0..Len(wbuf')
  BY <1>1, <1>3, LenProperties, SMT
<1>5. TypeOK'
  BY <1>3, <1>4 DEF Inv, TypeOK, WriteBegin, readerVars
<1>6. ClaimsBacked'
  BY <1>2, <1>3 DEF Inv, ClaimsBacked, WriteBegin, readerVars
<1> QED BY <1>2, <1>5, <1>6 DEF Inv

LEMMA WriteCopyInv == ASSUME Inv, WriteCopy PROVE Inv'
<1>1. IndexInv' /\ Available' = Available
  BY IndexStep DEF Inv, WriteCopy, readerVars
<1>2. /\ wdone \in Nat /\ wdone + 1 \in 1..Len(wbuf) /\ wdone + 1 \in 0..Len(wbuf)
      /\ wbuf[wdone + 1] \in Frame
  BY LenProperties, ElementOfSeq, SMT DEF Inv, TypeOK, WriteCopy
<1>3. TypeOK'
  BY <1>2 DEF Inv, TypeOK, WriteCopy, readerVars
<1> QED BY <1>1, <1>3 DEF Inv, ClaimsBacked, WriteCopy, readerVars

\* The fill level after a write call has stored mRear.
LEMMA WritePublishIndex ==
  ASSUME Inv, WritePublish
  PROVE  IndexInv' /\ Available' = Available + Len(wbuf)
<1> DEFINE n == Len(wbuf)
<1>1. /\ GoodIndex(mFront) /\ GoodIndex(mRear) /\ n \in 0..FrameCount
      /\ Available \in 0..FrameCount /\ Available + n \in 0..FrameCount
  BY LenProperties, Constants, SMT DEF Inv, TypeOK, IndexInv, ClaimsBacked
<1>2. mRear' = audio_utils_fifo_sum(mRear, n) /\ mFront' = mFront
  BY DEF WritePublish, readerVars
<1>3. GoodIndex(mRear')
  BY <1>1, <1>2, SumGood
<1>4. mRear' = audio_utils_fifo_sum(mFront, Available + n)
  BY <1>1, <1>2, SumOfSum, Constants, SMT DEF Inv, IndexInv
<1>5. Available' = Available + n
  BY <1>1, <1>2, <1>4, AvailableAfterSum DEF Available
<1> QED BY <1>1, <1>2, <1>3, <1>4, <1>5 DEF IndexInv, GoodIndex

LEMMA WritePublishInv == ASSUME Inv, WritePublish PROVE Inv'
<1>1. IndexInv' /\ Available' = Available + Len(wbuf)
  BY WritePublishIndex
<1>2. wbuf' = << >> /\ wdone' = 0 /\ Len(wbuf') = 0 /\ wbuf' \in Seq(Frame)
  BY EmptySeq DEF WritePublish
<1>3. TypeOK'
  BY <1>1, <1>2, SMT DEF Inv, TypeOK, IndexInv, GoodIndex, WritePublish, readerVars
<1>4. Available' \in 0..FrameCount /\ Len(wbuf) \in Nat /\ Available \in Nat
  BY <1>1, LenProperties, Constants, SMT DEF Inv, TypeOK, IndexInv
<1>5. ClaimsBacked'
  BY <1>1, <1>2, <1>4, Constants, SMT DEF Inv, TypeOK, ClaimsBacked, WritePublish, readerVars
<1> QED BY <1>1, <1>3, <1>5 DEF Inv

LEMMA ReadBeginInv == ASSUME Inv, NEW count \in 0..MaxCall, ReadBegin(count) PROVE Inv'
<1>1. IndexInv' /\ Available' = Available
  BY IndexStep DEF Inv, ReadBegin, writerVars
<1>2. ravail' \in Nat /\ ravail' <= Available /\ rbuf' \in Seq(Frame)
  BY FifoAssumption, Constants, EmptySeq, SMT DEF Inv, IndexInv, ReadBegin, AtMost
<1>3. TypeOK'
  BY <1>2 DEF Inv, TypeOK, ReadBegin, writerVars
<1>4. ClaimsBacked'
  BY <1>1, <1>2 DEF Inv, ClaimsBacked, ReadBegin, writerVars
<1> QED BY <1>1, <1>3, <1>4 DEF Inv

LEMMA ReadCopyInv == ASSUME Inv, ReadCopy PROVE Inv'
<1>1. IndexInv' /\ Available' = Available
  BY IndexStep DEF Inv, ReadCopy, writerVars
<1>2. Len(rbuf) \in 0..FrameCount /\ GoodIndex(mFront)
  BY LenProperties, Constants, SMT DEF Inv, TypeOK, IndexInv, ClaimsBacked, ReadCopy
<1>3. mBuffer[SlotOf(mFront, Len(rbuf))] \in Frame
  BY <1>2, SumGood DEF Inv, TypeOK
<1>4. TypeOK'
  BY <1>3, AppendProperties DEF Inv, TypeOK, ReadCopy, writerVars
<1> QED BY <1>1, <1>4 DEF Inv, ClaimsBacked, ReadCopy, writerVars

\* The fill level after a read call has stored mFront.
LEMMA ReadPublishIndex ==
  ASSUME Inv, ReadPublish
  PROVE  IndexInv' /\ Available' = Available - ravail
<1> DEFINE n == ravail
           m == Available - ravail
<1>1. /\ GoodIndex(mFront) /\ GoodIndex(mRear) /\ n \in 0..FrameCount
      /\ m \in 0..FrameCount /\ n + m <= FrameCount /\ n + m = Available
  BY Constants, SMT DEF Inv, TypeOK, IndexInv, ClaimsBacked
<1>2. mFront' = audio_utils_fifo_sum(mFront, n) /\ mRear' = mRear
  BY DEF ReadPublish, writerVars
<1>3. GoodIndex(mFront')
  BY <1>1, <1>2, SumGood
<1> HIDE DEF n, m
<1>4. mRear' = audio_utils_fifo_sum(mFront', m)
  BY <1>1, <1>2, SumOfSum DEF Inv, IndexInv
<1>5. Available' = m
  BY <1>1, <1>3, <1>4, AvailableAfterSum DEF Available
<1> QED BY <1>1, <1>2, <1>3, <1>4, <1>5 DEF IndexInv, GoodIndex, m

LEMMA ReadPublishInv == ASSUME Inv, ReadPublish PROVE Inv'
<1>1. IndexInv' /\ Available' = Available - ravail
  BY ReadPublishIndex
<1>2. TypeOK'
  BY <1>1, SMT DEF Inv, TypeOK, IndexInv, GoodIndex, ReadPublish, writerVars
<1>3. Available' \in 0..FrameCount /\ Available \in 0..FrameCount /\ ravail \in Nat /\ Len(wbuf) \in Nat
  BY <1>1, LenProperties DEF Inv, TypeOK, IndexInv
<1>4. ClaimsBacked'
  BY <1>1, <1>3, Constants, SMT DEF Inv, ClaimsBacked, ReadPublish, writerVars
<1> QED BY <1>1, <1>2, <1>4 DEF Inv

LEMMA StepInv == Inv /\ [Next]_vars => Inv'
<1> SUFFICES ASSUME Inv, [Next]_vars PROVE Inv'
  OBVIOUS
<1>1. ASSUME NEW input \in Calls, WriteBegin(input) PROVE Inv'
  BY <1>1, WriteBeginInv
<1>2. CASE WriteCopy
  BY <1>2, WriteCopyInv
<1>3. CASE WritePublish
  BY <1>3, WritePublishInv
<1>4. ASSUME NEW count \in 0..MaxCall, ReadBegin(count) PROVE Inv'
  BY <1>4, ReadBeginInv
<1>5. CASE ReadCopy
  BY <1>5, ReadCopyInv
<1>6. CASE ReadPublish
  BY <1>6, ReadPublishInv
<1>7. CASE UNCHANGED vars
  <2>1. IndexInv' /\ Available' = Available
    BY <1>7, IndexStep DEF Inv, vars
  <2> QED BY <1>7, <2>1 DEF Inv, TypeOK, ClaimsBacked, vars
<1> QED BY <1>1, <1>2, <1>3, <1>4, <1>5, <1>6, <1>7 DEF Next, Writer, Reader

LEMMA Invariance == Spec => []Inv
  BY InitInv, StepInv, PTL DEF Spec

-----------------------------------------------------------------------------
(* The invariants the runs check.                                          *)

(* Types: mFront and mRear stay in the range of int32_t and the call state *)
(* of both threads is well formed, in every behaviour of the FIFO.         *)
THEOREM TypeCorrectness == Spec => []TypeOK
<1>1. Inv => TypeOK
  BY DEF Inv
<1> QED BY <1>1, Invariance, PTL

(* No assertion of audio_utils_fifo_sum or audio_utils_fifo_diff can fire, *)
(* whatever the frame count and however often the indices wrap.            *)
THEOREM AssertionsAlwaysHold == Spec => []AssertionsHold
<1>1. Inv => AssertionsHold
  <2> SUFFICES ASSUME Inv PROVE AssertionsHold
    OBVIOUS
  <2>1. /\ GoodIndex(mFront) /\ GoodIndex(mRear) /\ Available \in 0..FrameCount
        /\ mRear = audio_utils_fifo_sum(mFront, Available)
    BY DEF Inv, IndexInv
  <2>2. Signed((Gen(mRear) - Gen(mFront)) % IndexRange) \in {0, FrameCountP2}
    BY <2>1, DiffOfSum
  <2> QED BY <2>1, <2>2 DEF AssertionsHold, GoodIndex
<1> QED BY <1>1, Invariance, PTL

(* Claims made at the start of a write or read call stay backed by room or *)
(* frames until the call returns, whatever the other thread does.          *)
THEOREM ClaimsStayBacked == Spec => []ClaimsBacked
<1>1. Inv => ClaimsBacked
  BY DEF Inv
<1> QED BY <1>1, Invariance, PTL

\* A slot a running write call stores to lies behind every published frame.
LEMMA WriteSlotIsFree ==
  ASSUME Inv, NEW i \in 0..(Len(wbuf) - 1), NEW j \in 0..(Available - 1)
  PROVE  SlotOf(mRear, i) # SlotOf(mFront, j)
<1>1. /\ GoodIndex(mFront) /\ Available \in 0..FrameCount /\ i \in 0..FrameCount
      /\ Available + i <= FrameCount /\ Available + i \in 0..(FrameCount - 1)
      /\ j \in 0..(FrameCount - 1) /\ Available + i # j
  BY LenProperties, Constants, SMT DEF Inv, TypeOK, IndexInv, ClaimsBacked
<1>2. SlotOf(mRear, i) = SlotOf(mFront, Available + i)
  BY <1>1, SlotOfSum DEF Inv, IndexInv
<1> QED BY <1>1, <1>2, SlotsDistinct

(* memcpy of a running write call never touches a slot that holds a frame  *)
(* the reader has not released: writer and reader do not race on mBuffer.  *)
THEOREM NeverOverwrites == Spec => []NoOverwrite
<1>1. Inv => NoOverwrite
  <2> SUFFICES ASSUME Inv,
                      NEW i \in wdone..(Len(wbuf) - 1), NEW j \in 0..(Available - 1)
               PROVE  SlotOf(mRear, i) # SlotOf(mFront, j)
    BY DEF NoOverwrite, WriteSlots, LiveSlots
  <2>1. i \in 0..(Len(wbuf) - 1)
    BY LenProperties, SMT DEF Inv, TypeOK
  <2> QED BY <2>1, WriteSlotIsFree
<1> QED BY <1>1, Invariance, PTL

-----------------------------------------------------------------------------
(* The refinement.  Besides Inv it needs to know that what a running write *)
(* call has copied is still in its slots when the call stores mRear.       *)

CopyInv == \A i \in 0..(wdone - 1) : mBuffer[SlotOf(mRear, i)] = wbuf[i + 1]

\* The slots of a running write call, and how they relate to mFront.
LEMMA WriteSlotFacts ==
  ASSUME Inv, NEW i \in 0..(Len(wbuf) - 1)
  PROVE  /\ i \in 0..(FrameCount - 1) /\ i \in 0..FrameCount
         /\ GoodIndex(mRear) /\ SlotOf(mRear, i) \in Slot
         /\ SlotOf(mRear, i) = SlotOf(mFront, Available + i)
<1>1. /\ GoodIndex(mRear) /\ i \in 0..(FrameCount - 1) /\ i \in 0..FrameCount
      /\ GoodIndex(mFront) /\ Available \in 0..FrameCount /\ Available + i <= FrameCount
  BY LenProperties, Constants, SMT DEF Inv, TypeOK, IndexInv, ClaimsBacked
<1>2. SlotOf(mRear, i) \in Slot
  BY <1>1, SumGood
<1>3. SlotOf(mRear, i) = SlotOf(mFront, Available + i)
  BY <1>1, SlotOfSum DEF Inv, IndexInv
<1> QED BY <1>1, <1>2, <1>3

LEMMA InitCopyInv == Init => CopyInv
  BY SMT DEF Init, CopyInv

LEMMA StepCopyInv == Inv /\ CopyInv /\ [Next]_vars => CopyInv'
<1> SUFFICES ASSUME Inv, CopyInv, [Next]_vars PROVE CopyInv'
  OBVIOUS
<1>1. ASSUME NEW input \in Calls, WriteBegin(input) PROVE CopyInv'
  <2>1. wdone' = 0
    BY <1>1 DEF WriteBegin
  <2> QED BY <2>1, SMT DEF CopyInv
<1>2. CASE WriteCopy
  <2> SUFFICES ASSUME NEW i \in 0..(wdone' - 1)
               PROVE  mBuffer'[SlotOf(mRear, i)] = wbuf[i + 1]
    BY <1>2 DEF CopyInv, WriteCopy
  <2>1. /\ wdone' = wdone + 1 /\ wdone \in Nat /\ i \in Nat
        /\ wdone \in 0..(Len(wbuf) - 1) /\ i \in 0..(Len(wbuf) - 1)
        /\ i = wdone \/ i \in 0..(wdone - 1)
    BY <1>2, LenProperties, SMT DEF WriteCopy, Inv, TypeOK
  <2>2. SlotOf(mRear, i) \in Slot /\ SlotOf(mRear, wdone) \in Slot
    BY <2>1, WriteSlotFacts
  <2>3. CASE i = wdone
    BY <1>2, <2>2, <2>3 DEF WriteCopy, Inv, TypeOK
  <2>4. CASE i \in 0..(wdone - 1)
    <3>1. i # wdone
      BY <2>1, <2>4, SMT
    <3>2. SlotOf(mRear, i) # SlotOf(mRear, wdone)
      BY <3>1, <2>1, WriteSlotFacts, SlotsDistinct
    <3> QED BY <1>2, <2>2, <2>4, <3>2 DEF WriteCopy, Inv, TypeOK, CopyInv
  <2> QED BY <2>1, <2>3, <2>4
<1>3. CASE WritePublish
  <2>1. wdone' = 0
    BY <1>3 DEF WritePublish
  <2> QED BY <2>1, SMT DEF CopyInv
<1>4. ASSUME UNCHANGED writerVars PROVE CopyInv'
  BY <1>4 DEF CopyInv, writerVars
<1>5. Reader \/ UNCHANGED vars => UNCHANGED writerVars
  BY DEF Reader, ReadBegin, ReadCopy, ReadPublish, vars, writerVars
<1> QED BY <1>1, <1>2, <1>3, <1>4, <1>5 DEF Next, Writer

LEMMA CopyInvariance == Spec => []CopyInv
  BY InitCopyInv, StepCopyInv, Invariance, PTL DEF Spec

QueueWellFormed ==
  /\ Queue \in Seq(Frame) /\ Len(Queue) = Available /\ Available \in Nat
  /\ \A k \in 1..Available : Queue[k] = mBuffer[SlotOf(mFront, k - 1)]

LEMMA QueueFacts == Inv => QueueWellFormed
<1> SUFFICES ASSUME Inv PROVE QueueWellFormed
  OBVIOUS
<1>1. Available \in 0..FrameCount /\ Available \in Nat /\ GoodIndex(mFront)
  BY Constants, SMT DEF Inv, IndexInv
<1>2. ASSUME NEW k \in 1..Available PROVE mBuffer[SlotOf(mFront, k - 1)] \in Frame
  <2>1. k - 1 \in 0..FrameCount
    BY <1>1, Constants, SMT
  <2> QED BY <1>1, <2>1, SumGood DEF Inv, TypeOK
<1>3. Queue \in [1..Available -> Frame]
  BY <1>2 DEF Queue
<1>4. Queue \in Seq(Frame) /\ DOMAIN Queue = 1..Available
  BY <1>1, <1>3, SeqDef
<1>5. Len(Queue) = Available
  BY <1>1, <1>4, LenProperties, SMT
<1> QED BY <1>1, <1>4, <1>5 DEF Queue, QueueWellFormed

LEMMA QueueFactsNext == Inv' => QueueWellFormed'
  BY QueueFacts, PTL

\* The queue only changes with an index or with a slot that holds one of its
\* frames.
LEMMA QueueUnchanged ==
  ASSUME UNCHANGED <<mFront, mRear, mBuffer>>
  PROVE  Queue' = Queue
  BY DEF Queue, Available

LEMMA InitRefines == Init => Abstract!Init
<1> SUFFICES ASSUME Init PROVE Abstract!Init
  OBVIOUS
<1>1. Inv
  BY InitInv
<1>2. Len(Queue) = Available /\ Queue \in Seq(Frame)
  BY <1>1, QueueFacts DEF QueueWellFormed
<1>3. Available = 0
  <2>1. /\ GoodIndex(0) /\ audio_utils_fifo_sum(0, Available) = 0 /\ Available \in 0..FrameCount
        /\ 0 \in 0..FrameCount
    BY <1>1, Constants, SMT DEF Init, Inv, IndexInv
  <2>2. audio_utils_fifo_diff(0, 0) = Available
    BY <2>1, AvailableAfterSum
  <2>3. Pos(0) = 0
    BY Constants, RemainderSmall, SMT DEF Pos
  <2>4. audio_utils_fifo_sum(0, 0) = 0
    BY <2>1, <2>3, SumInGeneration, Constants, SMT
  <2>5. audio_utils_fifo_diff(0, 0) = 0
    BY <2>1, <2>4, AvailableAfterSum
  <2> QED BY <2>2, <2>5
<1>4. Queue = << >>
  BY <1>2, <1>3, EmptySeq, SMT
<1> QED BY <1>4 DEF Init, Abstract!Init

LEMMA WriteBeginRefines ==
  ASSUME Inv, NEW input \in Calls, WriteBegin(input)
  PROVE  Abstract!WriteBegin(input)
<1>1. Queue' = Queue /\ Len(Queue) = Available
  BY QueueUnchanged, QueueFacts DEF QueueWellFormed, WriteBegin, readerVars
<1> QED BY <1>1 DEF WriteBegin, readerVars, Abstract!WriteBegin, AtMost, Abstract!AtMost

LEMMA WriteCopyRefines ==
  ASSUME Inv, WriteCopy
  PROVE  UNCHANGED <<Queue, wbuf, ravail, rbuf>>
<1>1. wdone \in 0..(Len(wbuf) - 1)
  BY LenProperties, SMT DEF Inv, TypeOK, WriteCopy
<1>2. ASSUME NEW k \in 1..Available
      PROVE  mBuffer'[SlotOf(mFront, k - 1)] = mBuffer[SlotOf(mFront, k - 1)]
  <2>1. k - 1 \in 0..(Available - 1) /\ k - 1 \in 0..FrameCount /\ GoodIndex(mFront)
    BY Constants, SMT DEF Inv, IndexInv
  <2>2. SlotOf(mRear, wdone) # SlotOf(mFront, k - 1)
    BY <1>1, <2>1, WriteSlotIsFree
  <2>3. SlotOf(mFront, k - 1) \in Slot
    BY <2>1, SumGood
  <2> QED BY <2>2, <2>3 DEF WriteCopy, Inv, TypeOK
<1>3. Available' = Available /\ mFront' = mFront
  BY DEF WriteCopy, readerVars, Available
<1>4. Queue' = Queue
  BY <1>2, <1>3 DEF Queue
<1> QED BY <1>4 DEF WriteCopy, readerVars

LEMMA WritePublishRefines ==
  ASSUME Inv, Inv', CopyInv, WritePublish
  PROVE  Abstract!WriteReturn
<1>1. /\ Queue \in Seq(Frame) /\ Len(Queue) = Available /\ Available \in Nat
      /\ \A k \in 1..Available : Queue[k] = mBuffer[SlotOf(mFront, k - 1)]
  BY QueueFacts DEF QueueWellFormed
<1>2. /\ Queue' \in Seq(Frame) /\ Len(Queue') = Available'
      /\ \A k \in 1..Available' : Queue'[k] = mBuffer'[SlotOf(mFront', k - 1)]
  BY QueueFactsNext DEF QueueWellFormed
<1>3. Available' = Available + Len(wbuf) /\ wbuf \in Seq(Frame) /\ Len(wbuf) \in Nat
  BY WritePublishIndex, LenProperties DEF Inv, TypeOK
<1>4. /\ Queue \o wbuf \in Seq(Frame) /\ Len(Queue \o wbuf) = Available + Len(wbuf)
      /\ \A k \in 1..(Available + Len(wbuf)) : (Queue \o wbuf)[k] =
            IF k <= Available THEN Queue[k] ELSE wbuf[k - Available]
  BY <1>1, <1>3, ConcatProperties
<1>5. ASSUME NEW k \in 1..Len(Queue') PROVE Queue'[k] = (Queue \o wbuf)[k]
  <2>1. Queue'[k] = mBuffer[SlotOf(mFront, k - 1)]
    BY <1>2, <1>5 DEF WritePublish, readerVars
  <2>2. CASE k <= Available
    BY <2>1, <2>2, <1>1, <1>2, <1>3, <1>4, SMT
  <2>3. CASE k > Available
    <3> DEFINE i == k - 1 - Available
    <3>1. /\ i \in 0..(Len(wbuf) - 1) /\ i \in 0..(wdone - 1)
          /\ Available + i = k - 1 /\ i + 1 = k - Available
      BY <1>1, <1>2, <1>3, <2>3, SMT DEF WritePublish
    <3>2. SlotOf(mFront, k - 1) = SlotOf(mRear, i)
      BY <3>1, WriteSlotFacts
    <3>3. mBuffer[SlotOf(mRear, i)] = wbuf[k - Available]
      BY <3>1 DEF CopyInv
    <3> QED BY <2>1, <2>3, <3>2, <3>3, <1>1, <1>2, <1>3, <1>4, SMT
  <2> QED BY <2>2, <2>3, <1>1, <1>2, <1>3, SMT
<1>6. Queue' = Queue \o wbuf
  BY <1>2, <1>3, <1>4, <1>5, SeqEqual
<1> QED BY <1>6 DEF WritePublish, readerVars, Abstract!WriteReturn

LEMMA ReadBeginRefines ==
  ASSUME Inv, NEW count \in 0..MaxCall, ReadBegin(count)
  PROVE  Abstract!ReadBegin(count)
<1>1. Queue' = Queue /\ Len(Queue) = Available
  BY QueueUnchanged, QueueFacts DEF QueueWellFormed, ReadBegin, writerVars
<1> QED BY <1>1 DEF ReadBegin, writerVars, Abstract!ReadBegin, AtMost, Abstract!AtMost

LEMMA ReadCopyRefines ==
  ASSUME Inv, ReadCopy
  PROVE  Abstract!ReadFrame
<1>1. Queue' = Queue
  BY QueueUnchanged DEF ReadCopy, writerVars
<1>2. /\ Len(rbuf) \in Nat /\ Len(rbuf) + 1 \in 1..Available /\ Len(rbuf) + 1 - 1 = Len(rbuf)
  BY LenProperties, Constants, SMT DEF Inv, TypeOK, IndexInv, ClaimsBacked, ReadCopy
<1>3. Queue[Len(rbuf) + 1] = mBuffer[SlotOf(mFront, Len(rbuf))]
  BY <1>2, QueueFacts DEF QueueWellFormed
<1> QED BY <1>1, <1>3 DEF ReadCopy, writerVars, Abstract!ReadFrame

LEMMA ReadPublishRefines ==
  ASSUME Inv, Inv', ReadPublish
  PROVE  Abstract!ReadReturn
<1>1. /\ Queue \in Seq(Frame) /\ Len(Queue) = Available /\ Available \in Nat
      /\ \A k \in 1..Available : Queue[k] = mBuffer[SlotOf(mFront, k - 1)]
  BY QueueFacts DEF QueueWellFormed
<1>2. /\ Queue' \in Seq(Frame) /\ Len(Queue') = Available' /\ Available' \in Nat
      /\ \A k \in 1..Available' : Queue'[k] = mBuffer'[SlotOf(mFront', k - 1)]
  BY QueueFactsNext DEF QueueWellFormed
<1>3. /\ Available' = Available - ravail /\ ravail \in Nat
      /\ GoodIndex(mFront) /\ ravail <= Available /\ Available <= FrameCount
  BY ReadPublishIndex, Constants, SMT DEF Inv, TypeOK, IndexInv, ClaimsBacked
<1>4. \A i \in (ravail + 1)..Len(Queue) : Queue[i] \in Frame
  <2> SUFFICES ASSUME NEW i \in (ravail + 1)..Len(Queue) PROVE Queue[i] \in Frame
    OBVIOUS
  <2>1. i \in 1..Len(Queue)
    BY <1>1, <1>3, SMT
  <2> QED BY <1>1, <2>1, ElementOfSeq
<1> DEFINE rest == SubSeq(Queue, ravail + 1, Len(Queue))
<1>5. /\ rest \in Seq(Frame)
      /\ Len(rest) = IF ravail + 1 <= Len(Queue) THEN Len(Queue) - (ravail + 1) + 1 ELSE 0
      /\ \A i \in 1..(Len(Queue) - (ravail + 1) + 1) : rest[i] = Queue[(ravail + 1) + i - 1]
  <2>1. ravail + 1 \in Int /\ Len(Queue) \in Int
    BY <1>1, <1>3, SMT
  <2> QED BY <1>4, <2>1, SubSeqProperties
<1>6. Len(rest) = Available - ravail
  BY <1>1, <1>3, <1>5, SMT
<1>7. ASSUME NEW k \in 1..Len(Queue') PROVE Queue'[k] = rest[k]
  <2>1. /\ k \in Nat /\ k - 1 \in 0..FrameCount /\ ravail \in 0..FrameCount
        /\ ravail + (k - 1) <= FrameCount /\ ravail + k \in 1..Available
        /\ k \in 1..(Len(Queue) - (ravail + 1) + 1) /\ (ravail + 1) + k - 1 = ravail + k
        /\ ravail + (k - 1) = (ravail + k) - 1 /\ k \in 1..Available'
    BY <1>1, <1>2, <1>3, Constants, SMT
  <2>2. Queue'[k] = mBuffer[SlotOf(mFront', k - 1)]
    BY <1>2, <2>1 DEF ReadPublish, writerVars
  <2>3. SlotOf(mFront', k - 1) = SlotOf(mFront, ravail + (k - 1))
    BY <1>3, <2>1, SlotOfSum DEF ReadPublish
  <2>4. rest[k] = Queue[ravail + k]
    BY <1>5, <2>1
  <2>5. Queue[ravail + k] = mBuffer[SlotOf(mFront, (ravail + k) - 1)]
    BY <1>1, <2>1
  <2> QED BY <2>1, <2>2, <2>3, <2>4, <2>5
<1> HIDE DEF rest
<1>8. Queue' = rest
  BY <1>2, <1>3, <1>5, <1>6, <1>7, SeqEqual
<1> QED BY <1>8 DEF rest, ReadPublish, writerVars, Abstract!ReadReturn

LEMMA StepRefines ==
  Inv /\ Inv' /\ CopyInv /\ [Next]_vars => [Abstract!Next]_(Abstract!vars)
<1> SUFFICES ASSUME Inv, Inv', CopyInv, [Next]_vars
             PROVE  [Abstract!Next]_(Abstract!vars)
  OBVIOUS
<1>1. ASSUME NEW input \in Calls, WriteBegin(input) PROVE Abstract!Next
  BY <1>1, WriteBeginRefines DEF Abstract!Next, Calls, Abstract!Calls
<1>2. CASE WriteCopy
  BY <1>2, WriteCopyRefines DEF Abstract!vars
<1>3. CASE WritePublish
  BY <1>3, WritePublishRefines DEF Abstract!Next
<1>4. ASSUME NEW count \in 0..MaxCall, ReadBegin(count) PROVE Abstract!Next
  BY <1>4, ReadBeginRefines DEF Abstract!Next
<1>5. CASE ReadCopy
  BY <1>5, ReadCopyRefines DEF Abstract!Next
<1>6. CASE ReadPublish
  BY <1>6, ReadPublishRefines DEF Abstract!Next
<1>7. CASE UNCHANGED vars
  BY <1>7, QueueUnchanged DEF vars, Abstract!vars
<1> QED BY <1>1, <1>2, <1>3, <1>4, <1>5, <1>6, <1>7 DEF Next, Writer, Reader

(* The index arithmetic, the slots and the two-part memcpy implement the   *)
(* bounded queue of BoundedFifo: frames come out in the order they went in *)
(* and none is lost, repeated or overwritten.                              *)
THEOREM Refinement == Spec => ImplementsBoundedFifo
<1>1. Spec => Abstract!Spec
  BY InitRefines, StepRefines, Invariance, CopyInvariance, PTL DEF Spec, Abstract!Spec
<1> QED BY <1>1 DEF ImplementsBoundedFifo

\* The same of the fifo among the other structures, which leave it alone.
COROLLARY FifoIsBounded == StructuresSpec => ImplementsBoundedFifo
<1>1. StructuresInit => Init
  BY DEF StructuresInit
<1>2. [StructuresNext]_structuresVars => [Next]_vars
  BY DEF StructuresNext, structuresVars
<1> QED BY <1>1, <1>2, Refinement, PTL DEF StructuresSpec, Spec
-----------------------------------------------------------------------------
(* The source table.  Its counters and the addresses of its entries are    *)
(* right after every operation; both need no more than the types of the    *)
(* entries, and that the own entry is in the table.                        *)

Entry ==
  [validated : BOOLEAN, issender : BOOLEAN, receivedbye : BOOLEAN,
   rtpaddr : Hosts \cup {SELF, UNSET}, rtcpaddr : Hosts \cup {SELF, UNSET},
   lastmsg : Nat, lastrtp : Nat, bye : Nat]

IsTable(list) == IsFiniteSet(DOMAIN list) /\ list \in [DOMAIN list -> Entry]

SendersOf(list) == {x \in DOMAIN list : list[x].issender}
ActiveOf(list) == {x \in DOMAIN list : Table!IsActive(list[x])}

\* ObtainSourceDataInstance, in any table
EntryIn(list, x) == IF x \in DOMAIN list THEN list[x] ELSE Table!NewEntry

TableInv ==
  /\ IsTable(sourcelist) /\ owndata \in DOMAIN sourcelist
  /\ Table!CountersMatch /\ Table!OneHostPerSource

\* Two sets that differ in one element at most.
LEMMA CountChanges ==
  ASSUME NEW S, NEW T, NEW x, IsFiniteSet(S), S \ {x} = T \ {x}
  PROVE  /\ IsFiniteSet(T) /\ Cardinality(S) \in Nat /\ Cardinality(T) \in Nat
         /\ Cardinality(T) = (Cardinality(S) - Table!Bit(x \in S)) + Table!Bit(x \in T)
<1>1. IsFiniteSet(S \ {x}) /\ Cardinality(S \ {x}) = Cardinality(S) - Table!Bit(x \in S)
  <2>1. Cardinality(S) \in Nat
    BY FS_CardinalityType
  <2> QED BY <2>1, FS_RemoveElement DEF Table!Bit
<1>2. Cardinality(S) \in Nat /\ Cardinality(S \ {x}) \in Nat
  BY <1>1, FS_CardinalityType
<1>3. CASE x \in T
  <2>1. T = (S \ {x}) \cup {x}
    BY <1>3
  <2>2. x \notin S \ {x}
    OBVIOUS
  <2> QED BY <1>1, <1>2, <1>3, <2>1, <2>2, FS_AddElement DEF Table!Bit
<1>4. CASE x \notin T
  <2>1. T = S \ {x}
    BY <1>4
  <2> QED BY <1>1, <1>2, <1>4, <2>1 DEF Table!Bit
<1> QED BY <1>3, <1>4

LEMMA AgesAreNatural == Table!Cap \in Nat
<1> DEFINE multipliers == {sendermultiplier, membermultiplier, byemultiplier}
<1>1. multipliers \subseteq Nat
  BY TableAssumption
<1>2. \E m \in multipliers : \A n \in multipliers : n <= m
  BY <1>1, SMT
<1>3. (CHOOSE m \in multipliers : \A n \in multipliers : n <= m) \in Nat
  BY <1>1, <1>2
<1> QED BY <1>3 DEF Table!Cap

LEMMA NewEntryTypes ==
  /\ Table!NewEntry \in Entry /\ ~Table!NewEntry.issender /\ ~Table!IsActive(Table!NewEntry)
  /\ Table!OwnEntry \in Entry /\ ~Table!OwnEntry.issender /\ Table!IsActive(Table!OwnEntry)
BY AgesAreNatural DEF Table!NewEntry, Table!OwnEntry, Table!IsActive, Entry

\* An entry is added or changed: after is the table list with e for x.
Written(list, x, e, after) ==
  /\ IsTable(after) /\ DOMAIN after = DOMAIN list \cup {x}
  /\ after[x] = e /\ \A y \in DOMAIN list \ {x} : after[y] = list[y]
  /\ Cardinality(DOMAIN after) = Cardinality(DOMAIN list) + Table!Bit(x \notin DOMAIN list)
  /\ Cardinality(SendersOf(after)) =
       (Cardinality(SendersOf(list)) - Table!Bit(EntryIn(list, x).issender)) + Table!Bit(e.issender)
  /\ Cardinality(ActiveOf(after)) =
       (Cardinality(ActiveOf(list)) - Table!Bit(Table!IsActive(EntryIn(list, x)))) + Table!Bit(Table!IsActive(e))

LEMMA EntryPut ==
  ASSUME NEW list, IsTable(list), NEW x, NEW e \in Entry
  PROVE  Written(list, x, e, Table!Put(list, x, e))
<1> DEFINE after == Table!Put(list, x, e)
<1>1. DOMAIN after = DOMAIN list \cup {x} /\ after \in [DOMAIN list \cup {x} -> Entry] /\ after[x] = e
  BY DEF Table!Put, IsTable
<1>2. \A y \in DOMAIN list \ {x} : after[y] = list[y]
  BY DEF Table!Put
<1> HIDE DEF after
<1>3. IsTable(after) /\ Cardinality(DOMAIN after) = Cardinality(DOMAIN list) + Table!Bit(x \notin DOMAIN list)
  <2>1. IsFiniteSet(DOMAIN list) /\ Cardinality(DOMAIN list) \in Nat
    BY FS_CardinalityType DEF IsTable
  <2> QED BY <1>1, <2>1, FS_AddElement DEF IsTable, Table!Bit
<1>4. /\ IsFiniteSet(SendersOf(list)) /\ SendersOf(list) \ {x} = SendersOf(after) \ {x}
      /\ x \in SendersOf(list) <=> EntryIn(list, x).issender
      /\ x \in SendersOf(after) <=> e.issender
  <2>1. IsFiniteSet(SendersOf(list))
    BY FS_Subset DEF IsTable, SendersOf
  <2> QED BY <1>1, <1>2, <2>1, NewEntryTypes DEF SendersOf, EntryIn
<1>5. /\ IsFiniteSet(ActiveOf(list)) /\ ActiveOf(list) \ {x} = ActiveOf(after) \ {x}
      /\ x \in ActiveOf(list) <=> Table!IsActive(EntryIn(list, x))
      /\ x \in ActiveOf(after) <=> Table!IsActive(e)
  <2>1. IsFiniteSet(ActiveOf(list))
    BY FS_Subset DEF IsTable, ActiveOf
  <2> QED BY <1>1, <1>2, <2>1, NewEntryTypes DEF ActiveOf, EntryIn
<1>6. Cardinality(SendersOf(after)) =
        (Cardinality(SendersOf(list)) - Table!Bit(EntryIn(list, x).issender)) + Table!Bit(e.issender)
  BY <1>4, CountChanges DEF Table!Bit
<1>7. Cardinality(ActiveOf(after)) =
        (Cardinality(ActiveOf(list)) - Table!Bit(Table!IsActive(EntryIn(list, x)))) + Table!Bit(Table!IsActive(e))
  BY <1>5, CountChanges DEF Table!Bit
<1> QED BY <1>1, <1>2, <1>3, <1>6, <1>7 DEF after, Written

\* An entry is taken away.
LEMMA EntryTaken ==
  ASSUME NEW list, IsTable(list), NEW x \in DOMAIN list
  PROVE  LET after == Table!Without(list, x)
         IN  /\ IsTable(after) /\ DOMAIN after = DOMAIN list \ {x}
             /\ \A y \in DOMAIN after : after[y] = list[y]
             /\ Cardinality(DOMAIN after) = Cardinality(DOMAIN list) - 1
             /\ Cardinality(SendersOf(after)) = Cardinality(SendersOf(list)) - Table!Bit(list[x].issender)
             /\ Cardinality(ActiveOf(after)) =
                  Cardinality(ActiveOf(list)) - Table!Bit(Table!IsActive(list[x]))
<1> DEFINE after == Table!Without(list, x)
<1>1. DOMAIN after = DOMAIN list \ {x} /\ after \in [DOMAIN list \ {x} -> Entry]
      /\ \A y \in DOMAIN after : after[y] = list[y]
  BY DEF Table!Without, IsTable
<1> HIDE DEF after
<1>2. IsTable(after) /\ Cardinality(DOMAIN after) = Cardinality(DOMAIN list) - 1
  BY <1>1, FS_RemoveElement, FS_CardinalityType DEF IsTable
<1>3. /\ IsFiniteSet(SendersOf(list)) /\ SendersOf(list) \ {x} = SendersOf(after) \ {x}
      /\ x \in SendersOf(list) <=> list[x].issender
      /\ x \notin SendersOf(after)
  <2>1. IsFiniteSet(SendersOf(list))
    BY FS_Subset DEF IsTable, SendersOf
  <2> QED BY <1>1, <2>1 DEF SendersOf
<1>4. /\ IsFiniteSet(ActiveOf(list)) /\ ActiveOf(list) \ {x} = ActiveOf(after) \ {x}
      /\ x \in ActiveOf(list) <=> Table!IsActive(list[x])
      /\ x \notin ActiveOf(after)
  <2>1. IsFiniteSet(ActiveOf(list))
    BY FS_Subset DEF IsTable, ActiveOf
  <2> QED BY <1>1, <2>1 DEF ActiveOf
<1>5. Cardinality(SendersOf(after)) = Cardinality(SendersOf(list)) - Table!Bit(list[x].issender)
  BY <1>3, CountChanges DEF Table!Bit
<1>6. Cardinality(ActiveOf(after)) = Cardinality(ActiveOf(list)) - Table!Bit(Table!IsActive(list[x]))
  BY <1>4, CountChanges DEF Table!Bit
<1> QED BY <1>1, <1>2, <1>5, <1>6 DEF after

-----------------------------------------------------------------------------
(* The operations.                                                         *)

\* The hosts an entry has been heard from.
HostsOf(e) == {e.rtpaddr, e.rtcpaddr} \ {UNSET}

\* What OneHostPerSource says of one entry.
OneHost(e, own) == IF own THEN HostsOf(e) = {SELF} ELSE \E h \in Hosts : HostsOf(e) = {h}

LEMMA OneHostByEntry ==
  Table!OneHostPerSource <=> \A x \in DOMAIN sourcelist : OneHost(sourcelist[x], x = owndata)
BY DEF Table!OneHostPerSource, OneHost, HostsOf

\* Same, after a step.
LEMMA OneHostByEntryAfter ==
  Table!OneHostPerSource' <=> \A x \in DOMAIN sourcelist' : OneHost(sourcelist'[x], x = owndata')
BY DEF Table!OneHostPerSource, OneHost, HostsOf

LEMMA SameCardinality == \A S : Table!Cardinality(S) = Cardinality(S)
BY DEF Table!Cardinality, Cardinality

LEMMA CountersAfter ==
  Table!CountersMatch' <=>
    /\ totalcount' = Cardinality(DOMAIN sourcelist')
    /\ sendercount' = Cardinality(SendersOf(sourcelist'))
    /\ activecount' = Cardinality(ActiveOf(sourcelist'))
BY SameCardinality DEF Table!CountersMatch, SendersOf, ActiveOf

LEMMA CountersBefore ==
  ASSUME TableInv
  PROVE  /\ totalcount = Cardinality(DOMAIN sourcelist) /\ totalcount \in Nat
         /\ sendercount = Cardinality(SendersOf(sourcelist)) /\ sendercount \in Nat
         /\ activecount = Cardinality(ActiveOf(sourcelist)) /\ activecount \in Nat
<1>1. IsFiniteSet(DOMAIN sourcelist) /\ IsFiniteSet(SendersOf(sourcelist)) /\ IsFiniteSet(ActiveOf(sourcelist))
  BY FS_Subset DEF TableInv, IsTable, SendersOf, ActiveOf
<1> QED BY <1>1, FS_CardinalityType, SameCardinality DEF TableInv, Table!CountersMatch, SendersOf, ActiveOf

LEMMA TableInit == Table!Init => TableInv
<1> SUFFICES ASSUME Table!Init PROVE TableInv
  OBVIOUS
<1> DEFINE none == <<>>
<1>1. IsTable(none) /\ DOMAIN none = {}
  <2>1. DOMAIN none = {}
    BY SMT
  <2> QED BY <2>1, FS_EmptySet DEF IsTable
<1>2. SendersOf(none) = {} /\ ActiveOf(none) = {}
  BY <1>1 DEF SendersOf, ActiveOf
<1>3. sourcelist = Table!Put(none, owndata, Table!OwnEntry) /\ totalcount = 1 /\ sendercount = 0 /\ activecount = 1
  BY DEF Table!Init
<1> HIDE DEF none
<1>4. /\ IsTable(sourcelist) /\ DOMAIN sourcelist = {owndata} /\ sourcelist[owndata] = Table!OwnEntry
      /\ Cardinality(DOMAIN sourcelist) = 1
      /\ Cardinality(SendersOf(sourcelist)) = 0 /\ Cardinality(ActiveOf(sourcelist)) = 1
  <2>1. Written(none, owndata, Table!OwnEntry, sourcelist)
    BY <1>1, <1>3, EntryPut, NewEntryTypes
  <2>2. EntryIn(none, owndata) = Table!NewEntry
    BY <1>1 DEF EntryIn
  <2>3. /\ Table!Bit(Table!NewEntry.issender) = 0 /\ Table!Bit(Table!IsActive(Table!NewEntry)) = 0
        /\ Table!Bit(Table!OwnEntry.issender) = 0 /\ Table!Bit(Table!IsActive(Table!OwnEntry)) = 1
        /\ Table!Bit(owndata \notin DOMAIN none) = 1
    BY <1>1, NewEntryTypes DEF Table!Bit
  <2> QED BY <1>1, <1>2, <2>1, <2>2, <2>3, FS_EmptySet DEF Written
<1>5. Table!CountersMatch
  BY <1>3, <1>4, SameCardinality DEF Table!CountersMatch, SendersOf, ActiveOf
<1>6. Table!OneHostPerSource
  <2>1. OneHost(Table!OwnEntry, TRUE)
    BY TableAssumption DEF OneHost, HostsOf, Table!OwnEntry, Table!NewEntry
  <2> QED BY <1>4, <2>1, OneHostByEntry
<1> QED BY <1>4, <1>5, <1>6 DEF TableInv

\* The session takes another SSRC.
LEMMA ChangeKeeps ==
  ASSUME TableInv, NEW new, new \notin DOMAIN sourcelist, Table!ChangeSSRC(new)
  PROVE  TableInv'
<1> DEFINE rest == Table!Without(sourcelist, owndata)
<1>1. /\ IsTable(rest) /\ DOMAIN rest = DOMAIN sourcelist \ {owndata}
      /\ \A y \in DOMAIN rest : rest[y] = sourcelist[y]
      /\ Cardinality(DOMAIN rest) = Cardinality(DOMAIN sourcelist) - 1
      /\ Cardinality(SendersOf(rest)) =
           Cardinality(SendersOf(sourcelist)) - Table!Bit(sourcelist[owndata].issender)
      /\ Cardinality(ActiveOf(rest)) =
           Cardinality(ActiveOf(sourcelist)) - Table!Bit(Table!IsActive(sourcelist[owndata]))
  BY EntryTaken DEF TableInv
<1>2. /\ sourcelist' = Table!Put(rest, new, Table!OwnEntry) /\ owndata' = new
      /\ totalcount' = (totalcount - 1) + 1
      /\ sendercount' = sendercount - Table!Bit(sourcelist[owndata].issender)
      /\ activecount' = (activecount - Table!Bit(Table!IsActive(sourcelist[owndata]))) + 1
  BY DEF Table!ChangeSSRC
<1> HIDE DEF rest
<1>3. Written(rest, new, Table!OwnEntry, sourcelist')
  BY <1>1, <1>2, EntryPut, NewEntryTypes
<1>4. Table!CountersMatch'
  <2>1. new \notin DOMAIN rest
    BY <1>1
  <2>2. /\ Table!Bit(EntryIn(rest, new).issender) = 0 /\ Table!Bit(Table!IsActive(EntryIn(rest, new))) = 0
        /\ Table!Bit(Table!OwnEntry.issender) = 0 /\ Table!Bit(Table!IsActive(Table!OwnEntry)) = 1
        /\ Table!Bit(new \notin DOMAIN rest) = 1
    BY <2>1, NewEntryTypes DEF Table!Bit, EntryIn
  <2>3. Table!Bit(sourcelist[owndata].issender) \in Int /\ Table!Bit(Table!IsActive(sourcelist[owndata])) \in Int
    BY DEF Table!Bit
  <2> QED BY <1>1, <1>2, <1>3, <2>2, <2>3, CountersAfter, CountersBefore DEF Written
<1>5. Table!OneHostPerSource'
  <2>1. OneHost(Table!OwnEntry, TRUE)
    BY TableAssumption DEF OneHost, HostsOf, Table!OwnEntry, Table!NewEntry
  <2>2. \A y \in DOMAIN sourcelist \ {owndata} : OneHost(sourcelist[y], FALSE)
    BY OneHostByEntry DEF TableInv, OneHost
  <2>3. \A y \in DOMAIN sourcelist' \ {new} : OneHost(sourcelist'[y], FALSE)
    BY <1>1, <1>3, <2>2 DEF Written
  <2> QED BY <1>2, <1>3, <2>1, <2>3, OneHostByEntryAfter DEF OneHost, Written
<1> QED BY <1>2, <1>3, <1>4, <1>5 DEF TableInv, Written

LEMMA CollisionKeeps ==
  ASSUME TableInv, NEW x, Table!OwnCollision(x)
  PROVE  TableInv'
BY ChangeKeeps DEF Table!OwnCollision

\* The session's own entry stands for itself: it takes no packet of a host.
LEMMA OwnEntryCollides ==
  ASSUME TableInv, NEW host \in Hosts, NEW isrtp \in BOOLEAN
  PROVE  Table!CheckCollision(Table!Obtained(owndata), host, isrtp)
<1>1. Table!Obtained(owndata) = sourcelist[owndata] /\ HostsOf(sourcelist[owndata]) = {SELF}
  BY OneHostByEntry DEF TableInv, Table!Obtained, OneHost
<1> QED BY <1>1, TableAssumption DEF Table!CheckCollision, HostsOf

\* Any entry that takes a packet of a host is of no other host.
LEMMA TakesOneHost ==
  ASSUME TableInv, NEW x, NEW host \in Hosts, NEW isrtp \in BOOLEAN,
         ~Table!CheckCollision(Table!Obtained(x), host, isrtp)
  PROVE  /\ x # owndata
         /\ Table!Obtained(x) \in Entry
         /\ HostsOf(Table!Obtained(x)) \subseteq {host}
<1>1. x # owndata
  BY OwnEntryCollides
<1>2. Table!Obtained(x) \in Entry
  BY NewEntryTypes DEF TableInv, IsTable, Table!Obtained
<1>3. CASE x \in DOMAIN sourcelist
  <2>1. PICK h \in Hosts : HostsOf(sourcelist[x]) = {h}
    BY <1>1, <1>3, OneHostByEntry DEF TableInv, OneHost
  <2> QED BY <1>1, <1>2, <1>3, <2>1 DEF Table!Obtained, Table!CheckCollision, HostsOf
<1>4. CASE x \notin DOMAIN sourcelist
  <2>1. HostsOf(Table!Obtained(x)) = {}
    BY <1>4 DEF Table!Obtained, Table!NewEntry, HostsOf
  <2> QED BY <1>1, <1>2, <2>1
<1> QED BY <1>3, <1>4

\* An entry is written that has been heard from one host.
LEMMA WriteKeeps ==
  ASSUME TableInv, NEW x, x # owndata, NEW e \in Entry, NEW h \in Hosts, HostsOf(e) = {h},
         sourcelist' = Table!Put(sourcelist, x, e), owndata' = owndata,
         totalcount' = Table!Total(x),
         sendercount' = (sendercount - Table!Bit(EntryIn(sourcelist, x).issender)) + Table!Bit(e.issender),
         activecount' =
           (activecount - Table!Bit(Table!IsActive(EntryIn(sourcelist, x)))) + Table!Bit(Table!IsActive(e))
  PROVE  TableInv'
<1>1. Written(sourcelist, x, e, sourcelist')
  BY EntryPut DEF TableInv
<1>2. Table!CountersMatch'
  BY <1>1, CountersAfter, CountersBefore DEF Table!Total, Written
<1>3. Table!OneHostPerSource'
  <2>1. OneHost(e, FALSE)
    BY DEF OneHost
  <2>2. \A y \in DOMAIN sourcelist : OneHost(sourcelist[y], y = owndata)
    BY OneHostByEntry DEF TableInv
  <2> QED BY <1>1, <2>1, <2>2, OneHostByEntryAfter DEF OneHost, Written
<1> QED BY <1>1, <1>2, <1>3 DEF TableInv, Written

LEMMA BitIsZeroOrOne == \A b \in BOOLEAN : Table!Bit(b) \in {0, 1} /\ (b <=> Table!Bit(b) = 1)
BY DEF Table!Bit

\* What was obtained is an entry like any other.
LEMMA ObtainedIsEntry ==
  ASSUME TableInv, NEW x
  PROVE  Table!Obtained(x) = EntryIn(sourcelist, x) /\ Table!Obtained(x) \in Entry
BY NewEntryTypes DEF TableInv, IsTable, Table!Obtained, EntryIn

LEMMA ReceiveRTPKeeps ==
  ASSUME TableInv, NEW x, NEW host \in Hosts, NEW over \in BOOLEAN, Table!ReceiveRTP(x, host, over)
  PROVE  TableInv'
<1>1. CASE Table!OwnCollision(x)
  BY <1>1, CollisionKeeps
<1>2. CASE ~Table!OwnCollision(x)
  <2> DEFINE prev == Table!Obtained(x)
             e == Table!ProcessRTPPacket(prev, host, over)
  <2>1. /\ ~Table!CheckCollision(prev, host, TRUE)
        /\ sourcelist' = Table!Put(sourcelist, x, e) /\ totalcount' = Table!Total(x)
        /\ sendercount' = sendercount + Table!Bit(~prev.issender /\ e.issender)
        /\ activecount' = activecount + Table!Bit(~Table!IsActive(prev) /\ Table!IsActive(e))
        /\ owndata' = owndata
    BY <1>2 DEF Table!ReceiveRTP
  <2>2. x # owndata /\ prev \in Entry /\ HostsOf(prev) \subseteq {host}
    BY <2>1, TakesOneHost
  <2>3. /\ e \in Entry /\ HostsOf(e) = {host}
        /\ prev.issender => e.issender
        /\ Table!IsActive(prev) => Table!IsActive(e)
        /\ {prev.issender, e.issender, Table!IsActive(prev), Table!IsActive(e)} \subseteq BOOLEAN
    BY <2>2, TableAssumption DEF Table!ProcessRTPPacket, Entry, HostsOf, Table!IsActive
  <2> HIDE DEF e, prev
  <2>4. /\ Table!Bit(~prev.issender /\ e.issender) = Table!Bit(e.issender) - Table!Bit(prev.issender)
        /\ Table!Bit(~Table!IsActive(prev) /\ Table!IsActive(e)) =
             Table!Bit(Table!IsActive(e)) - Table!Bit(Table!IsActive(prev))
    BY <2>3 DEF Table!Bit
  <2>5. /\ sendercount' = (sendercount - Table!Bit(prev.issender)) + Table!Bit(e.issender)
        /\ activecount' = (activecount - Table!Bit(Table!IsActive(prev))) + Table!Bit(Table!IsActive(e))
    <3>1. {Table!Bit(e.issender), Table!Bit(prev.issender), Table!Bit(Table!IsActive(e)),
           Table!Bit(Table!IsActive(prev))} \subseteq Int
      BY <2>3, BitIsZeroOrOne
    <3> QED BY <2>1, <2>4, <3>1, CountersBefore
  <2>6. prev = EntryIn(sourcelist, x)
    BY ObtainedIsEntry DEF prev
  <2> QED BY <2>1, <2>2, <2>3, <2>5, <2>6, WriteKeeps
<1> QED BY <1>1, <1>2

LEMMA ReceiveReportKeeps ==
  ASSUME TableInv, NEW x, NEW host \in Hosts, Table!ReceiveReport(x, host)
  PROVE  TableInv'
<1>1. CASE Table!OwnCollision(x)
  BY <1>1, CollisionKeeps
<1>2. CASE ~Table!OwnCollision(x)
  <2> DEFINE prev == Table!Obtained(x)
             e == Table!ProcessReport(prev, host)
  <2>1. /\ ~Table!CheckCollision(prev, host, FALSE)
        /\ sourcelist' = Table!Put(sourcelist, x, e) /\ totalcount' = Table!Total(x)
        /\ sendercount' = sendercount
        /\ activecount' = activecount + Table!Bit(~Table!IsActive(prev) /\ Table!IsActive(e))
        /\ owndata' = owndata
    BY <1>2 DEF Table!ReceiveReport
  <2>2. x # owndata /\ prev \in Entry /\ HostsOf(prev) \subseteq {host}
    BY <2>1, TakesOneHost
  <2>3. /\ e \in Entry /\ HostsOf(e) = {host}
        /\ e.issender = prev.issender
        /\ Table!IsActive(prev) => Table!IsActive(e)
        /\ {prev.issender, e.issender, Table!IsActive(prev), Table!IsActive(e)} \subseteq BOOLEAN
    BY <2>2, TableAssumption DEF Table!ProcessReport, Entry, HostsOf, Table!IsActive
  <2> HIDE DEF e, prev
  <2>4. Table!Bit(~Table!IsActive(prev) /\ Table!IsActive(e)) =
          Table!Bit(Table!IsActive(e)) - Table!Bit(Table!IsActive(prev))
    BY <2>3 DEF Table!Bit
  <2>5. /\ sendercount' = (sendercount - Table!Bit(prev.issender)) + Table!Bit(e.issender)
        /\ activecount' = (activecount - Table!Bit(Table!IsActive(prev))) + Table!Bit(Table!IsActive(e))
    <3>1. {Table!Bit(e.issender), Table!Bit(prev.issender), Table!Bit(Table!IsActive(e)),
           Table!Bit(Table!IsActive(prev))} \subseteq Int /\ Table!Bit(e.issender) = Table!Bit(prev.issender)
      BY <2>3, BitIsZeroOrOne
    <3> QED BY <2>1, <2>4, <3>1, CountersBefore
  <2>6. prev = EntryIn(sourcelist, x)
    BY ObtainedIsEntry DEF prev
  <2> QED BY <2>1, <2>2, <2>3, <2>5, <2>6, WriteKeeps
<1> QED BY <1>1, <1>2

LEMMA ReceiveBYEKeeps ==
  ASSUME TableInv, NEW x, NEW host \in Hosts, Table!ReceiveBYE(x, host)
  PROVE  TableInv'
<1>1. CASE Table!OwnCollision(x)
  BY <1>1, CollisionKeeps
<1>2. CASE ~Table!OwnCollision(x)
  <2> DEFINE prev == Table!Obtained(x)
             heard == Table!ProcessReport(prev, host)
             e == [heard EXCEPT !.receivedbye = TRUE, !.bye = 0]
  <2>1. /\ ~Table!CheckCollision(prev, host, FALSE)
        /\ sourcelist' = Table!Put(sourcelist, x, e) /\ totalcount' = Table!Total(x)
        /\ sendercount' = sendercount
        /\ activecount' = activecount + Table!Bit(~Table!IsActive(prev) /\ Table!IsActive(heard))
                            - Table!Bit(Table!IsActive(heard) /\ ~Table!IsActive(e))
        /\ owndata' = owndata
    BY <1>2 DEF Table!ReceiveBYE
  <2>2. x # owndata /\ prev \in Entry /\ HostsOf(prev) \subseteq {host}
    BY <2>1, TakesOneHost
  <2>3. heard \in Entry /\ HostsOf(heard) = {host} /\ heard.issender = prev.issender
        /\ (Table!IsActive(prev) => Table!IsActive(heard))
    BY <2>2, TableAssumption DEF Table!ProcessReport, Entry, HostsOf, Table!IsActive
  <2> HIDE DEF heard
  <2>4. /\ e \in Entry /\ HostsOf(e) = {host} /\ e.issender = prev.issender /\ ~Table!IsActive(e)
        /\ {prev.issender, e.issender, Table!IsActive(prev), Table!IsActive(e), Table!IsActive(heard)}
             \subseteq BOOLEAN
    BY <2>2, <2>3 DEF Entry, HostsOf, Table!IsActive
  <2> HIDE DEF e, prev
  <2>5. /\ Table!Bit(~Table!IsActive(prev) /\ Table!IsActive(heard)) =
             Table!Bit(Table!IsActive(heard)) - Table!Bit(Table!IsActive(prev))
        /\ Table!Bit(Table!IsActive(heard) /\ ~Table!IsActive(e)) = Table!Bit(Table!IsActive(heard))
        /\ Table!Bit(Table!IsActive(e)) = 0
    BY <2>3, <2>4 DEF Table!Bit
  <2>6. /\ sendercount' = (sendercount - Table!Bit(prev.issender)) + Table!Bit(e.issender)
        /\ activecount' = (activecount - Table!Bit(Table!IsActive(prev))) + Table!Bit(Table!IsActive(e))
    <3>1. {Table!Bit(e.issender), Table!Bit(prev.issender), Table!Bit(Table!IsActive(heard)),
           Table!Bit(Table!IsActive(prev))} \subseteq Int /\ Table!Bit(e.issender) = Table!Bit(prev.issender)
      BY <2>4, BitIsZeroOrOne
    <3> QED BY <2>1, <2>5, <3>1, CountersBefore
  <2>7. prev = EntryIn(sourcelist, x)
    BY ObtainedIsEntry DEF prev
  <2> QED BY <2>1, <2>2, <2>4, <2>6, <2>7, WriteKeeps
<1> QED BY <1>1, <1>2

LEMMA SentRTPKeeps ==
  ASSUME TableInv, Table!SentRTPPacket
  PROVE  TableInv'
<1> DEFINE own == sourcelist[owndata]
           e == [own EXCEPT !.issender = TRUE, !.lastrtp = 0, !.lastmsg = 0]
<1>1. own \in Entry /\ HostsOf(own) = {SELF}
  BY OneHostByEntry DEF TableInv, IsTable, OneHost
<1>2. /\ e \in Entry /\ HostsOf(e) = {SELF} /\ e.issender = TRUE /\ own.issender \in BOOLEAN
      /\ Table!IsActive(e) = Table!IsActive(own) /\ Table!IsActive(own) \in BOOLEAN
  BY <1>1 DEF Entry, HostsOf, Table!IsActive
<1>3. sourcelist' = Table!Put(sourcelist, owndata, e)
  <2>1. sourcelist \in [DOMAIN sourcelist -> Entry] /\ owndata \in DOMAIN sourcelist
    BY DEF TableInv, IsTable
  <2>2. sourcelist' = [sourcelist EXCEPT ![owndata] = e]
    BY Zenon, <2>1, <1>1 DEF Table!SentRTPPacket
  <2> QED BY <2>1, <2>2 DEF Table!Put
<1> HIDE DEF e
<1>4. Written(sourcelist, owndata, e, sourcelist') /\ EntryIn(sourcelist, owndata) = own
  BY <1>2, <1>3, EntryPut DEF TableInv, EntryIn
<1>5. /\ sendercount' = sendercount + Table!Bit(~own.issender) /\ owndata' = owndata
      /\ totalcount' = totalcount /\ activecount' = activecount
  BY DEF Table!SentRTPPacket
<1>6. /\ Table!Bit(~own.issender) = Table!Bit(e.issender) - Table!Bit(own.issender)
      /\ Table!Bit(own.issender) \in Int /\ Table!Bit(e.issender) \in Int
      /\ Table!Bit(Table!IsActive(e)) = Table!Bit(Table!IsActive(own)) /\ Table!Bit(Table!IsActive(own)) \in Int
      /\ Table!Bit(owndata \notin DOMAIN sourcelist) = 0
  BY <1>2 DEF Table!Bit, TableInv
<1> HIDE DEF own
<1>7. Table!CountersMatch'
  BY <1>4, <1>5, <1>6, CountersAfter, CountersBefore DEF Written
<1>8. Table!OneHostPerSource'
  <2>1. OneHost(e, TRUE)
    BY <1>2 DEF OneHost
  <2>2. \A y \in DOMAIN sourcelist : OneHost(sourcelist[y], y = owndata)
    BY OneHostByEntry DEF TableInv
  <2>3. \A y \in DOMAIN sourcelist' : y = owndata \/ (y \in DOMAIN sourcelist /\ sourcelist'[y] = sourcelist[y])
    BY <1>4 DEF Written
  <2>4. sourcelist'[owndata] = e
    BY <1>4 DEF Written
  <2> QED BY <1>5, <2>1, <2>2, <2>3, <2>4, OneHostByEntryAfter
<1> QED BY <1>4, <1>5, <1>7, <1>8 DEF TableInv, Written

\* One pass counts anew whatever it leaves.
LEMMA TimeoutsKeep ==
  ASSUME TableInv, Table!MultipleTimeouts
  PROVE  TableInv'
<1> DEFINE gone == {x \in DOMAIN sourcelist \ {owndata} :
                      Table!ByeTimeout(sourcelist[x]) \/ Table!NormalTimeout(sourcelist[x])}
           list == [x \in DOMAIN sourcelist \ gone |->
                      [sourcelist[x] EXCEPT !.issender = @ /\ ~Table!SenderTimeout(sourcelist[x])]]
<1>1. /\ sourcelist' = list /\ totalcount' = Cardinality(DOMAIN list)
      /\ sendercount' = Cardinality(Table!StillSenders(list))
      /\ activecount' = Cardinality({x \in DOMAIN list : Table!IsActive(sourcelist[x])})
      /\ owndata' = owndata
  BY SameCardinality DEF Table!MultipleTimeouts
<1>2. DOMAIN list \subseteq DOMAIN sourcelist /\ owndata \in DOMAIN list
  BY DEF TableInv
<1>3. ASSUME NEW x \in DOMAIN list
      PROVE  /\ list[x] \in Entry /\ HostsOf(list[x]) = HostsOf(sourcelist[x])
             /\ Table!IsActive(list[x]) = Table!IsActive(sourcelist[x])
  <2>1. /\ sourcelist[x] \in Entry
        /\ list[x] = [sourcelist[x] EXCEPT !.issender = @ /\ ~Table!SenderTimeout(sourcelist[x])]
    BY <1>2 DEF TableInv, IsTable
  <2> HIDE DEF list
  <2> QED BY <2>1 DEF Entry, HostsOf, Table!IsActive
<1>4. list \in [DOMAIN list -> Entry]
  BY <1>3
<1> HIDE DEF list
<1>5. IsTable(list)
  BY <1>2, <1>4, FS_Subset DEF TableInv, IsTable
<1>6. SendersOf(list) = Table!StillSenders(list) /\ ActiveOf(list) = {x \in DOMAIN list : Table!IsActive(sourcelist[x])}
  BY <1>3 DEF SendersOf, ActiveOf, Table!StillSenders
<1>7. Table!CountersMatch'
  BY <1>1, <1>6, CountersAfter
<1>8. Table!OneHostPerSource'
  <2>1. \A x \in DOMAIN list : OneHost(list[x], x = owndata)
    BY <1>2, <1>3, OneHostByEntry DEF TableInv, OneHost
  <2> QED BY <1>1, <2>1, OneHostByEntryAfter
<1> QED BY <1>1, <1>2, <1>5, <1>7, <1>8 DEF TableInv

LEMMA TickKeeps ==
  ASSUME TableInv, Table!Tick
  PROVE  TableInv'
<1> DEFINE older(e) == [e EXCEPT !.lastmsg = Table!Older(@), !.lastrtp = Table!Older(@),
                                 !.bye = IF e.receivedbye THEN Table!Older(@) ELSE @]
<1>0. sourcelist' = [x \in DOMAIN sourcelist |-> older(sourcelist[x])]
  BY Zenon DEF Table!Tick
<1>1. /\ owndata' = owndata /\ totalcount' = totalcount /\ sendercount' = sendercount
      /\ activecount' = activecount
  BY Zenon DEF Table!Tick, Table!counters
<1>2. \A age \in Nat : Table!Older(age) \in Nat
  BY AgesAreNatural DEF Table!Older
<1>3. DOMAIN sourcelist' = DOMAIN sourcelist
  <2> HIDE DEF older
  <2> QED BY <1>0
<1>4. ASSUME NEW x \in DOMAIN sourcelist
      PROVE  /\ sourcelist'[x] \in Entry /\ HostsOf(sourcelist'[x]) = HostsOf(sourcelist[x])
             /\ Table!IsActive(sourcelist'[x]) = Table!IsActive(sourcelist[x])
             /\ sourcelist'[x].issender = sourcelist[x].issender
  <2>1. sourcelist[x] \in Entry
    BY DEF TableInv, IsTable
  <2>2. sourcelist'[x] = older(sourcelist[x])
    BY Zenon, <1>0
  <2> QED BY <1>2, <2>1, <2>2 DEF Entry, HostsOf, Table!IsActive
<1>5. IsTable(sourcelist')
  <2>1. sourcelist' = [x \in DOMAIN sourcelist |-> sourcelist'[x]]
    <3> HIDE DEF older
    <3> QED BY <1>0
  <2> QED BY <1>3, <1>4, <2>1 DEF TableInv, IsTable
<1>6. SendersOf(sourcelist') = SendersOf(sourcelist) /\ ActiveOf(sourcelist') = ActiveOf(sourcelist)
  BY <1>3, <1>4 DEF SendersOf, ActiveOf
<1>7. Table!CountersMatch'
  BY <1>1, <1>3, <1>6, CountersAfter, CountersBefore
<1>8. Table!OneHostPerSource'
  <2>1. \A x \in DOMAIN sourcelist : OneHost(sourcelist'[x], x = owndata)
    BY <1>4, OneHostByEntry DEF TableInv, OneHost
  <2> QED BY <1>1, <1>3, <2>1, OneHostByEntryAfter
<1> QED BY <1>1, <1>3, <1>5, <1>7, <1>8 DEF TableInv

LEMMA TableStep == TableInv /\ (Table!Next \/ UNCHANGED tableVars) => TableInv'
<1> SUFFICES ASSUME TableInv, Table!Next \/ UNCHANGED tableVars PROVE TableInv'
  OBVIOUS
<1>1. CASE \E x \in Ssrcs, host \in Hosts : Table!Receive(x, host)
  BY <1>1, ReceiveRTPKeeps, ReceiveReportKeeps, ReceiveBYEKeeps DEF Table!Receive
<1>2. CASE Table!SentRTPPacket \/ Table!MultipleTimeouts \/ Table!Tick
  BY <1>2, SentRTPKeeps, TimeoutsKeep, TickKeeps
<1>3. CASE UNCHANGED tableVars
  <2>1. UNCHANGED <<sourcelist, owndata, totalcount, sendercount, activecount>>
    BY <1>3 DEF tableVars
  <2>2. Table!CountersMatch'
    BY <2>1, CountersAfter, CountersBefore
  <2>3. Table!OneHostPerSource'
    BY <2>1, OneHostByEntry, OneHostByEntryAfter DEF TableInv
  <2> QED BY <2>1, <2>2, <2>3 DEF TableInv
<1> QED BY <1>1, <1>2, <1>3 DEF Table!Next

\* The entries of the table and its counters, through all operations: for any
\* hosts, SSRCs and time-outs the counters are those of the table, and no
\* entry mixes packets of two hosts.
THEOREM SourcesAreConsistent == StructuresSpec => []SourcesConsistent
<1>1. StructuresInit => TableInv
  BY TableInit DEF StructuresInit
<1>2. TableInv /\ [StructuresNext]_structuresVars => TableInv'
  BY TableStep DEF StructuresNext, structuresVars
<1>3. TableInv => SourcesConsistent
  BY DEF TableInv, SourcesConsistent
<1> QED BY <1>1, <1>2, <1>3, PTL DEF StructuresSpec
-----------------------------------------------------------------------------
(* The creation of a session.  NothingLeft says nothing of a session that  *)
(* is being created; the invariant says what it has before each step, and  *)
(* that is what the step gives back if it fails.                           *)

\* What a session has before each of the steps of Create.
PartsBefore(k) ==
  (IF k > 2 THEN {"rtpsock"} ELSE {}) \cup (IF k > 3 THEN {"rtcpsock"} ELSE {})
    \cup (IF k > 7 THEN {"localIPs"} ELSE {}) \cup (IF k > 8 THEN {"abortdesc"} ELSE {})
    \cup (IF k > 10 THEN {"packetbuilder"} ELSE {}) \cup (IF k > 11 THEN {"ownssrc"} ELSE {})
    \cup (IF k > 14 THEN {"rtcpbuilder"} ELSE {}) \cup (IF k > 17 THEN {"pollthread"} ELSE {})

CreationInv ==
  /\ step \in [Sessions -> 0 .. 17] /\ created \subseteq Sessions
  /\ held \in [Sessions -> SUBSET PartsBefore(18)]
  /\ boundTo \in [Creation!Ports -> Sessions \cup {FREE}]
  /\ DOMAIN status = Sessions
  /\ \A s \in Sessions :
       /\ status[s] # "alreadyinitialised"
       /\ step[s] > 0 => s \notin created
       /\ s \notin created => held[s] = PartsBefore(step[s])
       /\ \A p \in Creation!Ports : boundTo[p] = s =>
            /\ s \in created \/ step[s] > 5
            /\ p # Portbase[s] => s \in created \/ step[s] > 6

\* What a step takes is what the next one finds; what it gives back is all of it.
StepFits(k, one) ==
  /\ PartsBefore(k) \cup one.takes = PartsBefore(k + 1)
  /\ PartsBefore(k) \subseteq one.loses
  /\ k > 5 => "rtpsock" \in one.loses
  /\ k > 6 => "rtcpsock" \in one.loses
  /\ (one.name = "bindrtp") = (k = 5)
  /\ (one.name = "bindrtcp") = (k = 6)
  /\ ~(one.name \in Creation!Builders /\ one.name \in PartsBefore(k))

LEMMA Joined ==
  ASSUME NEW S, NEW a \in Seq(S), NEW b \in Seq(S), Len(a) = 9, Len(b) = 8
  PROVE  Len(a \o b) = 17 /\ \A k \in 1 .. 17 : (a \o b)[k] = IF k <= 9 THEN a[k] ELSE b[k - 9]
<1>1. Len(a \o b) = Len(a) + Len(b)
  BY ConcatProperties
<1>2. \A k \in 1 .. Len(a) + Len(b) : (a \o b)[k] = IF k <= Len(a) THEN a[k] ELSE b[k - Len(a)]
  BY ConcatProperties
<1>3. Len(a) + Len(b) = 17
  OBVIOUS
<1> QED BY Zenon, <1>1, <1>2, <1>3

LEMMA StepList ==
  /\ Len(Creation!Steps) = 17
  /\ \A k \in 1 .. 17 : StepFits(k, Creation!Steps[k])
<1> DEFINE any == {Creation!TransmitterSteps[k] : k \in 1 .. 9} \cup {Creation!SessionSteps[k] : k \in 1 .. 8}
<1>1. Creation!TransmitterSteps \in [1 .. 9 -> any]
  BY DEF Creation!TransmitterSteps
<1>2. Creation!SessionSteps \in [1 .. 8 -> any]
  BY DEF Creation!SessionSteps
<1> HIDE DEF any
<1>3. Creation!TransmitterSteps \in Seq(any) /\ Len(Creation!TransmitterSteps) = 9
  <2>1. Creation!TransmitterSteps \in UNION {[1 .. n -> any] : n \in Nat}
    BY <1>1
  <2>2. Creation!TransmitterSteps \in Seq(any)
    BY Zenon, <2>1, SeqDef
  <2> QED BY <1>1, <2>2, LenProperties
<1>4. Creation!SessionSteps \in Seq(any) /\ Len(Creation!SessionSteps) = 8
  <2>1. Creation!SessionSteps \in UNION {[1 .. n -> any] : n \in Nat}
    BY <1>2
  <2>2. Creation!SessionSteps \in Seq(any)
    BY Zenon, <2>1, SeqDef
  <2> QED BY <1>2, <2>2, LenProperties
<1>7. /\ Len(Creation!Steps) = 17
      /\ \A k \in 1 .. 17 : Creation!Steps[k] = IF k <= 9 THEN Creation!TransmitterSteps[k]
                                                          ELSE Creation!SessionSteps[k - 9]
  BY Zenon, <1>3, <1>4, Joined DEF Creation!Steps
<1>5. ASSUME NEW k \in 1 .. 9 PROVE StepFits(k, Creation!TransmitterSteps[k])
  BY DEF Creation!TransmitterSteps, Creation!Step, PartsBefore, Creation!Sockets, Creation!Transmitter,
         Creation!Abortdesc, StepFits, Creation!Builders
<1>6. ASSUME NEW k \in 10 .. 17 PROVE StepFits(k, Creation!SessionSteps[k - 9])
  BY DEF Creation!SessionSteps, Creation!Step, PartsBefore, Creation!Sockets, Creation!Transmitter,
         Creation!Abortdesc, StepFits, Creation!Builders
<1> QED BY <1>5, <1>6, <1>7

LEMMA CreationInit == Creation!Init => CreationInv
BY CreationAssumption DEF Creation!Init, CreationInv, PartsBefore

LEMMA CreateKeeps ==
  ASSUME CreationInv, NEW s \in Sessions, Creation!Create(s)
  PROVE  CreationInv'
BY DEF CreationInv, Creation!Create, PartsBefore

LEMMA SucceedsKeeps ==
  ASSUME CreationInv, NEW s \in Sessions, Creation!Succeeds(s)
  PROVE  CreationInv'
<1> DEFINE k == step[s]
           one == Creation!Steps[k]
<1>1. k \in 1 .. 17 /\ StepFits(k, one) /\ Len(Creation!Steps) = 17
  BY StepList DEF CreationInv, Creation!Succeeds
<1>2. s \notin created /\ held[s] = PartsBefore(k)
  BY <1>1 DEF CreationInv
<1>3. held' = [held EXCEPT ![s] = PartsBefore(k + 1)]
  BY <1>1, <1>2 DEF Creation!Succeeds, Creation!Current, StepFits
<1>4. \/ k = 17 /\ step' = [step EXCEPT ![s] = 0] /\ created' = created \cup {s}
           /\ status' = [status EXCEPT ![s] = "created"]
      \/ k < 17 /\ step' = [step EXCEPT ![s] = k + 1] /\ UNCHANGED <<created, status>>
  BY <1>1 DEF Creation!Succeeds
<1>5. CASE k \notin {5, 6}
  BY <1>1, <1>2, <1>3, <1>4, <1>5
     DEF CreationInv, Creation!Succeeds, Creation!Binds, Creation!Current, StepFits, PartsBefore
<1>6. CASE k \in {5, 6}
  BY <1>1, <1>2, <1>3, <1>4, <1>6, CreationAssumption
     DEF CreationInv, Creation!Succeeds, Creation!Binds, Creation!Current, StepFits, PartsBefore,
         Creation!MayDo, Creation!PortOf, Creation!Ports, Portbase
<1> QED BY <1>5, <1>6

LEMMA FailsKeeps ==
  ASSUME CreationInv, NEW s \in Sessions, Creation!Fails(s)
  PROVE  CreationInv'
<1> DEFINE k == step[s]
           one == Creation!Steps[k]
<1>1. k \in 1 .. 17 /\ StepFits(k, one)
  BY StepList DEF CreationInv, Creation!Fails
<1>2. s \notin created /\ held[s] = PartsBefore(k)
  BY <1>1 DEF CreationInv
<1>3. held' = [held EXCEPT ![s] = {}]
  BY <1>1, <1>2 DEF Creation!Fails, Creation!Current, StepFits
<1>4. ~Creation!Already(s)
  BY <1>1, <1>2 DEF Creation!Already, Creation!Current, StepFits
<1>5. \A p \in Creation!Ports : boundTo'[p] = IF boundTo[p] = s THEN FREE ELSE boundTo[p]
  BY <1>1, <1>2 DEF CreationInv, Creation!Fails, Creation!Released, Creation!Current, StepFits
<1>6. boundTo' \in [Creation!Ports -> Sessions \cup {FREE}]
  BY <1>5 DEF CreationInv, Creation!Fails, Creation!Released
<1> QED BY <1>2, <1>3, <1>4, <1>5, <1>6, CreationAssumption DEF CreationInv, Creation!Fails, PartsBefore

LEMMA DestroyKeeps ==
  ASSUME CreationInv, NEW s \in Sessions, Creation!Destroy(s)
  PROVE  CreationInv'
<1>1. held' = [held EXCEPT ![s] = {}]
  <2>1. PartsBefore(18) = Creation!Transmitter \cup Creation!Builders \cup {"pollthread"}
    BY DEF PartsBefore, Creation!Transmitter, Creation!Sockets, Creation!Abortdesc, Creation!Builders
  <2>2. held[s] \subseteq PartsBefore(18)
    BY DEF CreationInv
  <2>3. held[s] \ (Creation!Transmitter \cup Creation!Builders \cup {"pollthread"}) = {}
    BY <2>1, <2>2
  <2> QED BY <2>3 DEF Creation!Destroy
<1>2. \A p \in Creation!Ports : boundTo'[p] = IF boundTo[p] = s THEN FREE ELSE boundTo[p]
  BY DEF CreationInv, Creation!Destroy, Creation!Released, Creation!Transmitter, Creation!Sockets
<1>3. boundTo' \in [Creation!Ports -> Sessions \cup {FREE}]
  BY <1>2 DEF CreationInv, Creation!Destroy, Creation!Released
<1> QED BY <1>1, <1>2, <1>3, CreationAssumption DEF CreationInv, Creation!Destroy, PartsBefore

LEMMA CreationStep == CreationInv /\ (Creation!Next \/ UNCHANGED creationVars) => CreationInv'
<1> SUFFICES ASSUME CreationInv, Creation!Next \/ UNCHANGED creationVars PROVE CreationInv'
  OBVIOUS
<1>1. CASE Creation!Next
  BY <1>1, CreateKeeps, SucceedsKeeps, FailsKeeps, DestroyKeeps DEF Creation!Next
<1>2. CASE UNCHANGED creationVars
  BY <1>2 DEF creationVars, CreationInv
<1> QED BY <1>1, <1>2

\* Create and Destroy, of any number of sessions that want the same ports:
\* whichever step of Create fails, the session has given back what it had.
THEOREM FailedCreationsLeaveNothing == StructuresSpec => []NothingLeft
<1>1. StructuresInit => CreationInv
  BY CreationInit DEF StructuresInit
<1>2. CreationInv /\ [StructuresNext]_structuresVars => CreationInv'
  BY CreationStep DEF StructuresNext, structuresVars
<1>3. CreationInv => NothingLeft
  BY DEF CreationInv, NothingLeft, Creation!NothingLeft, PartsBefore
<1> QED BY <1>1, <1>2, <1>3, PTL DEF StructuresSpec
-----------------------------------------------------------------------------
(* The transmitters.  Their lists differ in nothing but the ports that a   *)
(* call may name, and the invariant is the same: an entry for all ports    *)
(* has no port in its list but one that was deleted since.                 *)

ListedBy(list, host, port) ==
  host \in DOMAIN list /\ list[host].all # (port \in list[host].portlist)

ListsInv(ports) ==
  /\ \A host \in DOMAIN acceptignoreinfo :
       acceptignoreinfo[host] \in [all : BOOLEAN, portlist : SUBSET ports]
  /\ \A host \in {1}, port \in ports :
       /\ ListedBy(acceptignoreinfo, host, port) => <<host, port>> \in asked
       /\ <<host, port>> \in asked =>
            ListedBy(acceptignoreinfo, host, port) \/ <<host, port>> \in excepted
       /\ host \in DOMAIN acceptignoreinfo /\ acceptignoreinfo[host].all
            /\ port \in acceptignoreinfo[host].portlist => <<host, port>> \in excepted

BothSockets(groups) == [s \in {"rtpsock", "rtcpsock"} |-> groups]

\* The calls on a list, whichever transmitter it is of.
EntryAdded(ports, host, port) ==
  LET all == IF port = 0 THEN ports ELSE {port}
  IN /\ acceptignoreinfo' =
          Transmitter!Put(acceptignoreinfo, host, Transmitter!WithPort(Transmitter!PortInfo(host), port))
     /\ asked' = asked \cup ({host} \X all)
     /\ excepted' = IF port = 0 THEN excepted \ ({host} \X ports) ELSE excepted

Deleted(ports, host, port) ==
  LET all == IF port = 0 THEN ports ELSE {port}
  IN /\ host \in DOMAIN acceptignoreinfo
     /\ acceptignoreinfo' =
          Transmitter!Put(acceptignoreinfo, host, Transmitter!WithoutPort(Transmitter!PortInfo(host), port))
     /\ asked' = asked \ ({host} \X all)
     /\ excepted' = IF port = 0 THEN excepted \ ({host} \X ports)
                    ELSE IF Transmitter!PortInfo(host).all THEN excepted \cup {<<host, port>>} ELSE excepted

Cleared == acceptignoreinfo' = <<>> /\ asked' = {} /\ excepted' = {}

SameLists == UNCHANGED <<acceptignoreinfo, asked, excepted>>

ListsChange(ports) ==
  \/ SameLists \/ Cleared
  \/ \E host \in {1}, port \in ports \cup {0} : EntryAdded(ports, host, port) \/ Deleted(ports, host, port)

\* What is joined by one socket is joined by both, and the same is left.
GroupsChange ==
  \/ UNCHANGED <<multicastgroups, memberships>>
  \/ \E some : /\ multicastgroups' = multicastgroups \cup some
               /\ memberships' = [s \in {"rtpsock", "rtcpsock"} |-> memberships[s] \cup some]
  \/ \E some : /\ multicastgroups' = multicastgroups \ some
               /\ memberships' = [s \in {"rtpsock", "rtcpsock"} |-> memberships[s] \ some]
  \/ multicastgroups' = {} /\ memberships' = BothSockets({})

LEMMA AddedKeeps ==
  ASSUME NEW ports, ListsInv(ports), NEW host \in {1}, NEW port \in ports \cup {0}, EntryAdded(ports, host, port)
  PROVE  ListsInv(ports)'
<1> DEFINE old == Transmitter!PortInfo(host)
           new == Transmitter!WithPort(old, port)
<1>1. acceptignoreinfo' = [y \in DOMAIN acceptignoreinfo \cup {host} |-> IF y = host THEN new ELSE acceptignoreinfo[y]]
  BY Zenon DEF EntryAdded, Transmitter!Put
<1>2. /\ old \in [all : BOOLEAN, portlist : SUBSET ports]
      /\ host \in DOMAIN acceptignoreinfo => old = acceptignoreinfo[host]
      /\ host \notin DOMAIN acceptignoreinfo => old.all = FALSE /\ old.portlist = {}
  BY DEF ListsInv, Transmitter!PortInfo, Transmitter!NoPorts
<1>3. /\ new \in [all : BOOLEAN, portlist : SUBSET ports]
      /\ port = 0 => new.all = TRUE /\ new.portlist = {}
      /\ port # 0 /\ old.all => new = old
      /\ port # 0 /\ ~old.all => new.all = old.all /\ new.portlist = old.portlist \cup {port}
  <2> HIDE DEF old
  <2> QED BY <1>2 DEF Transmitter!WithPort, Transmitter!AllPorts
<1> HIDE DEF old, new
<1>4. CASE port = 0
  BY <1>1, <1>2, <1>3, <1>4 DEF ListsInv, ListedBy, EntryAdded
<1>5. CASE port # 0
  BY <1>1, <1>2, <1>3, <1>5 DEF ListsInv, ListedBy, EntryAdded
<1> QED BY <1>4, <1>5

LEMMA DeletedKeeps ==
  ASSUME NEW ports, ListsInv(ports), NEW host \in {1}, NEW port \in ports \cup {0}, Deleted(ports, host, port)
  PROVE  ListsInv(ports)'
<1> DEFINE old == Transmitter!PortInfo(host)
           new == Transmitter!WithoutPort(old, port)
<1>1. acceptignoreinfo' = [y \in DOMAIN acceptignoreinfo \cup {host} |-> IF y = host THEN new ELSE acceptignoreinfo[y]]
  BY Zenon DEF Deleted, Transmitter!Put
<1>2. old \in [all : BOOLEAN, portlist : SUBSET ports] /\ old = acceptignoreinfo[host]
  BY DEF ListsInv, Deleted, Transmitter!PortInfo
<1>3. /\ new \in [all : BOOLEAN, portlist : SUBSET ports]
      /\ port = 0 => new.all = FALSE /\ new.portlist = {}
      /\ port # 0 => new.all = old.all
      /\ port # 0 /\ old.all => new.portlist = old.portlist \cup {port}
      /\ port # 0 /\ ~old.all => new.portlist = old.portlist \ {port}
  <2> HIDE DEF old
  <2> QED BY <1>2 DEF Transmitter!WithoutPort, Transmitter!NoPorts
<1>4. /\ host \in DOMAIN acceptignoreinfo
      /\ port = 0 => asked' = asked \ ({host} \X ports) /\ excepted' = excepted \ ({host} \X ports)
      /\ port # 0 => asked' = asked \ {<<host, port>>}
      /\ port # 0 /\ old.all => excepted' = excepted \cup {<<host, port>>}
      /\ port # 0 /\ ~old.all => excepted' = excepted
  BY DEF Deleted
<1> HIDE DEF old, new
<1>5. CASE port = 0
  BY <1>1, <1>2, <1>3, <1>4, <1>5 DEF ListsInv, ListedBy
<1>6. CASE port # 0 /\ old.all
  BY <1>1, <1>2, <1>3, <1>4, <1>6 DEF ListsInv, ListedBy
<1>7. CASE port # 0 /\ ~old.all
  BY <1>1, <1>2, <1>3, <1>4, <1>7 DEF ListsInv, ListedBy
<1> QED BY <1>5, <1>6, <1>7

LEMMA ListsStep ==
  ASSUME NEW ports, ListsInv(ports), ListsChange(ports)
  PROVE  ListsInv(ports)'
<1>1. CASE SameLists
  BY <1>1 DEF ListsInv, ListedBy, SameLists
<1>2. CASE Cleared
  BY <1>2 DEF ListsInv, ListedBy, Cleared
<1> QED BY <1>1, <1>2, AddedKeeps, DeletedKeeps DEF ListsChange

LEMMA GroupsStep ==
  ASSUME memberships = BothSockets(multicastgroups), GroupsChange
  PROVE  memberships' = BothSockets(multicastgroups')
BY DEF GroupsChange, BothSockets

LEMMA TransmitterSteps ==
  Transmitter!Next \/ UNCHANGED transmitterVars => ListsChange(PortNumbers) /\ GroupsChange
<1> SUFFICES ASSUME Transmitter!Next \/ UNCHANGED transmitterVars
             PROVE  ListsChange(PortNumbers) /\ GroupsChange
  OBVIOUS
<1> USE DEF Transmitter!listVars, Transmitter!groupVars, Transmitter!packetVars, SameLists, Cleared
<1>1. CASE UNCHANGED transmitterVars
  BY <1>1 DEF transmitterVars, ListsChange, GroupsChange
<1>2. CASE \/ \E m \in {"AcceptAll", "AcceptSome", "IgnoreSome"} : Transmitter!SetReceiveMode(m)
           \/ Transmitter!ClearAcceptList \/ Transmitter!ClearIgnoreList
  BY <1>2 DEF Transmitter!SetReceiveMode, Transmitter!ClearAcceptList, Transmitter!ClearIgnoreList,
              Transmitter!ClearList, Transmitter!ClearAcceptIgnoreInfo, ListsChange, GroupsChange
<1>3. ASSUME NEW host \in {1}, NEW port \in PortNumbers \cup {0},
             \/ Transmitter!AddToAcceptList(host, port) \/ Transmitter!AddToIgnoreList(host, port)
             \/ Transmitter!DeleteFromAcceptList(host, port) \/ Transmitter!DeleteFromIgnoreList(host, port)
      PROVE  ListsChange(PortNumbers) /\ GroupsChange
  <2>1. CASE Transmitter!AddToList(host, port)
    <3>1. EntryAdded(PortNumbers, host, port)
      BY <2>1 DEF EntryAdded, Transmitter!AddToList
    <3> QED BY <2>1, <3>1 DEF Transmitter!AddToList, ListsChange, GroupsChange
  <2>2. CASE Transmitter!DeleteFromList(host, port)
    <3>1. Deleted(PortNumbers, host, port)
      BY <2>2 DEF Deleted, Transmitter!DeleteFromList
    <3> QED BY <2>2, <3>1 DEF Transmitter!DeleteFromList, ListsChange, GroupsChange
  <2> QED BY <1>3, <2>1, <2>2 DEF Transmitter!AddToAcceptList, Transmitter!AddToIgnoreList,
                                  Transmitter!DeleteFromAcceptList, Transmitter!DeleteFromIgnoreList
<1>4. CASE \/ \E host \in {1}, port \in PortNumbers : Transmitter!Arrives(host, port)
           \/ Transmitter!PollSocket \/ Transmitter!GetNextPacket
  BY <1>4 DEF Transmitter!Arrives, Transmitter!PollSocket, Transmitter!GetNextPacket, ListsChange, GroupsChange
<1>5. ASSUME NEW group \in Groups, NEW refused, Transmitter!JoinMulticastGroup(group, refused)
      PROVE  ListsChange(PortNumbers) /\ GroupsChange
  BY <1>5 DEF Transmitter!JoinMulticastGroup, Transmitter!Joined, Transmitter!Sockets, ListsChange, GroupsChange
<1>6. ASSUME NEW group \in Groups, Transmitter!LeaveMulticastGroup(group)
      PROVE  ListsChange(PortNumbers) /\ GroupsChange
  BY <1>6 DEF Transmitter!LeaveMulticastGroup, Transmitter!Sockets, ListsChange, GroupsChange
<1>7. CASE Transmitter!LeaveAllMulticastGroups
  <2>1. multicastgroups' = multicastgroups \ multicastgroups
    BY <1>7 DEF Transmitter!LeaveAllMulticastGroups
  <2> QED BY <1>7, <2>1 DEF Transmitter!LeaveAllMulticastGroups, Transmitter!Sockets, ListsChange, GroupsChange
<1> QED BY <1>1, <1>2, <1>3, <1>4, <1>5, <1>6, <1>7 DEF Transmitter!Next

LEMMA OnListsSteps ==
  ASSUME Transmitter6!OnLists
  PROVE  ListsChange({1}) /\ GroupsChange
<1> USE DEF Transmitter6!Lists!listVars, Transmitter6!Lists!groupVars, Transmitter6!Lists!packetVars,
            SameLists, Cleared
<1>1. CASE \/ \E m \in {"AcceptAll", "AcceptSome", "IgnoreSome"} : Transmitter6!SetReceiveMode(m)
           \/ Transmitter6!ClearAcceptList \/ Transmitter6!ClearIgnoreList
  BY <1>1 DEF Transmitter6!SetReceiveMode, Transmitter6!ClearAcceptList, Transmitter6!ClearIgnoreList,
              Transmitter6!Lists!SetReceiveMode, Transmitter6!Lists!ClearAcceptList,
              Transmitter6!Lists!ClearIgnoreList, Transmitter6!Lists!ClearList,
              Transmitter6!Lists!ClearAcceptIgnoreInfo, ListsChange, GroupsChange
<1>2. ASSUME NEW host \in {1}, NEW port \in {1} \cup {0},
             \/ Transmitter6!AddToAcceptList(host, port) \/ Transmitter6!AddToIgnoreList(host, port)
             \/ Transmitter6!DeleteFromAcceptList(host, port) \/ Transmitter6!DeleteFromIgnoreList(host, port)
      PROVE  ListsChange({1}) /\ GroupsChange
  <2>1. CASE Transmitter6!Lists!AddToList(host, port)
    <3>1. EntryAdded({1}, host, port)
      BY <2>1 DEF EntryAdded, Transmitter6!Lists!AddToList, Transmitter6!Lists!Put, Transmitter6!Lists!WithPort,
                  Transmitter6!Lists!PortInfo, Transmitter6!Lists!AllPorts, Transmitter6!Lists!NoPorts,
                  Transmitter!Put, Transmitter!WithPort, Transmitter!PortInfo, Transmitter!AllPorts,
                  Transmitter!NoPorts
    <3> QED BY <2>1, <3>1 DEF Transmitter6!Lists!AddToList, ListsChange, GroupsChange
  <2>2. CASE Transmitter6!Lists!DeleteFromList(host, port)
    <3>1. Deleted({1}, host, port)
      BY <2>2 DEF Deleted, Transmitter6!Lists!DeleteFromList, Transmitter6!Lists!Put,
                  Transmitter6!Lists!WithoutPort, Transmitter6!Lists!PortInfo, Transmitter6!Lists!NoPorts,
                  Transmitter!Put, Transmitter!WithoutPort, Transmitter!PortInfo, Transmitter!NoPorts
    <3> QED BY <2>2, <3>1 DEF Transmitter6!Lists!DeleteFromList, ListsChange, GroupsChange
  <2> QED BY <1>2, <2>1, <2>2
          DEF Transmitter6!AddToAcceptList, Transmitter6!AddToIgnoreList, Transmitter6!DeleteFromAcceptList,
              Transmitter6!DeleteFromIgnoreList, Transmitter6!Lists!AddToAcceptList,
              Transmitter6!Lists!AddToIgnoreList, Transmitter6!Lists!DeleteFromAcceptList,
              Transmitter6!Lists!DeleteFromIgnoreList
<1>3. CASE \/ \E host \in {1}, port \in {1} : Transmitter6!Lists!Arrives(host, port)
           \/ Transmitter6!PollSocket \/ Transmitter6!GetNextPacket
  BY <1>3 DEF Transmitter6!Lists!Arrives, Transmitter6!PollSocket, Transmitter6!GetNextPacket,
              Transmitter6!Lists!GetNextPacket, ListsChange, GroupsChange
<1>4. ASSUME NEW group \in Groups, NEW refused, Transmitter6!JoinMulticastGroup(group, refused)
      PROVE  ListsChange({1}) /\ GroupsChange
  BY <1>4 DEF Transmitter6!JoinMulticastGroup, Transmitter6!Lists!JoinMulticastGroup,
              Transmitter6!Lists!Joined, Transmitter6!Lists!Sockets, ListsChange, GroupsChange
<1>5. ASSUME NEW group \in Groups, Transmitter6!LeaveMulticastGroup(group)
      PROVE  ListsChange({1}) /\ GroupsChange
  BY <1>5 DEF Transmitter6!LeaveMulticastGroup, Transmitter6!Lists!LeaveMulticastGroup,
              Transmitter6!Lists!Sockets, ListsChange, GroupsChange
<1>6. CASE Transmitter6!LeaveAllMulticastGroups
  <2>1. multicastgroups' = multicastgroups \ multicastgroups
    BY <1>6 DEF Transmitter6!LeaveAllMulticastGroups, Transmitter6!Lists!LeaveAllMulticastGroups
  <2> QED BY <1>6, <2>1 DEF Transmitter6!LeaveAllMulticastGroups, Transmitter6!Lists!LeaveAllMulticastGroups,
                            Transmitter6!Lists!Sockets, ListsChange, GroupsChange
<1> QED BY <1>1, <1>2, <1>3, <1>4, <1>5, <1>6 DEF Transmitter6!OnLists

\* The lists and groups of the transmitter for IPv6, and what is left of an
\* earlier life in them.
LEMMA Transmitter6Steps ==
  ASSUME Transmitter6!StartsAfresh, Transmitter6!Next
  PROVE  ListsChange({1}) /\ GroupsChange /\ Transmitter6!StartsAfresh'
<1> USE DEF Transmitter6!StartsAfresh, Transmitter6!ComesFromThisTransmitter,
            Transmitter6!OwnAddresses!ComesFromThisTransmitter, SameLists
<1> USE DEF Transmitter6!listsVars, Transmitter6!waitVars, Transmitter6!ownVars
<1>1. CASE Transmitter6!Create \/ Transmitter6!CreateFails
  BY <1>1 DEF Transmitter6!Create, Transmitter6!CreateFails, ListsChange, GroupsChange
<1>2. CASE Transmitter6!Destroy
  BY <1>2 DEF Transmitter6!Destroy, Transmitter6!OwnAddresses!Destroy, Transmitter6!ClearAcceptIgnoreInfo,
              Transmitter6!Lists!ClearAcceptIgnoreInfo, Transmitter6!FlushPackets, Transmitter6!Lists!Sockets,
              ListsChange, GroupsChange, Cleared, BothSockets
<1>3. CASE Transmitter6!DestroyReturns \/ Transmitter6!WaitForIncomingData \/ Transmitter6!Wakes
             \/ Transmitter6!WaitReturns \/ Transmitter6!AbortWait
  BY <1>3 DEF Transmitter6!DestroyReturns, Transmitter6!WaitForIncomingData, Transmitter6!Wakes,
              Transmitter6!WaitReturns, Transmitter6!AbortWait, ListsChange, GroupsChange
<1>4. CASE Transmitter6!GetLocalHostName
  BY <1>4 DEF Transmitter6!GetLocalHostName, Transmitter6!OwnAddresses!GetLocalHostName, ListsChange, GroupsChange
<1>5. CASE \/ \E host \in {1} : Transmitter6!AddDestination(host) \/ Transmitter6!DeleteDestination(host)
           \/ Transmitter6!ClearDestinations
  BY <1>5 DEF Transmitter6!AddDestination, Transmitter6!DeleteDestination, Transmitter6!ClearDestinations,
              ListsChange, GroupsChange
<1>6. CASE alive /\ Transmitter6!OnLists /\ UNCHANGED Transmitter6!lifeVars
  BY <1>6, OnListsSteps DEF Transmitter6!lifeVars
<1> QED BY <1>1, <1>2, <1>3, <1>4, <1>5, <1>6 DEF Transmitter6!Next

LEMMA AddressesStep == Addresses!NamesItself /\ Addresses!Next => Addresses!NamesItself'
BY DEF Addresses!Next, Addresses!NamesItself, Addresses!ComesFromThisTransmitter, Addresses!Create,
       Addresses!CreateFails, Addresses!Destroy, Addresses!GetLocalHostName

WakesItsThread == aborts \in Nat /\ External!NothingSleptThrough

LEMMA ExternalStep == WakesItsThread /\ External!Next => WakesItsThread'
<1> SUFFICES ASSUME WakesItsThread, External!Next PROVE WakesItsThread'
  OBVIOUS
<1> USE DEF WakesItsThread, External!NothingSleptThrough, External!AbortWaitInternal
<1>1. CASE External!Create \/ External!CreateFails \/ External!Destroy \/ External!DestroyReturns
  BY <1>1 DEF External!Create, External!CreateFails, External!Destroy, External!DestroyReturns,
              External!CreateAbortDescriptors, External!FlushPackets, External!vars
<1>2. CASE External!AbortWait \/ External!WaitForIncomingData \/ External!Wakes \/ External!WaitReturns
  BY <1>2 DEF External!AbortWait, External!WaitForIncomingData, External!Wakes, External!WaitReturns
<1>3. CASE (\E rtp \in BOOLEAN : External!Inject(rtp)) \/ External!InjectFails \/ External!GetNextPacket
  BY <1>3 DEF External!Inject, External!InjectFails, External!GetNextPacket
<1> QED BY <1>1, <1>2, <1>3 DEF External!Next

TransmittersInv ==
  /\ which = "transmitter" => ListsInv(PortNumbers) /\ memberships = BothSockets(multicastgroups)
  /\ which = "transmitter6" =>
       ListsInv({1}) /\ memberships = BothSockets(multicastgroups) /\ Transmitter6!StartsAfresh
  /\ which = "addresses" => Addresses!NamesItself
  /\ which = "external" => WakesItsThread

LEMMA TransmittersInit == Transmitter6!Init /\ External!Init => TransmittersInv
BY DEF Transmitter6!Init, Transmitter6!Lists!Init, Transmitter6!OwnAddresses!Init, External!Init,
       TransmittersInv, ListsInv, ListedBy, BothSockets, Transmitter6!Lists!Sockets, Transmitter6!StartsAfresh,
       Addresses!NamesItself, WakesItsThread, External!NothingSleptThrough

LEMMA TransmittersStep == TransmittersInv /\ [StructuresNext]_structuresVars => TransmittersInv'
<1> SUFFICES ASSUME TransmittersInv, [StructuresNext]_structuresVars PROVE TransmittersInv'
  OBVIOUS
<1>1. which' = which
  BY DEF StructuresNext, structuresVars
<1>2. CASE which = "transmitter"
  <2>1. Transmitter!Next \/ UNCHANGED transmitterVars
    BY <1>2 DEF StructuresNext, structuresVars
  <2>2. ListsChange(PortNumbers) /\ GroupsChange
    BY <2>1, TransmitterSteps
  <2>3. ListsInv(PortNumbers)' /\ memberships' = BothSockets(multicastgroups')
    BY <1>2, <2>2, ListsStep, GroupsStep DEF TransmittersInv
  <2> QED BY <1>1, <1>2, <2>3 DEF TransmittersInv, BothSockets
<1>3. CASE which = "transmitter6"
  <2>1. Transmitter6!Next \/ UNCHANGED <<transmitterVars, addressVars, waitVars, destinations>>
    BY <1>3 DEF StructuresNext, structuresVars
  <2>2. ListsChange({1}) /\ GroupsChange /\ Transmitter6!StartsAfresh'
    <3>1. CASE Transmitter6!Next
      BY <1>3, <3>1, Transmitter6Steps DEF TransmittersInv
    <3>2. CASE UNCHANGED <<transmitterVars, addressVars, waitVars, destinations>>
      BY <1>3, <3>2 DEF TransmittersInv, transmitterVars, addressVars, waitVars, ListsChange, SameLists,
           GroupsChange, Transmitter6!StartsAfresh, Transmitter6!ComesFromThisTransmitter,
           Transmitter6!OwnAddresses!ComesFromThisTransmitter
    <3> QED BY <2>1, <3>1, <3>2
  <2>3. ListsInv({1})' /\ memberships' = BothSockets(multicastgroups')
    BY <1>3, <2>2, ListsStep, GroupsStep DEF TransmittersInv
  <2> QED BY <1>1, <1>3, <2>2, <2>3 DEF TransmittersInv, BothSockets
<1>4. CASE which = "addresses"
  <2>1. Addresses!Next \/ UNCHANGED addressVars
    BY <1>4 DEF StructuresNext, structuresVars
  <2>2. Addresses!NamesItself'
    BY <1>4, <2>1, AddressesStep
       DEF TransmittersInv, addressVars, Addresses!NamesItself, Addresses!ComesFromThisTransmitter
  <2> QED BY <1>1, <1>4, <2>2 DEF TransmittersInv
<1>5. CASE which = "external"
  <2>1. External!Next \/ UNCHANGED <<alive, waitVars, externalVars>>
    BY <1>5 DEF StructuresNext, structuresVars, addressVars
  <2>2. WakesItsThread'
    BY <1>5, <2>1, ExternalStep
       DEF TransmittersInv, waitVars, externalVars, WakesItsThread, External!NothingSleptThrough
  <2> QED BY <1>1, <1>5, <2>2 DEF TransmittersInv
<1> QED BY <1>1, <1>2, <1>3, <1>4, <1>5 DEF TransmittersInv

\* The transmitters, over any ports, groups and addresses: the lists and
\* groups are those the calls asked for, nothing of an earlier life is left,
\* a transmitter names itself, and no thread sleeps through a packet.
THEOREM TransmittersKeepTheirLists == StructuresSpec => []ListsWhatWasAsked
<1>1. StructuresInit => TransmittersInv
  BY TransmittersInit DEF StructuresInit
<1>2. TransmittersInv => ListsWhatWasAsked
  <2> SUFFICES ASSUME TransmittersInv PROVE ListsWhatWasAsked
    OBVIOUS
  <2>1. which = "transmitter" => Transmitter!ListsWhatWasAsked /\ Transmitter!MembershipsMatch
    BY DEF TransmittersInv, ListsInv, ListedBy, Transmitter!ListsWhatWasAsked, Transmitter!Listed,
           Transmitter!MembershipsMatch, Transmitter!Sockets, BothSockets
  <2>2. which = "transmitter6" =>
          Transmitter6!Lists!ListsWhatWasAsked /\ Transmitter6!Lists!MembershipsMatch
    BY DEF TransmittersInv, ListsInv, ListedBy, Transmitter6!Lists!ListsWhatWasAsked,
           Transmitter6!Lists!Listed, Transmitter6!Lists!MembershipsMatch, Transmitter6!Lists!Sockets,
           BothSockets
  <2> QED BY <2>1, <2>2 DEF TransmittersInv, WakesItsThread, ListsWhatWasAsked
<1> QED BY <1>1, <1>2, TransmittersStep, PTL DEF StructuresSpec
-----------------------------------------------------------------------------
(* The scheduler of reports.  However the times are moved, the one at      *)
(* which the scheduler takes the last packet to have been sent is not      *)
(* before the one at which it was.                                         *)

SchedulerInv ==
  /\ members \in Int /\ senders \in Int /\ aresender \in BOOLEAN /\ avgrtcppacksize \in Nat
  /\ since \in Nat /\ gap \in Nat /\ pmembers \in Int
  /\ Scheduler!Bit(aresender) <= senders /\ senders + Scheduler!Bit(~aresender) <= members
  /\ since <= gap

\* A BYE is only scheduled while there is one to send.
ByesInv == byepackets \in Nat /\ (byescheduled => byepackets > 0)

\* The share of a time that is left to fewer members is no longer.
LEMMA ShareIsLess ==
  ASSUME NEW time \in Nat, NEW count \in Nat, NEW all \in Nat, count < all
  PROVE  (count * time) \div all \in Nat /\ (count * time) \div all <= time
<1> DEFINE q == (count * time) \div all
           r == (count * time) % all
<1>1. count * time \in Nat /\ all > 0
  OBVIOUS
<1>2. q \in Int /\ r \in Nat /\ r < all /\ count * time = all * q + r
  BY <1>1
<1>3. count * time <= all * time
  OBVIOUS
<1> HIDE DEF q, r
<1>4. q >= 0
  <2>1. q < 0 => all * q <= 0 - all
    BY <1>1, <1>2
  <2> QED BY <1>1, <1>2, <2>1
<1>5. q <= time
  <2>1. q > time => all * q >= all * time + all
    <3>1. q > time => q = time + 1 + (q - time - 1) /\ q - time - 1 >= 0
      BY <1>2
    <3> QED BY <1>1, <1>2, <3>1
  <2> QED BY <1>1, <1>2, <1>3, <2>1
<1> QED BY <1>2, <1>4, <1>5 DEF q

LEMMA IntervalIsNatural == SchedulerInv => Scheduler!CalculateDeterministicInterval(aresender) \in Nat
<1> SUFFICES ASSUME SchedulerInv PROVE Scheduler!CalculateDeterministicInterval(aresender) \in Nat
  OBVIOUS
<1> DEFINE least == IF hassentrtcp THEN tmin ELSE tmin \div 2
           needed ==
             CASE 4 * senders > members -> (members * avgrtcppacksize) \div bandwidth
               [] 4 * senders <= members /\ aresender -> (senders * avgrtcppacksize * 4) \div bandwidth
               [] 4 * senders <= members /\ ~aresender ->
                    ((members - senders) * avgrtcppacksize * 4) \div (3 * bandwidth)
<1>1. least \in Nat
  BY SchedulerAssumption
<1>2. needed \in Int
  <2>1. (members * avgrtcppacksize) \div bandwidth \in Int
    BY SchedulerAssumption DEF SchedulerInv
  <2>2. (senders * avgrtcppacksize * 4) \div bandwidth \in Int
    BY SchedulerAssumption DEF SchedulerInv
  <2>3. ((members - senders) * avgrtcppacksize * 4) \div (3 * bandwidth) \in Int
    BY SchedulerAssumption DEF SchedulerInv
  <2>4. (4 * senders > members) \/ (4 * senders <= members /\ aresender) \/ (4 * senders <= members /\ ~aresender)
    BY DEF SchedulerInv
  <2> QED BY <2>1, <2>2, <2>3, <2>4
<1>3. Scheduler!CalculateDeterministicInterval(aresender) = Scheduler!AtLeast(least, needed)
  BY DEF Scheduler!CalculateDeterministicInterval
<1> HIDE DEF least, needed
<1> QED BY <1>1, <1>2, <1>3 DEF Scheduler!AtLeast

LEMMA IntervalsGrow ==
  ASSUME SchedulerInv, NEW least \in Nat, NEW factor \in Nat, least <= factor
  PROVE  /\ Scheduler!CalculateTransmissionInterval(least) \in Nat
         /\ Scheduler!CalculateTransmissionInterval(factor) \in Nat
         /\ Scheduler!CalculateTransmissionInterval(least) <= Scheduler!CalculateTransmissionInterval(factor)
<1> DEFINE i == Scheduler!CalculateDeterministicInterval(aresender)
<1>1. i \in Nat
  BY IntervalIsNatural
<1>2. /\ Scheduler!CalculateTransmissionInterval(least) = (i * least) \div 100
      /\ Scheduler!CalculateTransmissionInterval(factor) = (i * factor) \div 100
  BY DEF Scheduler!CalculateTransmissionInterval, Scheduler!Scaled
<1> HIDE DEF i
<1>3. i * least \in Nat /\ i * factor \in Nat /\ i * least <= i * factor
  BY <1>1
<1>4. \A x, y \in Nat : x <= y => x \div 100 \in Nat /\ y \div 100 \in Nat /\ x \div 100 <= y \div 100
  OBVIOUS
<1> QED BY <1>2, <1>3, <1>4

LEMMA SchedulerInit == Scheduler!Init => SchedulerInv
<1> SUFFICES ASSUME Scheduler!Init PROVE SchedulerInv
  OBVIOUS
<1>1. aresender <=> senders = 1
  BY Zenon DEF Scheduler!Init
<1>2. aresender \in BOOLEAN
  BY Zenon DEF Scheduler!Init
<1>3. CASE senders = 1
  BY <1>1, <1>2, <1>3, SchedulerAssumption DEF Scheduler!Init, SchedulerInv, Scheduler!Bit
<1>4. CASE senders = 0
  BY <1>1, <1>2, <1>4, SchedulerAssumption DEF Scheduler!Init, SchedulerInv, Scheduler!Bit
<1> QED BY <1>3, <1>4 DEF Scheduler!Init

\* Reconsideration, when a member has left, moves the time nearer.
LEMMA MembersDecrease ==
  ASSUME SchedulerInv, NEW count \in Nat, Scheduler!ActiveMemberDecrease(count)
  PROVE  since' \in Nat /\ since' <= since /\ pmembers' \in Int
<1>1. CASE ~firstcall /\ count < pmembers
  <2>1. since' = (count * since) \div pmembers /\ pmembers' = count
    BY <1>1 DEF Scheduler!ActiveMemberDecrease, Scheduler!PerformReverseReconsideration
  <2>2. pmembers \in Nat /\ since \in Nat
    BY <1>1 DEF SchedulerInv
  <2> QED BY <1>1, <2>1, <2>2, ShareIsLess
<1>2. CASE ~(~firstcall /\ count < pmembers)
  BY <1>2 DEF Scheduler!ActiveMemberDecrease, Scheduler!timeVars, SchedulerInv
<1> QED BY <1>1, <1>2

LEMMA MembersKeep ==
  ASSUME SchedulerInv, NEW sends \in BOOLEAN,
         Scheduler!Join(sends) \/ Scheduler!Leave(sends) \/ Scheduler!Sends(sends)
  PROVE  SchedulerInv'
<1>1. CASE Scheduler!Join(sends)
  BY <1>1 DEF Scheduler!Join, SchedulerInv, Scheduler!Bit, Scheduler!timeVars
<1>2. CASE Scheduler!Leave(sends)
  <2>1. members - 1 \in Nat /\ senders' \in Int /\ Scheduler!Bit(aresender) <= senders'
        /\ senders' + Scheduler!Bit(~aresender) <= members - 1
    BY <1>2 DEF Scheduler!Leave, SchedulerInv, Scheduler!Bit
  <2>2. since' \in Nat /\ since' <= since /\ pmembers' \in Int
    BY <1>2, <2>1, MembersDecrease DEF Scheduler!Leave
  <2> QED BY <1>2, <2>1, <2>2 DEF Scheduler!Leave, SchedulerInv
<1>3. CASE Scheduler!Sends(sends)
  BY <1>3 DEF Scheduler!Sends, SchedulerInv, Scheduler!Bit, Scheduler!timeVars
<1> QED BY <1>1, <1>2, <1>3

LEMMA SchedulerStep == SchedulerInv /\ (Scheduler!Next \/ UNCHANGED schedulerVars) => SchedulerInv'
<1> SUFFICES ASSUME SchedulerInv, Scheduler!Next \/ UNCHANGED schedulerVars PROVE SchedulerInv'
  OBVIOUS
<1> USE DEF SchedulerInv, Scheduler!sourceVars, Scheduler!timeVars
<1>1. CASE UNCHANGED schedulerVars
  BY <1>1 DEF schedulerVars
<1>2. CASE Scheduler!Tick
  BY <1>2 DEF Scheduler!Tick
<1>3. CASE Scheduler!SenderTimeout
  BY <1>3 DEF Scheduler!SenderTimeout, Scheduler!Bit
<1>4. CASE Scheduler!AnalyseIncoming
  BY <1>4, SchedulerAssumption DEF Scheduler!AnalyseIncoming, Scheduler!Analyse
<1>5. CASE Scheduler!ChangeSSRC
  <2>1. UNCHANGED <<since, pmembers>> \/ (since' = 0 /\ pmembers' \in {members, pmembers})
    BY Zenon, <1>5 DEF Scheduler!ChangeSSRC, Scheduler!ScheduleBYEPacket
  <2>2. /\ aresender' = FALSE /\ senders' = senders - Scheduler!Bit(aresender)
        /\ UNCHANGED <<members, avgrtcppacksize, gap>>
    BY <1>5 DEF Scheduler!ChangeSSRC
  <2>3. /\ senders' \in Int /\ 0 <= senders' /\ senders' + 1 <= members
        /\ since' \in Nat /\ since' <= gap /\ pmembers' \in Int
    BY <2>1, <2>2 DEF Scheduler!Bit
  <2>4. Scheduler!Bit(aresender)' = 0 /\ Scheduler!Bit(~aresender)' = 1 /\ aresender' \in BOOLEAN
    BY <2>2 DEF Scheduler!Bit
  <2> QED BY <2>2, <2>3, <2>4
<1>6. ASSUME NEW factor \in Factors, Scheduler!FirstCall(factor) \/ Scheduler!Postpone(factor)
      PROVE  SchedulerInv'
  <2>1. /\ (since' = 0 /\ gap' = 0) \/ UNCHANGED <<since, gap>>
        /\ pmembers' = members /\ UNCHANGED <<members, senders, aresender, avgrtcppacksize>>
    BY Zenon, <1>6 DEF Scheduler!FirstCall, Scheduler!Postpone
  <2> QED BY <2>1
<1>7. ASSUME NEW factor \in Factors, NEW later \in Factors, Scheduler!Send(factor, later)
      PROVE  SchedulerInv'
  <2>1. avgrtcppacksize' = avgrtcppacksize \/ \E size \in Sizes : Scheduler!Analyse(size)
    BY Zenon, <1>7 DEF Scheduler!Send, Scheduler!SendBYE, Scheduler!SendReport
  <2>2. avgrtcppacksize' \in Nat
    BY <2>1, SchedulerAssumption DEF Scheduler!Analyse
  <2>3. since' = 0 /\ gap' = 0 /\ pmembers' = members /\ UNCHANGED <<members, senders, aresender>>
    BY Zenon, <1>7 DEF Scheduler!Send
  <2> QED BY <2>2, <2>3
<1> QED BY <1>1, <1>2, <1>3, <1>4, <1>5, <1>6, <1>7, MembersKeep DEF Scheduler!Next

LEMMA ByesStep == ByesInv /\ (Scheduler!Next \/ UNCHANGED schedulerVars) => ByesInv'
<1> SUFFICES ASSUME ByesInv, Scheduler!Next \/ UNCHANGED schedulerVars PROVE ByesInv'
  OBVIOUS
<1>1. CASE UNCHANGED <<byescheduled, byepackets>>
  BY Zenon, <1>1 DEF ByesInv
<1>2. CASE Scheduler!ChangeSSRC
  <2>1. byepackets' = byepackets + 1
    BY <1>2 DEF Scheduler!ChangeSSRC
  <2> QED BY <2>1 DEF ByesInv
<1>3. ASSUME NEW factor \in Factors, NEW later \in Factors, Scheduler!Send(factor, later)
      PROVE  ByesInv'
  <2>1. byescheduled' => byepackets' > 0
    BY Zenon, <1>3 DEF Scheduler!Send, Scheduler!SendBYE, Scheduler!SendReport
  <2>2. IF byepackets > 0 THEN byepackets' = byepackets - 1 ELSE UNCHANGED byepackets
    BY Zenon, <1>3 DEF Scheduler!Send, Scheduler!SendBYE, Scheduler!SendReport
  <2>3. byepackets' \in Nat
    BY <2>2 DEF ByesInv
  <2> QED BY Zenon, <2>1, <2>3 DEF ByesInv
<1>4. \/ UNCHANGED <<byescheduled, byepackets>> \/ Scheduler!ChangeSSRC
      \/ \E factor, later \in Factors : Scheduler!Send(factor, later)
  BY Zenon DEF Scheduler!Next, schedulerVars, Scheduler!Tick, Scheduler!Join, Scheduler!Leave, Scheduler!Sends,
               Scheduler!SenderTimeout, Scheduler!AnalyseIncoming, Scheduler!FirstCall, Scheduler!Postpone
<1> QED BY Zenon, <1>1, <1>2, <1>3, <1>4

\* A packet that is no BYE is sent when an interval has passed since the last.
LEMMA ReportsAreSpaced ==
  ASSUME SchedulerInv, ByesInv, Scheduler!Next, Scheduler!Reports
  PROVE  gap >= Scheduler!LeastInterval
<1> USE DEF SchedulerInv
<1>0. byepackets \in Nat /\ byepackets' = byepackets
  BY Zenon DEF ByesInv, Scheduler!Reports
<1>1. PICK factor \in Factors, later \in Factors : Scheduler!Send(factor, later)
  <2> USE DEF Scheduler!Reports
  <2>1. ~Scheduler!Tick
    BY DEF Scheduler!Tick
  <2>2. \A sends \in BOOLEAN : ~(Scheduler!Join(sends) \/ Scheduler!Leave(sends) \/ Scheduler!Sends(sends))
    BY DEF Scheduler!Join, Scheduler!Leave, Scheduler!Sends
  <2>3. ~(Scheduler!SenderTimeout \/ Scheduler!AnalyseIncoming)
    BY DEF Scheduler!SenderTimeout, Scheduler!AnalyseIncoming
  <2>5. ~Scheduler!ChangeSSRC
    <3>1. byepackets' # byepackets + 1
      BY <1>0
    <3> QED BY Zenon, <3>1 DEF Scheduler!ChangeSSRC
  <2>4. \A factor \in Factors : ~(Scheduler!FirstCall(factor) \/ Scheduler!Postpone(factor))
    BY DEF Scheduler!FirstCall, Scheduler!Postpone
  <2> QED BY <2>1, <2>2, <2>3, <2>4, <2>5 DEF Scheduler!Next
<1>2. byepackets = 0 /\ ~byescheduled
  <2>1. byepackets > 0 => byepackets' = byepackets - 1
    BY Zenon, <1>1 DEF Scheduler!Send, Scheduler!SendBYE
  <2>2. ~(byepackets > 0)
    BY <1>0, <2>1
  <2>3. byepackets = 0
    BY <1>0, <2>2
  <2> QED BY Zenon, <2>2, <2>3 DEF ByesInv
<1>3. since >= Scheduler!CalculateTransmissionInterval(factor)
  BY <1>1, <1>2 DEF Scheduler!Send, Scheduler!Checktime
<1> DEFINE least == CHOOSE f \in Factors : \A g \in Factors : f <= g
<1>4. least \in Factors /\ least <= factor
  BY SchedulerAssumption
<1>5. Scheduler!LeastInterval = Scheduler!CalculateTransmissionInterval(least)
  BY DEF Scheduler!LeastInterval
<1> HIDE DEF least
<1>6. /\ Scheduler!CalculateTransmissionInterval(least) \in Nat
      /\ Scheduler!CalculateTransmissionInterval(factor) \in Nat
      /\ Scheduler!CalculateTransmissionInterval(least) <= Scheduler!CalculateTransmissionInterval(factor)
  BY <1>4, IntervalsGrow, SchedulerAssumption
<1> QED BY <1>3, <1>5, <1>6

\* The scheduler of reports, for any members, sizes and random factors: a
\* report is never sent sooner after the packet before it than the shortest
\* interval for the members there are then.
THEOREM ReportsAreNotTooSoon == StructuresSpec => NotTooSoon
<1>1. StructuresInit => SchedulerInv /\ ByesInv
  BY SchedulerInit DEF StructuresInit, Scheduler!Init, ByesInv
<1>2. SchedulerInv /\ ByesInv /\ [StructuresNext]_structuresVars => SchedulerInv' /\ ByesInv'
  BY SchedulerStep, ByesStep DEF StructuresNext, structuresVars
<1>3. SchedulerInv /\ ByesInv /\ [StructuresNext]_structuresVars =>
        [Scheduler!Reports => gap >= Scheduler!LeastInterval]_(Scheduler!vars)
  <2> SUFFICES ASSUME SchedulerInv, ByesInv, [StructuresNext]_structuresVars, Scheduler!Reports,
                      ~UNCHANGED Scheduler!vars
               PROVE  gap >= Scheduler!LeastInterval
    OBVIOUS
  <2>1. UNCHANGED schedulerVars => UNCHANGED Scheduler!vars
    BY DEF schedulerVars, Scheduler!vars, Scheduler!sourceVars, Scheduler!timeVars
  <2>2. Scheduler!Next
    BY <2>1 DEF StructuresNext, structuresVars
  <2> QED BY <2>2, ReportsAreSpaced
<1> QED BY <1>1, <1>2, <1>3, PTL DEF StructuresSpec, NotTooSoon, Scheduler!NotTooSoon

\* When nothing is sent for a while, the scheduler knows all of it but half of
\* the longest interval for each member that has left since.
SilenceInv(longest) ==
  /\ avgrtcppacksize \in Sizes /\ members <= MaxMembers
  /\ next \in Nat /\ left \in 0..MaxLeaves
  /\ firstcall => gap = 0 /\ ~byescheduled
  /\ ~firstcall => 0 < pmembers /\ pmembers <= members /\ next + since <= longest
  /\ byescheduled => next = 0 /\ 2 * gap <= 2 * longest + left * (longest + 1)
  /\ ~byescheduled => 2 * gap <= 2 * since + left * (longest + 1)

IsLongest(longest) ==
  /\ longest \in Nat
  /\ \A size \in Sizes, factor \in Factors :
       Scheduler!Scaled(Scheduler!AtLeast(tmin, (4 * MaxMembers * size) \div (3 * bandwidth)), factor)
         <= longest
  /\ 2 * longest + MaxLeaves * (longest + 1) <= 2 * 5 * tmin

LEMMA QuotientBelow ==
  ASSUME NEW x \in Int, NEW y \in Int, NEW b \in Nat \ {0}, NEW c \in Nat \ {0}, c * x <= y
  PROVE  x \div b <= y \div (c * b) /\ x \div b \in Int /\ y \div (c * b) \in Int
<1>1. PICK d \in Nat \ {0} : d = c * b
  OBVIOUS
<1>2. PICK q \in Int, r \in 0..(b - 1) : x \div b = q /\ x = b * q + r
  OBVIOUS
<1>3. PICK p \in Int, s \in 0..(d - 1) : y \div d = p /\ y = d * p + s
  OBVIOUS
<1>4. d * q <= c * x
  <2>1. c * x = d * q + c * r /\ c * r >= 0
    BY <1>1, <1>2
  <2> QED BY <1>1, <2>1
<1>5. d * q < d * p + d
  BY <1>3, <1>4
<1>6. q <= p
  <2>1. q > p => d * q >= d * p + d
    <3>1. q > p => q = p + 1 + (q - p - 1) /\ q - p - 1 \in Nat
      OBVIOUS
    <3>2. \A k \in Nat : d * (p + 1 + k) = d * p + d + d * k /\ d * k \in Nat
      OBVIOUS
    <3> QED BY <3>1, <3>2
  <2> QED BY <1>5, <2>1
<1> QED BY <1>1, <1>2, <1>3, <1>6

LEMMA IntervalIsBounded ==
  ASSUME SchedulerInv, NEW longest, IsLongest(longest), avgrtcppacksize \in Sizes, members <= MaxMembers,
         NEW factor \in Factors
  PROVE  Scheduler!CalculateTransmissionInterval(factor) \in 0..longest
<1>1. PICK bound : bound = (4 * MaxMembers * avgrtcppacksize) \div (3 * bandwidth)
  OBVIOUS
<1>2. /\ tmin \in Nat /\ bandwidth \in Nat \ {0} /\ MaxMembers \in Nat /\ factor \in Nat /\ avgrtcppacksize \in Nat
      /\ 4 * MaxMembers * avgrtcppacksize \in Nat /\ bound \in Int
  <2>1. tmin \in Nat /\ bandwidth \in Nat \ {0} /\ MaxMembers \in Nat /\ factor \in Nat /\ avgrtcppacksize \in Nat
    BY SchedulerAssumption
  <2>2. 4 * MaxMembers * avgrtcppacksize \in Nat /\ 3 * bandwidth \in Nat \ {0}
    BY <2>1
  <2> QED BY <1>1, <2>1, <2>2
<1>3. members * avgrtcppacksize <= MaxMembers * avgrtcppacksize /\ members \in Nat /\ senders \in Nat
      /\ senders <= members
  <2>1. members \in Nat /\ senders \in Nat /\ senders <= members
    BY DEF SchedulerInv, Scheduler!Bit
  <2> QED BY <1>2, <2>1
<1> DEFINE least == IF hassentrtcp THEN tmin ELSE tmin \div 2
           needed ==
             CASE 4 * senders > members -> (members * avgrtcppacksize) \div bandwidth
               [] 4 * senders <= members /\ aresender -> (senders * avgrtcppacksize * 4) \div bandwidth
               [] 4 * senders <= members /\ ~aresender ->
                    ((members - senders) * avgrtcppacksize * 4) \div (3 * bandwidth)
<1>4. least \in Nat /\ least <= tmin
  BY <1>2
<1>5. needed \in Int /\ needed <= bound
  <2>1. \A x \in Int : 3 * x <= 4 * MaxMembers * avgrtcppacksize =>
                      x \div bandwidth \in Int /\ x \div bandwidth <= bound
    BY <1>1, <1>2, QuotientBelow
  <2>2. CASE 4 * senders > members
    <3>1. 3 * (members * avgrtcppacksize) <= 4 * MaxMembers * avgrtcppacksize /\ members * avgrtcppacksize \in Int
      BY <1>2, <1>3
    <3>2. ~(4 * senders <= members)
      BY <1>3, <2>2
    <3> QED BY <2>1, <2>2, <3>1, <3>2
  <2>3. CASE 4 * senders <= members /\ aresender
    <3>1. senders * avgrtcppacksize * 4 \in Int
          /\ senders * avgrtcppacksize * 4 <= members * avgrtcppacksize
      <4>1. PICK k \in Nat : members = 4 * senders + k
        <5>1. members - 4 * senders \in Nat
          BY <1>3, <2>3
        <5> QED BY <1>3, <5>1
      <4>2. members * avgrtcppacksize = senders * avgrtcppacksize * 4 + k * avgrtcppacksize
            /\ k * avgrtcppacksize >= 0
        BY <1>2, <1>3, <4>1
      <4> QED BY <1>2, <1>3, <4>2
    <3>2. 3 * (senders * avgrtcppacksize * 4) <= 4 * MaxMembers * avgrtcppacksize
      BY <1>2, <1>3, <3>1
    <3>3. ~(4 * senders > members)
      BY <1>3, <2>3
    <3> QED BY <2>1, <2>3, <3>1, <3>2, <3>3
  <2>4. CASE 4 * senders <= members /\ ~aresender
    <3>1. PICK x \in Int : x = (members - senders) * avgrtcppacksize * 4
      BY <1>2, <1>3
    <3>2. x <= 4 * MaxMembers * avgrtcppacksize
      <4>1. x = 4 * (members * avgrtcppacksize) - 4 * (senders * avgrtcppacksize)
            /\ senders * avgrtcppacksize >= 0
        BY <1>2, <1>3, <3>1
      <4> QED BY <1>2, <1>3, <4>1
    <3>3. x \div (3 * bandwidth) \in Int /\ x \div (3 * bandwidth) <= bound
      <4>1. PICK w \in Nat \ {0} : w = 3 * bandwidth
        BY <1>2
      <4>2. x \div w <= (4 * MaxMembers * avgrtcppacksize) \div (1 * w) /\ x \div w \in Int
        BY <1>2, <3>2, <4>1, QuotientBelow
      <4> QED BY <1>1, <4>1, <4>2
    <3>4. ~(4 * senders > members)
      BY <1>3, <2>4
    <3> QED BY <2>4, <3>1, <3>3, <3>4
  <2> QED BY <1>3, <2>2, <2>3, <2>4 DEF SchedulerInv
<1>6. Scheduler!CalculateDeterministicInterval(aresender) = Scheduler!AtLeast(least, needed)
  BY DEF Scheduler!CalculateDeterministicInterval
<1> HIDE DEF least, needed
<1>7. PICK i, m \in Nat : /\ i = Scheduler!CalculateDeterministicInterval(aresender)
                          /\ m = Scheduler!AtLeast(tmin, bound) /\ i \in Nat /\ i <= m
  BY <1>2, <1>4, <1>5, <1>6 DEF Scheduler!AtLeast
<1>8. (m * factor) \div 100 <= longest
  BY <1>1, <1>7 DEF IsLongest, Scheduler!Scaled
<1>9. (i * factor) \div 100 \in Nat /\ (i * factor) \div 100 <= (m * factor) \div 100 /\ (m * factor) \div 100 \in Nat
  <2>1. i * factor \in Nat /\ m * factor \in Nat /\ i * factor <= m * factor
    BY <1>2, <1>7
  <2>2. \A x, y \in Nat : x <= y => x \div 100 \in Nat /\ y \div 100 \in Nat /\ x \div 100 <= y \div 100
    OBVIOUS
  <2> QED BY <2>1, <2>2
<1>10. Scheduler!CalculateTransmissionInterval(factor) = (i * factor) \div 100
  BY <1>7 DEF Scheduler!CalculateTransmissionInterval, Scheduler!Scaled
<1> QED BY <1>8, <1>9, <1>10 DEF IsLongest

\* The members that are left when one of them leaves have all but a small part
\* of the time there was.
LEMMA ShareIsMost ==
  ASSUME NEW time \in Nat, NEW all \in Nat, all >= 2
  PROVE  LET share == ((all - 1) * time) \div all
         IN share \in Nat /\ share <= time /\ time <= 2 * share + 1
<1>1. PICK share \in Nat : share = ((all - 1) * time) \div all /\ share <= time
  BY ShareIsLess
<1>2. PICK rest \in 0 .. all - 1 : (all - 1) * time = all * share + rest
  <2>1. (all - 1) * time \in Nat
    OBVIOUS
  <2> QED BY <1>1, <2>1
<1>3. PICK d \in Nat : time = share + d
  <2>1. time - share \in Nat
    BY <1>1
  <2> QED BY <1>1, <2>1
<1>4. all * d = time + rest
  <2>1. all * time = all * share + all * d /\ (all - 1) * time = all * time - time
    BY <1>1, <1>3
  <2>2. all * share \in Nat /\ all * d \in Nat /\ all * time \in Nat /\ (all - 1) * time \in Nat
    BY <1>1, <1>3
  <2> QED BY <1>2, <2>1, <2>2
<1>5. d <= share + 1
  <2>1. PICK k \in Nat : all = k + 2
    <3>1. all - 2 \in Nat
      OBVIOUS
    <3> QED BY <3>1
  <2>2. all * d = k * d + 2 * d /\ k * d \in Nat
    BY <1>3, <2>1
  <2>3. d > share + 1 => k * d >= k
    <3>1. PICK e \in Nat : e = d - 1 \/ d = 0
      <4>1. d = 0 \/ d - 1 \in Nat
        BY <1>3
      <4> QED BY <4>1
    <3>2. d = e + 1 => k * d = k * e + k /\ k * e \in Nat
      BY <2>1
    <3> QED BY <1>1, <1>3, <2>1, <2>2, <3>1, <3>2
  <2> QED BY <1>1, <1>2, <1>3, <1>4, <2>1, <2>2, <2>3
<1> QED BY <1>1, <1>3, <1>5

\* Reconsideration brings the scheduler's time since the last packet down by
\* little more than half of it.
LEMMA ReconsiderationKeepsTime ==
  ASSUME SchedulerInv, NEW count \in Nat, count >= 1, pmembers <= count + 1, next \in Nat,
         0 < pmembers, ~firstcall, Scheduler!ActiveMemberDecrease(count)
  PROVE  /\ 0 < pmembers' /\ pmembers' <= count /\ pmembers' \in Nat
         /\ next' \in Nat /\ next' <= next
         /\ since' \in Nat /\ since' <= since /\ since <= 2 * since' + 1
<1>1. pmembers \in Nat /\ since \in Nat
  BY DEF SchedulerInv
<1>2. CASE count < pmembers
  <2>1. pmembers = count + 1
    BY <1>1, <1>2
  <2>2. since' = (count * since) \div pmembers /\ pmembers' = count /\ next' = (count * next) \div pmembers
    BY <1>2 DEF Scheduler!ActiveMemberDecrease, Scheduler!PerformReverseReconsideration
  <2>3. pmembers >= 2 /\ count = pmembers - 1
    BY <2>1
  <2>4. next' \in Nat /\ next' <= next
    BY <1>1, <2>2, <2>3, ShareIsMost
  <2>5. since' \in Nat /\ since' <= since /\ since <= 2 * since' + 1
    BY <1>1, <2>2, <2>3, ShareIsMost
  <2> QED BY <2>2, <2>3, <2>4, <2>5
<1>3. CASE count >= pmembers
  <2>1. UNCHANGED <<next, since, pmembers>>
    BY <1>1, <1>3 DEF Scheduler!ActiveMemberDecrease, Scheduler!timeVars
  <2> QED BY <1>1, <1>3, <2>1
<1> QED BY <1>1, <1>2, <1>3

LEMMA SilenceInit == ASSUME NEW longest, IsLongest(longest), Scheduler!Init PROVE SilenceInv(longest)
<1>1. MaxMembers \in Nat /\ MaxLeaves \in Nat
  BY SchedulerAssumption, SilenceAssumption
<1> QED BY <1>1 DEF Scheduler!Init, SilenceInv, IsLongest

\* A member leaves.
LEMMA SilenceLeave ==
  ASSUME NEW longest, IsLongest(longest), SchedulerInv, SchedulerInv', SilenceInv(longest), NEW sends \in BOOLEAN,
         Scheduler!Leave(sends)
  PROVE  SilenceInv(longest)'
<1>1. members \in Int /\ MaxMembers \in Nat /\ pmembers \in Int
  BY SchedulerAssumption DEF SchedulerInv
<1>2. /\ members' = members - 1 /\ left < MaxLeaves /\ left' = left + 1
      /\ avgrtcppacksize' = avgrtcppacksize /\ gap' = gap
  BY DEF Scheduler!Leave
<1>3. Scheduler!ActiveMemberDecrease(members - 1)
  BY DEF Scheduler!Leave
<1>4. firstcall' = firstcall /\ byescheduled' = byescheduled
  BY Zenon DEF Scheduler!Leave
<1>5. members - 1 \in Nat /\ members - 1 >= 1
  <2>1. /\ members - 1 \in Nat /\ senders' \in Int /\ Scheduler!Bit(aresender) <= senders'
        /\ senders' + Scheduler!Bit(~aresender) <= members - 1
    BY DEF Scheduler!Leave, SchedulerInv, Scheduler!Bit
  <2>2. Scheduler!Bit(aresender) + Scheduler!Bit(~aresender) = 1
        /\ Scheduler!Bit(aresender) \in 0 .. 1 /\ Scheduler!Bit(~aresender) \in 0 .. 1
    BY DEF Scheduler!Bit
  <2> QED BY <2>1, <2>2
<1>6. MaxLeaves \in Nat /\ left' \in 0 .. MaxLeaves /\ left \in Nat /\ longest \in Nat /\ gap \in Nat /\ since \in Nat
  BY <1>2, SilenceAssumption DEF SilenceInv, IsLongest, SchedulerInv
<1>7. PICK part, more \in Nat : /\ part = left * (longest + 1) /\ more = left' * (longest + 1)
                                /\ more = part + longest + 1
  BY <1>2, <1>6
<1>8. more = part + longest + 1
  BY <1>7
<1>9. avgrtcppacksize' \in Sizes /\ members' <= MaxMembers
  BY <1>1, <1>2 DEF SilenceInv
<1>10. CASE firstcall
  <2>1. UNCHANGED <<next, since, pmembers>>
    BY <1>10, <1>3 DEF Scheduler!ActiveMemberDecrease, Scheduler!timeVars
  <2>2. gap = 0 /\ ~byescheduled /\ next \in Nat
    BY <1>10 DEF SilenceInv
  <2>3. 2 * gap' <= 2 * since' + more /\ next' \in Nat
    BY <1>2, <1>6, <1>7, <2>1, <2>2
  <2>4. firstcall' /\ ~byescheduled' /\ gap' = 0
    BY Zenon, <1>2, <1>4, <1>10, <2>2
  <2> QED BY <1>6, <1>7, <1>9, <2>3, <2>4 DEF SilenceInv
<1>11. CASE ~firstcall
  <2>1. 0 < pmembers /\ pmembers <= members /\ next + since <= longest /\ next \in Nat
    BY <1>11 DEF SilenceInv
  <2>2. /\ 0 < pmembers' /\ pmembers' <= members - 1 /\ pmembers' \in Nat
        /\ next' \in Nat /\ next' <= next
        /\ since' \in Nat /\ since' <= since /\ since <= 2 * since' + 1
    BY <1>1, <1>5, <1>11, <1>3, <2>1, ReconsiderationKeepsTime
  <2>3. next' + since' <= longest /\ pmembers' <= members'
    <3>1. \A n, s, m, r \in Nat : n + s <= longest /\ m <= n /\ r <= s => m + r <= longest
      BY <1>6
    <3>2. next' + since' <= longest
      BY <1>6, <2>1, <2>2, <3>1
    <3> QED BY <1>2, <2>2, <3>2
  <2>4. ~firstcall'
    BY Zenon, <1>4, <1>9, <1>11
  <2>5. CASE byescheduled
    <3>1. next = 0 /\ 2 * gap <= 2 * longest + part
      BY <1>7, <2>5 DEF SilenceInv
    <3>2. next' = 0 /\ 2 * gap' <= 2 * longest + more
      BY <1>2, <1>6, <1>7, <2>2, <3>1
    <3>3. byescheduled'
      BY Zenon, <1>4, <2>5
    <3> QED BY <1>6, <1>7, <1>9, <2>2, <2>3, <2>4, <3>2, <3>3 DEF SilenceInv
  <2>6. CASE ~byescheduled
    <3>1. 2 * gap <= 2 * since + part
      BY <1>7, <2>6 DEF SilenceInv
    <3>2. \A g, n, s, r \in Nat :
            n + s <= longest /\ r <= s /\ s <= 2 * r + 1 /\ 2 * g <= 2 * s + part => 2 * g <= 2 * r + more
      BY <1>6, <1>8
    <3>4. 2 * gap <= 2 * since' + more
      BY <1>6, <2>1, <2>2, <3>1, <3>2
    <3>3. ~byescheduled'
      BY Zenon, <1>4, <2>6
    <3> QED BY <1>6, <1>7, <1>9, <2>2, <2>3, <2>4, <1>2, <3>4, <3>3 DEF SilenceInv
  <2> QED BY <2>5, <2>6
<1> QED BY <1>10, <1>11

\* Members come, send, and are heard.
LEMMA SilenceMembers ==
  ASSUME NEW longest, IsLongest(longest), SchedulerInv, SilenceInv(longest),
         \/ \E sends \in BOOLEAN : Scheduler!Join(sends) \/ Scheduler!Sends(sends)
         \/ Scheduler!SenderTimeout \/ Scheduler!AnalyseIncoming
  PROVE  SilenceInv(longest)'
<1>1. members \in Int /\ MaxMembers \in Nat /\ pmembers \in Int
  BY SchedulerAssumption DEF SchedulerInv
<1>2. UNCHANGED <<firstcall, byescheduled, next, since, pmembers, gap, left>>
  BY Zenon DEF Scheduler!Join, Scheduler!Sends, Scheduler!SenderTimeout, Scheduler!AnalyseIncoming,
               Scheduler!timeVars
<1>3. members' = members \/ (members < MaxMembers /\ members' = members + 1)
  BY Zenon DEF Scheduler!Join, Scheduler!Sends, Scheduler!SenderTimeout, Scheduler!AnalyseIncoming,
               Scheduler!sourceVars
<1>4. avgrtcppacksize' = avgrtcppacksize \/ \E size \in Sizes : Scheduler!Analyse(size)
  BY Zenon DEF Scheduler!Join, Scheduler!Sends, Scheduler!SenderTimeout, Scheduler!AnalyseIncoming
<1>5. avgrtcppacksize' \in Sizes
  BY <1>4 DEF Scheduler!Analyse, SilenceInv
<1> QED BY <1>1, <1>2, <1>3, <1>5 DEF SilenceInv

LEMMA SilenceTick ==
  ASSUME NEW longest, IsLongest(longest), SchedulerInv, SilenceInv(longest), Scheduler!Tick
  PROVE  SilenceInv(longest)'
<1>1. UNCHANGED <<firstcall, byescheduled, pmembers, left, members, avgrtcppacksize>>
  BY Zenon DEF Scheduler!Tick, Scheduler!sourceVars
<1>2. since \in Nat /\ gap \in Nat /\ next \in Nat /\ longest \in Nat /\ left \in 0 .. MaxLeaves /\ MaxLeaves \in Nat
  BY SilenceAssumption DEF SilenceInv, IsLongest, SchedulerInv
<1>3. PICK part \in Nat : part = left * (longest + 1)
  BY <1>2
<1>4. CASE firstcall
  <2>1. next' = Scheduler!AtLeast(next - 1, 0) /\ since' = since /\ gap' = gap
    BY <1>4 DEF Scheduler!Tick
  <2>2. next' \in Nat
    BY <1>2, <2>1 DEF Scheduler!AtLeast
  <2> QED BY <1>1, <1>2, <1>4, <2>1, <2>2 DEF SilenceInv
<1>5. CASE ~firstcall
  <2>1. next' = Scheduler!AtLeast(next - 1, 0) /\ since' = since + 1 /\ gap' = gap + 1 /\ next > 0
    BY <1>5 DEF Scheduler!Tick
  <2>2. next' = next - 1 /\ next' \in Nat
    BY <1>2, <2>1 DEF Scheduler!AtLeast
  <2>3. ~byescheduled
    BY <1>2, <2>1 DEF SilenceInv
  <2>4. 2 * gap <= 2 * since + part /\ next + since <= longest
    BY <1>3, <1>5, <2>3 DEF SilenceInv
  <2>5. 2 * gap' <= 2 * since' + part /\ next' + since' <= longest
    BY <1>2, <2>1, <2>2, <2>4
  <2>6. 2 * gap' <= 2 * since' + left' * (longest + 1)
    BY <1>1, <1>3, <2>5
  <2>7. ~firstcall' /\ ~byescheduled'
    BY Zenon, <1>1, <1>5, <2>3
  <2> QED BY <1>1, <2>2, <2>5, <2>6, <2>7 DEF SilenceInv
<1> QED BY <1>4, <1>5

\* The session changes its SSRC, so that a BYE is due at once.
LEMMA SilenceChange ==
  ASSUME NEW longest, IsLongest(longest), SchedulerInv, SilenceInv(longest), Scheduler!ChangeSSRC
  PROVE  SilenceInv(longest)'
<1>1. UNCHANGED <<left, gap, members, avgrtcppacksize>>
  BY Zenon DEF Scheduler!ChangeSSRC
<1>2. since \in Nat /\ gap \in Nat /\ next \in Nat /\ longest \in Nat /\ left \in 0 .. MaxLeaves /\ MaxLeaves \in Nat
      /\ members \in Int /\ pmembers \in Int /\ 1 <= members
  BY SilenceAssumption DEF SilenceInv, IsLongest, SchedulerInv, Scheduler!Bit
<1>3. PICK part \in Nat : part = left * (longest + 1)
  BY <1>2
<1>4. CASE UNCHANGED <<firstcall, next, since, pmembers, byescheduled>>
  BY <1>1, <1>4 DEF SilenceInv
<1>5. CASE ~byescheduled /\ Scheduler!ScheduleBYEPacket
  <2>1. byescheduled' /\ ~firstcall'
    BY Zenon, <1>5 DEF Scheduler!ScheduleBYEPacket
  <2>2. next' = 0 /\ since' = 0
    BY <1>5 DEF Scheduler!ScheduleBYEPacket
  <2>3. 0 < pmembers' /\ pmembers' <= members'
    BY <1>1, <1>2, <1>5 DEF Scheduler!ScheduleBYEPacket, SilenceInv
  <2>4. 2 * gap <= 2 * longest + part
    <3>1. CASE firstcall
      BY <1>2, <1>3, <3>1 DEF SilenceInv
    <3>2. CASE ~firstcall
      <4>1. 2 * gap <= 2 * since + part /\ next + since <= longest
        BY <1>3, <1>5, <3>2 DEF SilenceInv
      <4> QED BY <1>2, <1>3, <4>1
    <3> QED BY <3>1, <3>2
  <2>5. 2 * gap' <= 2 * longest + left' * (longest + 1)
    BY <1>1, <1>3, <2>4
  <2> QED BY <1>1, <1>2, <2>1, <2>2, <2>3, <2>5 DEF SilenceInv
<1>6. \/ UNCHANGED <<firstcall, next, since, pmembers, byescheduled>>
      \/ ~byescheduled /\ Scheduler!ScheduleBYEPacket
  BY Zenon DEF Scheduler!ChangeSSRC, Scheduler!ScheduleBYEPacket, Scheduler!timeVars, SilenceInv
<1> QED BY <1>4, <1>5, <1>6

\* The poll thread looks whether a packet is to be sent.
LEMMA SilencePoll ==
  ASSUME NEW longest, IsLongest(longest), SchedulerInv, SilenceInv(longest), NEW factor \in Factors,
         Scheduler!FirstCall(factor) \/ Scheduler!Postpone(factor)
  PROVE  SilenceInv(longest)'
<1>1. UNCHANGED <<members, avgrtcppacksize, byescheduled, left>> /\ ~firstcall' /\ pmembers' = members
  <2>1. CASE Scheduler!FirstCall(factor)
    BY Zenon, <2>1 DEF Scheduler!FirstCall, Scheduler!sourceVars
  <2>2. CASE Scheduler!Postpone(factor)
    BY Zenon, <2>2 DEF Scheduler!Postpone, Scheduler!sourceVars, Scheduler!Due
  <2> QED BY Zenon, <2>1, <2>2
<1>2. since \in Nat /\ gap \in Nat /\ next \in Nat /\ longest \in Nat /\ left \in 0 .. MaxLeaves /\ MaxLeaves \in Nat
      /\ members \in Int /\ 1 <= members
  BY SilenceAssumption DEF SilenceInv, IsLongest, SchedulerInv, Scheduler!Bit
<1>3. PICK part \in Nat : part = left * (longest + 1)
  BY <1>2
<1>4. PICK interval \in 0 .. longest : interval = Scheduler!CalculateTransmissionInterval(factor)
  BY IntervalIsBounded DEF SilenceInv
<1>5. 0 < pmembers' /\ pmembers' <= members' /\ avgrtcppacksize' \in Sizes /\ members' <= MaxMembers
  BY <1>1, <1>2 DEF SilenceInv
<1>6. CASE Scheduler!FirstCall(factor)
  <2>1. ~byescheduled /\ since' = 0 /\ gap' = 0 /\ next' = interval
    BY <1>4, <1>6 DEF Scheduler!FirstCall, SilenceInv
  <2>2. ~byescheduled'
    BY Zenon, <1>1, <2>1
  <2>3. next' + since' <= longest /\ next' \in Nat /\ 2 * gap' <= 2 * since' + left' * (longest + 1)
    BY <1>1, <1>2, <1>3, <2>1
  <2> QED BY <1>1, <1>2, <1>5, <2>2, <2>3 DEF SilenceInv
<1>7. CASE Scheduler!Postpone(factor)
  <2>1. ~byescheduled /\ since < interval
    BY <1>2, <1>4, <1>7 DEF Scheduler!Postpone, Scheduler!Checktime
  <2>2. next' = interval - since /\ since' = since /\ gap' = gap /\ ~firstcall
    BY <1>4, <1>7, <2>1 DEF Scheduler!Postpone, Scheduler!Checktime, Scheduler!Due
  <2>3. ~byescheduled'
    BY Zenon, <1>1, <2>1
  <2>4. next' + since' <= longest /\ next' \in Nat
    BY <1>2, <1>4, <2>1, <2>2
  <2>5. 2 * gap' <= 2 * since' + left' * (longest + 1)
    BY <1>1, <2>1, <2>2 DEF SilenceInv
  <2> QED BY <1>1, <1>2, <1>5, <2>3, <2>4, <2>5 DEF SilenceInv
<1> QED BY <1>6, <1>7

LEMMA SilenceSend ==
  ASSUME NEW longest, IsLongest(longest), SchedulerInv, SilenceInv(longest), NEW factor \in Factors,
         NEW later \in Factors, Scheduler!Send(factor, later)
  PROVE  SilenceInv(longest)'
<1>1. since' = 0 /\ gap' = 0 /\ left' = 0 /\ pmembers' = members /\ members' = members
  BY Zenon DEF Scheduler!Send, Scheduler!sourceVars
<1>2. ~firstcall'
  BY Zenon DEF Scheduler!Send, Scheduler!Due
<1>3. avgrtcppacksize' = avgrtcppacksize \/ \E size \in Sizes : Scheduler!Analyse(size)
  BY Zenon DEF Scheduler!Send, Scheduler!SendBYE, Scheduler!SendReport
<1>4. avgrtcppacksize' \in Sizes
  BY <1>3 DEF Scheduler!Analyse, SilenceInv
<1>5. longest \in Nat /\ MaxLeaves \in Nat /\ members \in Int /\ 1 <= members /\ members <= MaxMembers
  BY SilenceAssumption DEF SilenceInv, IsLongest, SchedulerInv, Scheduler!Bit
<1>6. Scheduler!CalculateTransmissionInterval(later) \in 0 .. longest
  BY IntervalIsBounded DEF SilenceInv
<1>7. CASE byescheduled'
  <2>1. next' = 0
    BY <1>7 DEF Scheduler!Send
  <2> QED BY <1>1, <1>2, <1>4, <1>5, <1>7, <2>1 DEF SilenceInv
<1>8. CASE ~byescheduled'
  <2>1. next' \in 0 .. longest
    BY <1>6, <1>8 DEF Scheduler!Send
  <2>2. 2 * gap' <= 2 * since' + left' * (longest + 1)
    <3>1. 0 * (longest + 1) = 0
      BY <1>5
    <3> QED BY <1>1, <3>1
  <2>3. next' \in Nat /\ next' + since' <= longest
    <3>1. \A n \in 0 .. longest : n \in Nat /\ n + 0 <= longest
      BY <1>5
    <3> QED BY <1>1, <2>1, <3>1
  <2>4. left' \in 0 .. MaxLeaves
    BY <1>1, <1>5
  <2>5. 0 < pmembers' /\ pmembers' <= members' /\ members' <= MaxMembers
    BY <1>1, <1>5
  <2> QED BY <1>2, <1>4, <1>8, <2>2, <2>3, <2>4, <2>5 DEF SilenceInv
<1> QED BY <1>7, <1>8

LEMMA SilenceStep ==
  ASSUME NEW longest, IsLongest(longest), SchedulerInv, SchedulerInv', SilenceInv(longest),
         Scheduler!Next \/ UNCHANGED schedulerVars
  PROVE  SilenceInv(longest)'
<1>1. CASE UNCHANGED schedulerVars
  BY <1>1 DEF schedulerVars, SilenceInv
<1>2. CASE Scheduler!Tick
  BY <1>2, SilenceTick
<1>3. CASE \E sends \in BOOLEAN : Scheduler!Join(sends) \/ Scheduler!Sends(sends)
  BY Zenon, <1>3, SilenceMembers
<1>4. CASE Scheduler!SenderTimeout \/ Scheduler!AnalyseIncoming
  BY Zenon, <1>4, SilenceMembers
<1>5. CASE \E sends \in BOOLEAN : Scheduler!Leave(sends)
  BY <1>5, SilenceLeave
<1>6. CASE Scheduler!ChangeSSRC
  BY <1>6, SilenceChange
<1>7. CASE \E factor \in Factors : Scheduler!FirstCall(factor) \/ Scheduler!Postpone(factor)
  BY <1>7, SilencePoll
<1>8. CASE \E factor, later \in Factors : Scheduler!Send(factor, later)
  BY <1>8, SilenceSend
<1> QED BY Zenon, <1>1, <1>2, <1>3, <1>4, <1>5, <1>6, <1>7, <1>8 DEF Scheduler!Next

\* A session is taken for gone after five of the shortest intervals.
LEMMA SilenceIsShort ==
  ASSUME NEW longest, IsLongest(longest), SchedulerInv, SilenceInv(longest), hassentrtcp
  PROVE  gap <= 5 * Scheduler!CalculateDeterministicInterval(FALSE)
<1>1. /\ tmin \in Nat /\ bandwidth \in Nat \ {0} /\ longest \in Nat /\ MaxLeaves \in Nat /\ gap \in Nat
      /\ since \in Nat /\ left \in 0 .. MaxLeaves /\ next \in Nat
  BY SchedulerAssumption, SilenceAssumption DEF SilenceInv, SchedulerInv, IsLongest
<1>2. PICK part, most \in Nat : /\ part = left * (longest + 1) /\ most = MaxLeaves * (longest + 1)
                                /\ part <= most
  <2>1. PICK rest \in Nat : MaxLeaves = left + rest
    <3>1. MaxLeaves - left \in Nat
      BY <1>1
    <3> QED BY <1>1, <3>1
  <2>2. MaxLeaves * (longest + 1) = left * (longest + 1) + rest * (longest + 1)
        /\ rest * (longest + 1) \in Nat /\ left * (longest + 1) \in Nat
    BY <1>1, <2>1
  <2> QED BY <1>1, <2>2
<1>3. 2 * longest + most <= 10 * tmin
  BY <1>1, <1>2 DEF IsLongest
<1>4. 2 * gap <= 2 * longest + part
  <2>1. CASE firstcall
    BY <1>1, <1>2, <2>1 DEF SilenceInv
  <2>2. CASE ~firstcall /\ byescheduled
    BY <1>2, <2>2 DEF SilenceInv
  <2>3. CASE ~firstcall /\ ~byescheduled
    <3>1. 2 * gap <= 2 * since + part /\ next + since <= longest
      BY <1>2, <2>3 DEF SilenceInv
    <3> QED BY <1>1, <1>2, <3>1
  <2> QED BY <2>1, <2>2, <2>3
<1>5. gap <= 5 * tmin
  BY <1>1, <1>2, <1>3, <1>4
<1> DEFINE least == IF hassentrtcp THEN tmin ELSE tmin \div 2
           needed ==
             CASE 4 * senders > members -> (members * avgrtcppacksize) \div bandwidth
               [] 4 * senders <= members /\ FALSE -> (senders * avgrtcppacksize * 4) \div bandwidth
               [] 4 * senders <= members /\ ~FALSE ->
                    ((members - senders) * avgrtcppacksize * 4) \div (3 * bandwidth)
<1>6. least = tmin
  OBVIOUS
<1>7. needed \in Int
  <2>1. (members * avgrtcppacksize) \div bandwidth \in Int
        /\ ((members - senders) * avgrtcppacksize * 4) \div (3 * bandwidth) \in Int
    BY <1>1 DEF SchedulerInv
  <2>2. 4 * senders > members \/ 4 * senders <= members
    BY DEF SchedulerInv
  <2> QED BY <2>1, <2>2
<1>8. Scheduler!CalculateDeterministicInterval(FALSE) = Scheduler!AtLeast(least, needed)
  BY DEF Scheduler!CalculateDeterministicInterval
<1> HIDE DEF least, needed
<1>9. Scheduler!AtLeast(tmin, needed) \in Int /\ tmin <= Scheduler!AtLeast(tmin, needed)
  BY <1>1, <1>7 DEF Scheduler!AtLeast
<1>10. PICK i \in Int : i = Scheduler!AtLeast(tmin, needed) /\ tmin <= i
  BY <1>9
<1>11. gap <= 5 * i
  BY <1>1, <1>5, <1>10
<1> QED BY <1>6, <1>8, <1>10, <1>11

\* The scheduler of reports, for any members, sizes and random factors with
\* which the longest interval is short enough: a session that has sent a packet
\* sends the next before those who see the same members take it for gone.
THEOREM SessionsStayMembers == StructuresSpec => []StaysMember
<1>1. PICK longest \in 0 .. 5 * tmin : IsLongest(longest)
  <2>1. tmin \in Nat
    BY SchedulerAssumption
  <2> QED BY <2>1, SilenceAssumption DEF IsLongest
<1>2. StructuresInit => SchedulerInv /\ SilenceInv(longest)
  BY <1>1, SchedulerInit, SilenceInit DEF StructuresInit
<1>3. SchedulerInv /\ SilenceInv(longest) /\ [StructuresNext]_structuresVars
        => SchedulerInv' /\ SilenceInv(longest)'
  <2> SUFFICES ASSUME SchedulerInv, SilenceInv(longest), [StructuresNext]_structuresVars
               PROVE  SchedulerInv' /\ SilenceInv(longest)'
    OBVIOUS
  <2>1. Scheduler!Next \/ UNCHANGED schedulerVars
    BY DEF StructuresNext, structuresVars
  <2>2. SchedulerInv'
    BY <2>1, SchedulerStep
  <2> QED BY <1>1, <2>1, <2>2, SilenceStep
<1>4. SchedulerInv /\ SilenceInv(longest) => StaysMember
  BY <1>1, SilenceIsShort DEF StaysMember, Scheduler!StaysMember
<1> QED BY <1>2, <1>3, <1>4, PTL DEF StructuresSpec
-----------------------------------------------------------------------------
(* What a participant says of itself.  The invariant gives the variables   *)
(* their types, and says what the information is before anything was said. *)

SaidItems == Fixed \cup Changing \cup PrivPrefixes

SaidFirst(f, s) == IF s = <<>> THEN f = {} ELSE f = s[1]
SaidLast(f, s) == s # <<>> => f = s[Len(s)]

DescriptionInv ==
  /\ info \in [Fixed \cup Changing -> Values \cup {{}}]
  /\ said \in [SaidItems -> Seq(Values)]
  /\ privitems \in Seq(PrivPrefixes \X Values)
  /\ \A item \in Fixed : SaidFirst(info[item], said[item])
  /\ \A item \in Changing : SaidLast(info[item], said[item])
  /\ \A i \in 1..Len(privitems) :
       /\ said[privitems[i][1]] # <<>>
       /\ SaidLast(privitems[i][2], said[privitems[i][1]])
  /\ \A i, j \in 1..Len(privitems) : privitems[i][1] = privitems[j][1] => i = j
  /\ info["CNAME"] # {} => validated

\* What is said comes last; what was said first stays so, if there was anything.
LEMMA SaysLast ==
  ASSUME NEW item \in SaidItems, NEW value \in Values, Description!Says(item, value),
         said \in [SaidItems -> Seq(Values)]
  PROVE  /\ said' \in [SaidItems -> Seq(Values)]
         /\ \A other \in SaidItems \ {item} : said'[other] = said[other]
         /\ said'[item] # <<>> /\ \A f : SaidLast(f, said'[item]) <=> f = value
         /\ \A f : SaidFirst(f, said[item]) => SaidFirst(IF f = {} THEN value ELSE f, said'[item])
<1>1. PICK s, t : s = said[item] /\ t = said'[item]
  OBVIOUS
<1>2. s \in Seq(Values)
  BY <1>1
<1>3. t = IF s = <<>> THEN <<value>> ELSE IF Head(s) = {} THEN <<value>> ELSE <<Head(s), value>>
  BY <1>1 DEF Description!Says
<1>4. t \in Seq(Values) /\ t # <<>> /\ t[Len(t)] = value
  <2>1. CASE s = <<>>
    BY <1>3, <2>1
  <2>2. CASE s # <<>> /\ Head(s) = {}
    BY <1>3, <2>2
  <2>3. CASE s # <<>> /\ Head(s) # {}
    <3>1. Head(s) \in Values
      BY <1>2, <2>3
    <3> QED BY <1>3, <2>3, <3>1
  <2> QED BY <2>1, <2>2, <2>3
<1>5. said' = [said EXCEPT ![item] = t]
  BY <1>1, <1>3 DEF Description!Says
<1>6. said' \in [SaidItems -> Seq(Values)] /\ \A other \in SaidItems \ {item} : said'[other] = said[other]
  BY <1>4, <1>5
<1>7. ASSUME NEW f, SaidFirst(f, s) PROVE SaidFirst(IF f = {} THEN value ELSE f, t)
  <2>1. CASE s = <<>>
    <3>1. f = {} /\ t = <<value>>
      BY <1>3, <1>7, <2>1 DEF SaidFirst
    <3> QED BY <3>1 DEF SaidFirst
  <2>2. CASE s # <<>> /\ Head(s) = {}
    <3>1. f = {} /\ t = <<value>>
      BY <1>2, <1>3, <1>7, <2>2 DEF SaidFirst
    <3> QED BY <3>1 DEF SaidFirst
  <2>3. CASE s # <<>> /\ Head(s) # {}
    <3>1. f = Head(s) /\ f # {} /\ t = <<f, value>>
      BY <1>2, <1>3, <1>7, <2>3 DEF SaidFirst
    <3> QED BY <3>1 DEF SaidFirst
  <2> QED BY <2>1, <2>2, <2>3
<1>8. \A f : SaidLast(f, t) <=> f = value
  BY <1>4 DEF SaidLast
<1> QED BY <1>1, <1>4, <1>6, <1>7, <1>8

LEMMA ItemKeeps ==
  ASSUME DescriptionInv, NEW item \in Fixed \cup Changing, NEW value \in Values,
         Description!ProcessSDESItem(item, value)
  PROVE  DescriptionInv'
<1> USE DEF DescriptionInv
<1>1. /\ info' = [info EXCEPT ![item] = IF item \in Changing \/ @ = {} THEN value ELSE @]
      /\ validated' = (validated \/ (item = "CNAME" /\ info["CNAME"] = {}))
      /\ privitems' = privitems
  BY DEF Description!ProcessSDESItem, Description!SetInfo
<1>2. /\ said' \in [SaidItems -> Seq(Values)]
      /\ \A other \in SaidItems \ {item} : said'[other] = said[other]
      /\ \A f : SaidLast(f, said'[item]) <=> f = value
      /\ \A f : SaidFirst(f, said[item]) => SaidFirst(IF f = {} THEN value ELSE f, said'[item])
  <2>1. item \in SaidItems /\ Description!Says(item, value)
    BY DEF SaidItems, Description!ProcessSDESItem
  <2> QED BY <2>1, SaysLast
<1>3. info' \in [Fixed \cup Changing -> Values \cup {{}}]
  BY <1>1
<1>4. ASSUME NEW other \in Fixed PROVE SaidFirst(info'[other], said'[other])
  <2>1. CASE other = item
    <3>1. item \notin Changing
      BY <2>1, DescriptionAssumption
    <3>2. info'[item] = IF info[item] = {} THEN value ELSE info[item]
      BY <1>1, <3>1
    <3>3. SaidFirst(info[item], said[item])
      BY <2>1
    <3> QED BY <1>2, <2>1, <3>2, <3>3
  <2>2. CASE other # item
    <3>1. info'[other] = info[other] /\ said'[other] = said[other] /\ SaidFirst(info[other], said[other])
      BY <1>1, <1>2, <2>2 DEF SaidItems
    <3> QED BY <3>1
  <2> QED BY <2>1, <2>2
<1>5. ASSUME NEW other \in Changing PROVE SaidLast(info'[other], said'[other])
  <2>1. CASE other = item
    <3>1. info'[item] = value
      BY <1>1, <2>1
    <3> QED BY <1>2, <2>1, <3>1
  <2>2. CASE other # item
    <3>1. info'[other] = info[other] /\ said'[other] = said[other] /\ SaidLast(info[other], said[other])
      BY <1>1, <1>2, <2>2 DEF SaidItems
    <3> QED BY <3>1
  <2> QED BY <2>1, <2>2
<1>6. ASSUME NEW i \in 1..Len(privitems)
      PROVE  said'[privitems[i][1]] # <<>> /\ SaidLast(privitems[i][2], said'[privitems[i][1]])
  <2>1. privitems[i][1] \in PrivPrefixes
    OBVIOUS
  <2>2. said'[privitems[i][1]] = said[privitems[i][1]]
    BY <1>2, <2>1, DescriptionAssumption DEF SaidItems
  <2> QED BY <2>2
<1>7. info'["CNAME"] # {} => validated'
  <2>1. CASE info["CNAME"] = {} /\ item # "CNAME"
    <3>1. info'["CNAME"] = info["CNAME"]
      BY <1>1, <2>1, DescriptionAssumption
    <3> QED BY <2>1, <3>1
  <2>2. CASE info["CNAME"] = {} /\ item = "CNAME"
    BY <1>1, <2>2
  <2>3. CASE info["CNAME"] # {}
    BY <1>1, <2>3
  <2> QED BY <2>1, <2>2, <2>3
<1> QED BY <1>1, <1>2, <1>3, <1>4, <1>5, <1>6, <1>7

LEMMA PrivateItemKeeps ==
  ASSUME DescriptionInv, NEW prefix \in PrivPrefixes, NEW value \in Values,
         Description!ProcessPrivateSDESItem(prefix, value)
  PROVE  DescriptionInv'
<1> USE DEF DescriptionInv
<1>1. UNCHANGED <<info, validated>> /\ Description!SetPrivateValue(prefix, value)
  BY DEF Description!ProcessPrivateSDESItem
<1>2. /\ said' \in [SaidItems -> Seq(Values)]
      /\ \A other \in SaidItems \ {prefix} : said'[other] = said[other]
      /\ said'[prefix] # <<>> /\ \A f : SaidLast(f, said'[prefix]) <=> f = value
  <2>1. prefix \in SaidItems /\ Description!Says(prefix, value)
    BY DEF SaidItems, Description!ProcessPrivateSDESItem
  <2> QED BY <2>1, SaysLast
<1>3. /\ \A item \in Fixed : SaidFirst(info[item], said'[item])
      /\ \A item \in Changing : SaidLast(info[item], said'[item])
  <2>1. \A item \in Fixed \cup Changing : item \in SaidItems \ {prefix}
    BY DescriptionAssumption DEF SaidItems
  <2> QED BY <1>2, <2>1
<1> DEFINE IsEntry(p) == /\ p \in PrivPrefixes \X Values
                         /\ said'[p[1]] # <<>> /\ SaidLast(p[2], said'[p[1]])
<1>4. IsEntry(<<prefix, value>>)
  BY <1>2
<1>5. \A i \in 1..Len(privitems) : privitems[i][1] # prefix => IsEntry(privitems[i])
  <2> SUFFICES ASSUME NEW i \in 1..Len(privitems), privitems[i][1] # prefix PROVE IsEntry(privitems[i])
    OBVIOUS
  <2>1. privitems[i] \in PrivPrefixes \X Values
    OBVIOUS
  <2>2. said'[privitems[i][1]] = said[privitems[i][1]]
    BY <1>2, <2>1 DEF SaidItems
  <2> QED BY <2>1, <2>2
<1>6. PICK n \in Nat : n = Len(privitems) /\ DOMAIN privitems = 1..n
  OBVIOUS
<1>7. /\ privitems' \in Seq(PrivPrefixes \X Values)
      /\ \A i \in 1..Len(privitems') : IsEntry(privitems'[i])
      /\ \A i, j \in 1..Len(privitems') : privitems'[i][1] = privitems'[j][1] => i = j
  <2>1. CASE Description!Has(prefix)
    <3>1. PICK e \in 1..n : e = Description!Entry(prefix) /\ privitems[e][1] = prefix
      <4>1. \E e \in 1..n : privitems[e][1] = prefix
        BY <1>6, <2>1 DEF Description!Has
      <4> QED BY <1>6, <4>1 DEF Description!Entry
    <3>2. privitems' = [privitems EXCEPT ![e] = <<prefix, value>>]
      BY <1>1, <2>1, <3>1 DEF Description!SetPrivateValue
    <3>3. Len(privitems') = n /\ privitems' \in Seq(PrivPrefixes \X Values)
      BY <1>6, <3>1, <3>2
    <3>4. \A i \in 1..n : privitems'[i] = IF i = e THEN <<prefix, value>> ELSE privitems[i]
      BY <1>6, <3>2
    <3>5. \A i \in 1..n : i # e => privitems[i][1] # prefix
      BY <1>6, <3>1
    <3>6. \A i \in 1..n : IsEntry(privitems'[i])
      BY <1>4, <1>5, <1>6, <3>4, <3>5
    <3>7. \A i \in 1..n : privitems'[i][1] = privitems[i][1]
      BY <3>1, <3>4
    <3> QED BY <1>6, <3>3, <3>6, <3>7
  <2>2. CASE ~Description!Has(prefix)
    <3>1. \A i \in 1..n : privitems[i][1] # prefix
      BY <1>6, <2>2 DEF Description!Has
    <3>2. \A i \in 1..n : IsEntry(privitems[i])
      BY <1>5, <1>6, <3>1
    <3>3. CASE privitems' = privitems
      BY <1>6, <3>2, <3>3
    <3>4. CASE privitems' = <<<<prefix, value>>>> \o privitems
      <4>1. /\ Len(privitems') = n + 1 /\ privitems' \in Seq(PrivPrefixes \X Values)
            /\ privitems'[1] = <<prefix, value>>
            /\ \A i \in 2..(n + 1) : privitems'[i] = privitems[i - 1]
        BY <1>6, <3>4
      <4>2. \A i \in 1..(n + 1) : i # 1 => i \in 2..(n + 1) /\ i - 1 \in 1..n
        OBVIOUS
      <4>3. ASSUME NEW i \in 1..(n + 1) PROVE IsEntry(privitems'[i])
        <5>1. CASE i = 1
          BY <1>4, <4>1, <5>1
        <5>2. CASE i # 1
          BY <3>2, <4>1, <4>2, <5>2
        <5> QED BY <5>1, <5>2
      <4>4. ASSUME NEW i \in 1..(n + 1), NEW j \in 1..(n + 1), privitems'[i][1] = privitems'[j][1]
            PROVE  i = j
        <5>1. CASE i = 1 /\ j # 1
          BY <3>1, <4>1, <4>2, <4>4, <5>1
        <5>2. CASE i # 1 /\ j = 1
          BY <3>1, <4>1, <4>2, <4>4, <5>2
        <5>3. CASE i # 1 /\ j # 1
          <6>1. privitems[i - 1][1] = privitems[j - 1][1] /\ i - 1 \in 1..n /\ j - 1 \in 1..n
            BY <4>1, <4>2, <4>4, <5>3
          <6>2. i - 1 = j - 1
            BY <1>6, <6>1
          <6> QED BY <6>2
        <5> QED BY <5>1, <5>2, <5>3
      <4> QED BY <4>1, <4>3, <4>4
    <3> QED BY <1>1, <2>2, <3>3, <3>4 DEF Description!SetPrivateValue
  <2> QED BY <2>1, <2>2
<1> QED BY <1>1, <1>2, <1>3, <1>7

LEMMA DeletedPrefixKeeps ==
  ASSUME DescriptionInv, NEW prefix \in PrivPrefixes, Description!DeletePrivatePrefix(prefix)
  PROVE  DescriptionInv'
<1> USE DEF DescriptionInv
<1>1. /\ UNCHANGED <<info, validated>> /\ said' = [said EXCEPT ![prefix] = <<>>]
      /\ privitems' = Description!RemoveAt(privitems, Description!Entry(prefix))
  BY DEF Description!DeletePrivatePrefix
<1>2. /\ said' \in [SaidItems -> Seq(Values)]
      /\ \A other \in SaidItems \ {prefix} : said'[other] = said[other]
  BY <1>1 DEF SaidItems
<1>3. /\ \A item \in Fixed : SaidFirst(info[item], said'[item])
      /\ \A item \in Changing : SaidLast(info[item], said'[item])
  <2>1. \A item \in Fixed \cup Changing : item \in SaidItems \ {prefix}
    BY DescriptionAssumption DEF SaidItems
  <2> QED BY <1>2, <2>1
<1>4. PICK n \in Nat : n = Len(privitems) /\ DOMAIN privitems = 1..n
  OBVIOUS
<1>5. PICK e \in 1..n : e = Description!Entry(prefix) /\ privitems[e][1] = prefix
  <2>1. \E e \in 1..n : privitems[e][1] = prefix
    BY <1>4 DEF Description!DeletePrivatePrefix, Description!Has
  <2> QED BY <1>4, <2>1 DEF Description!Entry
<1>6. PICK a, b : a = SubSeq(privitems, 1, e - 1) /\ b = SubSeq(privitems, e + 1, n)
  OBVIOUS
<1>7. privitems' = a \o b
  BY <1>1, <1>4, <1>5, <1>6 DEF Description!RemoveAt
<1>8. a \in Seq(PrivPrefixes \X Values) /\ Len(a) = e - 1 /\ \A i \in 1..(e - 1) : a[i] = privitems[i]
  BY <1>4, <1>6
<1>9. b \in Seq(PrivPrefixes \X Values) /\ Len(b) = n - e /\ \A i \in 1..(n - e) : b[i] = privitems[e + i]
  BY <1>4, <1>6
<1>10. \A k \in 1..(Len(a) + Len(b)) : (a \o b)[k] = IF k <= Len(a) THEN a[k] ELSE b[k - Len(a)]
  <2>1. a \in Seq(PrivPrefixes \X Values) /\ b \in Seq(PrivPrefixes \X Values)
    BY <1>8, <1>9
  <2> QED BY ONLY Zenon, <2>1, ConcatProperties
<1>11. privitems' \in Seq(PrivPrefixes \X Values) /\ Len(privitems') = n - 1
  BY <1>4, <1>7, <1>8, <1>9
<1> DEFINE from(i) == IF i < e THEN i ELSE i + 1
<1>12. ASSUME NEW i \in 1..(n - 1)
       PROVE  from(i) \in 1..n /\ from(i) # e /\ privitems'[i] = privitems[from(i)]
  <2>1. CASE i < e
    <3>1. i \in 1..(e - 1) /\ i \in 1..Len(a)
      BY <1>8, <2>1
    <3>2. privitems'[i] = a[i]
      <4>1. i \in 1..(Len(a) + Len(b)) /\ i <= Len(a)
        BY <1>8, <1>9, <3>1
      <4>2. (a \o b)[i] = IF i <= Len(a) THEN a[i] ELSE b[i - Len(a)]
        BY Zenon, <1>10, <4>1
      <4> QED BY Zenon, <1>7, <4>1, <4>2
    <3> QED BY <1>8, <2>1, <3>1, <3>2
  <2>2. CASE ~(i < e)
    <3>1. i - (e - 1) \in 1..(n - e) /\ e + (i - (e - 1)) = i + 1
      BY <2>2
    <3>2. (a \o b)[i] = b[i - (e - 1)]
      <4>1. i \in 1..(Len(a) + Len(b)) /\ ~(i <= Len(a))
        BY <1>8, <1>9, <2>2
      <4>2. (a \o b)[i] = IF i <= Len(a) THEN a[i] ELSE b[i - Len(a)]
        BY Zenon, <1>10, <4>1
      <4>3. (a \o b)[i] = b[i - Len(a)]
        BY Zenon, <4>1, <4>2
      <4> QED BY Zenon, <1>8, <4>3
    <3>3. privitems'[i] = b[i - (e - 1)]
      BY Zenon, <1>7, <3>2
    <3> QED BY <1>9, <2>2, <3>1, <3>3
  <2> QED BY <2>1, <2>2
<1>13. \A i, j \in 1..(n - 1) : from(i) = from(j) => i = j
  OBVIOUS
<1> HIDE DEF from
<1>14. \A i, j \in 1..(n - 1) : privitems'[i][1] = privitems'[j][1] => i = j
  BY <1>4, <1>12, <1>13
<1>15. ASSUME NEW i \in 1..(n - 1)
       PROVE  said'[privitems'[i][1]] # <<>> /\ SaidLast(privitems'[i][2], said'[privitems'[i][1]])
  <2>1. from(i) \in 1..n /\ privitems'[i] = privitems[from(i)]
    BY <1>12
  <2>2. privitems[from(i)] \in PrivPrefixes \X Values
    BY <1>4, <2>1
  <2>3. PICK p \in PrivPrefixes \X Values : p = privitems'[i] /\ p = privitems[from(i)]
    BY <2>1, <2>2
  <2>4. p[1] # prefix /\ p[1] \in SaidItems
    BY <1>4, <1>5, <1>12, <2>3 DEF SaidItems
  <2>5. said'[p[1]] = said[p[1]]
    BY <1>2, <2>4
  <2> QED BY <1>4, <1>12, <2>3, <2>5
<1> QED BY <1>1, <1>2, <1>3, <1>11, <1>14, <1>15

LEMMA DescriptionStep == DescriptionInv /\ (Description!Next \/ UNCHANGED descriptionVars) => DescriptionInv'
<1> SUFFICES ASSUME DescriptionInv, Description!Next \/ UNCHANGED descriptionVars PROVE DescriptionInv'
  OBVIOUS
<1>1. CASE UNCHANGED descriptionVars
  BY <1>1 DEF descriptionVars, DescriptionInv
<1> QED BY <1>1, ItemKeeps, PrivateItemKeeps, DeletedPrefixKeeps DEF Description!Next

LEMMA Describes == DescriptionInv => Description!DescribesItself
<1> SUFFICES ASSUME DescriptionInv PROVE Description!DescribesItself
  OBVIOUS
<1> USE DEF DescriptionInv
<1>1. \A item \in SaidItems : said[item] \in Seq(Values)
  OBVIOUS
<1>2. \A item \in Fixed : said[item] # <<>> => info[item] = Head(said[item])
  BY <1>1 DEF SaidItems, SaidFirst
<1>3. \A item \in Changing : said[item] # <<>> => info[item] = Description!Last(said[item])
  BY DEF SaidLast, Description!Last
<1>4. PICK n \in Nat : n = Len(privitems) /\ DOMAIN privitems = 1..n
  OBVIOUS
<1>5. ASSUME NEW prefix \in PrivPrefixes, Description!Has(prefix)
      PROVE  said[prefix] # <<>> /\ Description!PrivateValue(prefix) = Description!Last(said[prefix])
  <2>1. PICK e \in 1..n : e = Description!Entry(prefix) /\ privitems[e][1] = prefix
    <3>1. \E e \in 1..n : privitems[e][1] = prefix
      BY <1>4, <1>5 DEF Description!Has
    <3> QED BY <1>4, <3>1 DEF Description!Entry
  <2>2. said[prefix] # <<>> /\ privitems[e][2] = said[prefix][Len(said[prefix])]
    BY <1>4, <2>1 DEF SaidLast
  <2> QED BY <1>5, <2>1, <2>2 DEF Description!PrivateValue, Description!Last
<1>6. \A value \in Values : Description!CNAMECollides(value) => validated
  BY DEF Description!CNAMECollides
<1> QED BY <1>2, <1>3, <1>4, <1>5, <1>6 DEF Description!DescribesItself

LEMMA DescriptionInit == Description!Init => DescriptionInv
<1> SUFFICES ASSUME Description!Init PROVE DescriptionInv
  OBVIOUS
<1>1. /\ info = [item \in Fixed \cup Changing |-> {}] /\ privitems = <<>>
      /\ said = [item \in SaidItems |-> <<>>]
  BY DEF Description!Init, SaidItems
<1>2. \A item \in SaidItems : said[item] = <<>>
  BY <1>1
<1>3. info["CNAME"] = {}
  BY <1>1, DescriptionAssumption
<1>4. said \in [SaidItems -> Seq(Values)]
  BY <1>1
<1>5. info \in [Fixed \cup Changing -> Values \cup {{}}] /\ privitems \in Seq(PrivPrefixes \X Values)
  BY <1>1
<1>6. \A item \in Fixed : SaidFirst(info[item], said[item])
  BY <1>1, <1>2 DEF SaidItems, SaidFirst
<1>7. \A item \in Changing : SaidLast(info[item], said[item])
  BY <1>2 DEF SaidItems, SaidLast
<1>8. \A i \in 1..Len(privitems) : FALSE
  BY <1>1
<1> QED BY <1>3, <1>4, <1>5, <1>6, <1>7, <1>8, Zenon DEF DescriptionInv

\* The SDES information kept of a participant (rtcpsdesinfo.cpp), for any items,
\* values, private prefixes and room for them: what names a participant stays
\* what it first said, the rest is what it said last, no private item is there
\* twice, and a CNAME another can collide with has validated its source.
THEOREM ParticipantsAreDescribed == StructuresSpec => [](which = "description" => Description!DescribesItself)
<1>1. StructuresInit => DescriptionInv
  BY DescriptionInit DEF StructuresInit
<1>2. DescriptionInv /\ [StructuresNext]_structuresVars => DescriptionInv'
  BY DescriptionStep DEF StructuresNext, structuresVars
<1>3. DescriptionInv => (which = "description" => Description!DescribesItself)
  BY Describes
<1> QED BY <1>1, <1>2, <1>3, PTL DEF StructuresSpec
-----------------------------------------------------------------------------
(* Building and reading an RTP packet.                                     *)

BuiltInv ==
  /\ csrcs \in Seq(Csrcs)
  /\ \A i, j \in 1..Len(csrcs) : csrcs[i] = csrcs[j] => i = j
  /\ contributors = {csrcs[i] : i \in 1..Len(csrcs)}
  /\ Built!ParsesBack

HeaderOf(payloadtype, marker, words) ==
  [payloadtype |-> payloadtype % 128, marker |-> marker, csrccount |-> Len(csrcs),
   extension |-> words # NONE, seqnr |-> seqnr]

\* Where the parts of a packet are.
LEMMA TokensOf ==
  ASSUME NEW T, NEW header \in T, NEW s \in Seq(T), NEW ext \in Seq(T),
         NEW tokens, tokens = <<header>> \o s \o ext
  PROVE  /\ tokens[1] = header
         /\ \A i \in 1..Len(s) : tokens[i + 1] = s[i]
         /\ Len(ext) # 0 => tokens[Len(s) + 2] = ext[1]
<1>1. PICK n, m : n = Len(s) /\ m = Len(ext)
  OBVIOUS
<1>2. n \in Nat /\ m \in Nat
  BY <1>1
<1>3. PICK a : a = <<header>> \o s
  OBVIOUS
<1>4. a \in Seq(T) /\ Len(a) = n + 1 /\ a[1] = header /\ \A i \in 1..n : a[i + 1] = s[i]
  <2>1. a \in Seq(T) /\ Len(a) = n + 1 /\ a[1] = header
    BY <1>1, <1>3
  <2>2. ASSUME NEW i \in 1..n PROVE a[i + 1] = s[i]
    <3>1. i + 1 \in 1..(Len(<<header>>) + Len(s)) /\ i + 1 > Len(<<header>>) /\ (i + 1) - Len(<<header>>) = i
      BY <1>1, <1>2
    <3> QED BY <1>3, <3>1
  <2> QED BY <2>1, <2>2
<1>5. tokens = a \o ext
  BY <1>3
<1>6. \A i \in 1..(n + 1) : tokens[i] = a[i]
  BY <1>1, <1>2, <1>4, <1>5
<1>7. ASSUME m # 0 PROVE tokens[n + 2] = ext[1]
  <2>1. n + 2 \in 1..(Len(a) + Len(ext)) /\ n + 2 > Len(a) /\ (n + 2) - Len(a) = 1
    BY <1>1, <1>2, <1>4, <1>7
  <2> QED BY <1>4, <1>5, <2>1
<1>8. 1 \in 1..(n + 1) /\ \A i \in 1..n : i + 1 \in 1..(n + 1)
  BY <1>2
<1> QED BY <1>1, <1>4, <1>6, <1>7, <1>8

LEMMA BuildsWhatIsRead ==
  ASSUME BuiltInv, NEW payloadtype \in PayloadTypes, NEW marker \in BOOLEAN, NEW length \in PayloadLengths,
         NEW words \in ExtensionLengths \cup {NONE},
         Built!PrivateBuildPacket(payloadtype, marker, length, words)
  PROVE  BuiltInv'
<1>1. PICK n \in Nat : n = Len(csrcs)
  BY DEF BuiltInv
<1>2. /\ payloadtype \in Nat /\ length \in Nat /\ NONE \notin Nat
      /\ words # NONE => words \in Nat
      /\ payloadtype <= 127 /\ payloadtype \notin {72, 73}
  BY PacketAssumption DEF Built!PrivateBuildPacket, Built!Allowed
<1>3. PICK header : header = HeaderOf(payloadtype, marker, words)
  OBVIOUS
<1>4. /\ header.payloadtype = payloadtype /\ header.marker = marker /\ header.csrccount = n
      /\ (header.extension <=> words # NONE) /\ header.seqnr = seqnr
  <2>1. payloadtype % 128 = payloadtype
    BY <1>2
  <2>2. header = [payloadtype |-> payloadtype, marker |-> marker, csrccount |-> n,
                  extension |-> words # NONE, seqnr |-> seqnr]
    BY <1>1, <1>3, <2>1 DEF HeaderOf
  <2>3. header.payloadtype = payloadtype /\ header.marker = marker /\ header.csrccount = n /\ header.seqnr = seqnr
    BY <2>2
  <2>4. header.extension <=> words # NONE
    BY ONLY <2>2
  <2> QED BY <2>3, <2>4
<1>5. PICK first : first = [extid |-> 0, length |-> words]
  OBVIOUS
<1>6. PICK ext : ext = IF words = NONE THEN <<>> ELSE <<first>> \o [i \in 1..words |-> i]
  OBVIOUS
<1>7. PICK T : T = {header, first} \cup Csrcs \cup Nat
  OBVIOUS
<1>8. /\ ext \in Seq(T) /\ Len(ext) = IF words = NONE THEN 0 ELSE words + 1
      /\ words # NONE => ext[1] = first
  <2>1. CASE words = NONE
    BY <1>6, <2>1
  <2>2. CASE words # NONE
    <3>1. words \in Nat
      BY <1>2, <2>2
    <3>2. PICK data : data = [i \in 1..words |-> i]
      OBVIOUS
    <3>3. data \in Seq(T) /\ Len(data) = words
      BY <1>7, <3>1, <3>2
    <3>4. first \in T
      BY <1>7
    <3>5. ext = <<first>> \o data
      BY <1>6, <2>2, <3>2
    <3> QED BY <2>2, <3>1, <3>3, <3>4, <3>5
  <2> QED BY <2>1, <2>2
<1>9. csrcs \in Seq(T) /\ header \in T
  BY <1>7 DEF BuiltInv
<1>10. PICK packet : packet = Built!Written(payloadtype, marker, length, words)
  OBVIOUS
<1>11. /\ packet.tokens = <<header>> \o csrcs \o ext
       /\ packet.length = 12 + 4 * (n + Len(ext)) + length
  BY <1>1, <1>3, <1>5, <1>6, <1>10 DEF Built!Written, HeaderOf, Built!HeaderSize, Built!WordSize
<1>12. /\ packet.tokens[1] = header
       /\ \A i \in 1..n : packet.tokens[i + 1] = csrcs[i]
       /\ words # NONE => packet.tokens[n + 2] = first
  <2>1. /\ packet.tokens[1] = header
        /\ \A i \in 1..Len(csrcs) : packet.tokens[i + 1] = csrcs[i]
        /\ Len(ext) # 0 => packet.tokens[Len(csrcs) + 2] = ext[1]
    BY <1>8, <1>9, <1>11, TokensOf
  <2>2. words # NONE => Len(ext) # 0 /\ ext[1] = first
    BY <1>2, <1>8
  <2> QED BY <1>1, <2>1, <2>2
<1>13. PICK extension, offset :
         /\ extension = IF header.extension THEN packet.tokens[header.csrccount + 2].length ELSE NONE
         /\ offset = 12 + 4 * header.csrccount + (IF header.extension THEN 4 * (extension + 1) ELSE 0)
  OBVIOUS
<1>14. extension = words
  BY <1>4, <1>5, <1>12, <1>13
<1>15. packet.length = offset + length /\ offset \in Nat
  <2>1. CASE words = NONE
    BY <1>2, <1>4, <1>8, <1>11, <1>13, <2>1
  <2>2. CASE words # NONE
    <3>1. PICK w \in Nat : w = words
      BY <1>2, <2>2
    <3>2. offset = 12 + 4 * n + 4 * (w + 1)
      BY <1>4, <1>13, <1>14, <2>2, <3>1
    <3>3. packet.length = 12 + 4 * (n + (w + 1)) + length
      BY <1>8, <1>11, <2>2, <3>1
    <3> QED BY <1>2, <3>2, <3>3
  <2> QED BY <2>1, <2>2
<1>16. {packet.tokens[i + 1] : i \in 1..n} = contributors
  BY <1>1, <1>12 DEF BuiltInv
<1>17. ~((header.marker /\ header.payloadtype \in {72, 73}) \/ packet.length < offset)
       /\ packet.length - offset = length
  BY <1>2, <1>4, <1>15
<1>18. Built!Parsed(packet) =
         IF (header.marker /\ header.payloadtype \in {72, 73}) \/ packet.length < offset THEN NONE
         ELSE [payloadtype |-> header.payloadtype, marker |-> header.marker,
               length |-> packet.length - offset, words |-> extension, seqnr |-> header.seqnr,
               contributors |-> {packet.tokens[i + 1] : i \in 1..header.csrccount}]
  BY <1>12, <1>13 DEF Built!Parsed, Built!HeaderSize, Built!WordSize
<1>19. Built!Parsed(packet) =
         [payloadtype |-> payloadtype, marker |-> marker, length |-> length, words |-> words,
          seqnr |-> seqnr, contributors |-> contributors]
  BY <1>4, <1>14, <1>16, <1>17, <1>18
<1>20. buffer' = packet /\ given' = Built!Parsed(packet) /\ UNCHANGED <<csrcs, contributors>>
  BY <1>10, <1>19 DEF Built!PrivateBuildPacket
<1>21. Built!ParsesBack'
  <2>1. Built!Parsed(buffer') = given'
    BY <1>20
  <2> QED BY <2>1 DEF Built!ParsesBack, Built!Parsed
<1> QED BY <1>20, <1>21 DEF BuiltInv

LEMMA CsrcsKeep ==
  ASSUME BuiltInv, NEW x \in Csrcs, Built!AddCSRC(x) \/ Built!DeleteCSRC(x)
  PROVE  BuiltInv'
<1>1. PICK n \in Nat : n = Len(csrcs) /\ DOMAIN csrcs = 1..n
  BY DEF BuiltInv
<1>2. UNCHANGED <<buffer, given>>
  BY DEF Built!AddCSRC, Built!DeleteCSRC
<1>3. Built!ParsesBack'
  BY <1>2 DEF BuiltInv, Built!ParsesBack, Built!Parsed
<1>4. CASE Built!AddCSRC(x)
  <2>1. /\ csrcs' = Append(csrcs, x) /\ contributors' = contributors \cup {x}
        /\ \A i \in 1..n : csrcs[i] # x
    BY <1>1, <1>4 DEF Built!AddCSRC, Built!Contains
  <2>2. /\ csrcs' \in Seq(Csrcs) /\ Len(csrcs') = n + 1 /\ csrcs'[n + 1] = x
        /\ \A i \in 1..n : csrcs'[i] = csrcs[i]
    BY <1>1, <2>1 DEF BuiltInv
  <2>3. \A i \in 1..(n + 1) : i \in 1..n \/ i = n + 1
    OBVIOUS
  <2>4. \A i, j \in 1..(n + 1) : csrcs'[i] = csrcs'[j] => i = j
    BY <1>1, <2>1, <2>2, <2>3 DEF BuiltInv
  <2>5. contributors' = {csrcs'[i] : i \in 1..(n + 1)}
    <3>1. contributors = {csrcs[i] : i \in 1..n}
      BY <1>1 DEF BuiltInv
    <3>2. 1..n \subseteq 1..(n + 1) /\ n + 1 \in 1..(n + 1)
      OBVIOUS
    <3> QED BY <2>1, <2>2, <2>3, <3>1, <3>2
  <2> QED BY <1>3, <2>2, <2>4, <2>5 DEF BuiltInv
<1>5. CASE Built!DeleteCSRC(x)
  <2>1. PICK e \in 1..n : csrcs[e] = x /\ csrcs' = Built!WithoutCSRC(e)
    BY <1>1, <1>5 DEF Built!DeleteCSRC
  <2>2. contributors' = contributors \ {x}
    BY <1>5 DEF Built!DeleteCSRC
  <2>3. PICK s : s = [csrcs EXCEPT ![e] = csrcs[n]]
    OBVIOUS
  <2>4. s \in Seq(Csrcs) /\ Len(s) = n /\ \A i \in 1..n : s[i] = IF i = e THEN csrcs[n] ELSE csrcs[i]
    BY <1>1, <2>3 DEF BuiltInv
  <2>5. csrcs' = SubSeq(s, 1, n - 1)
    BY <1>1, <2>1, <2>3, <2>4 DEF Built!WithoutCSRC, Built!Front, Built!Last
  <2>6. csrcs' \in Seq(Csrcs) /\ Len(csrcs') = n - 1 /\ \A i \in 1..(n - 1) : csrcs'[i] = s[i]
    BY <2>4, <2>5
  <2> DEFINE from(i) == IF i = e THEN n ELSE i
  <2>7. \A i \in 1..(n - 1) : from(i) \in 1..n /\ from(i) # e /\ csrcs'[i] = csrcs[from(i)]
    BY <2>4, <2>6
  <2>8. \A i, j \in 1..(n - 1) : from(i) = from(j) => i = j
    OBVIOUS
  <2>9. \A j \in 1..n : j # e => \E i \in 1..(n - 1) : from(i) = j
    <3> SUFFICES ASSUME NEW j \in 1..n, j # e PROVE \E i \in 1..(n - 1) : from(i) = j
      OBVIOUS
    <3>1. CASE j = n
      <4>1. e \in 1..(n - 1) /\ from(e) = j
        BY <3>1
      <4> QED BY <4>1
    <3>2. CASE j # n
      <4>1. j \in 1..(n - 1) /\ from(j) = j
        BY <3>2
      <4> QED BY <4>1
    <3> QED BY <3>1, <3>2
  <2> HIDE DEF from
  <2>10. \A i, j \in 1..n : csrcs[i] = csrcs[j] => i = j
    BY <1>1 DEF BuiltInv
  <2>11. \A i, j \in 1..(n - 1) : csrcs'[i] = csrcs'[j] => i = j
    BY <2>7, <2>8, <2>10
  <2>12. contributors' = {csrcs'[i] : i \in 1..(n - 1)}
    <3>1. contributors = {csrcs[j] : j \in 1..n}
      BY <1>1 DEF BuiltInv
    <3>2. \A j \in 1..n : csrcs[j] # x <=> j # e
      BY <2>1, <2>10
    <3>3. \A y : y \in contributors' <=> \E j \in 1..n : j # e /\ csrcs[j] = y
      BY <2>2, <3>1, <3>2
    <3>4. \A y : (\E j \in 1..n : j # e /\ csrcs[j] = y) <=> (\E i \in 1..(n - 1) : csrcs'[i] = y)
      BY <2>7, <2>9
    <3> QED BY <3>3, <3>4
  <2> QED BY <1>3, <2>6, <2>11, <2>12 DEF BuiltInv
<1> QED BY <1>4, <1>5

LEMMA BuiltStep == BuiltInv /\ (Built!Next \/ UNCHANGED builtVars) => BuiltInv'
<1> SUFFICES ASSUME BuiltInv, Built!Next \/ UNCHANGED builtVars PROVE BuiltInv'
  OBVIOUS
<1>1. CASE UNCHANGED <<csrcs, contributors, buffer, given>>
  BY <1>1 DEF BuiltInv, Built!ParsesBack, Built!Parsed
<1>2. CASE Built!ClearCSRCList
  <2>1. UNCHANGED <<buffer, given>> /\ csrcs' = <<>> /\ contributors' = {}
    BY <1>2 DEF Built!ClearCSRCList
  <2>2. Built!ParsesBack'
    BY <2>1 DEF BuiltInv, Built!ParsesBack, Built!Parsed
  <2> QED BY <2>1, <2>2 DEF BuiltInv
<1>3. CASE UNCHANGED builtVars
  BY <1>1, <1>3 DEF builtVars
<1>4. ASSUME NEW max \in MaxPackSizes, Built!SetMaximumPacketSize(max) PROVE BuiltInv'
  BY <1>1, <1>4 DEF Built!SetMaximumPacketSize
<1>5. ASSUME NEW n \in 0..SeqNrs - 1, Built!CreateNewSSRC(n) PROVE BuiltInv'
  BY <1>1, <1>5 DEF Built!CreateNewSSRC
<1> QED BY <1>2, <1>3, <1>4, <1>5, CsrcsKeep, BuildsWhatIsRead, Zenon DEF Built!Next

\* Building and reading an RTP packet (rtppacketbuilder.cpp, rtppacket.cpp), for
\* any contributing sources, payloads, extensions and sizes: however sources
\* were added and deleted before, what BuildPacket has accepted is read as it
\* was meant and names the sources there are, and no packet is taken for RTCP.
THEOREM PacketsAreReadBack == StructuresSpec => [](which = "built" => Built!ParsesBack)
<1>1. StructuresInit => BuiltInv
  <2> SUFFICES ASSUME StructuresInit PROVE BuiltInv
    OBVIOUS
  <2>1. csrcs = <<>> /\ contributors = {} /\ buffer = NONE
    BY DEF StructuresInit, Built!Init
  <2> QED BY <2>1 DEF BuiltInv, Built!ParsesBack
<1>2. BuiltInv /\ [StructuresNext]_structuresVars => BuiltInv'
  BY BuiltStep DEF StructuresNext, structuresVars
<1>3. BuiltInv => (which = "built" => Built!ParsesBack)
  BY DEF BuiltInv
<1> QED BY <1>1, <1>2, <1>3, PTL DEF StructuresSpec
=============================================================================
