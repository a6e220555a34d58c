-------------------------- MODULE SessionThreadsProofs --------------------------
(***************************************************************************)
(* The receiver's codec, the threads of a session of jrtplib and the table *)
(* of its sources.                                                         *)
(*                                                                         *)
(* For any track, any number of buffers and any losses: the end of the     *)
(* stream stays the last the codec is given, and a thread that goes over   *)
(* to playing because the codec said it was done leaves nothing behind.    *)
(* Packets are taken in their order (Order), so after the end marker there *)
(* is none left and nothing is enqueued any more.  The codec keeps the     *)
(* order, so the end is the last thing in it (EndGiven), and when it comes *)
(* out there is nothing behind it.                                         *)
(*                                                                         *)
(* For any interleaving of the poll thread, the network thread, the SNTP   *)
(* thread, the statistics and who creates and deletes the session, however *)
(* often the poll thread and the network thread go round: the network      *)
(* thread and the deleting one get by with the poll thread (SharesSafely). *)
(* The programs that the threads have before them have shapes (Shapes),    *)
(* which every step keeps, and from what a program still has the invariant *)
(* tells how far the session's end has come (Ending, Deleted, Clearing).   *)
(*                                                                         *)
(* For any finite number of keys and any hash: the table that holds the    *)
(* session's sources is a list of keys (KeysAreAList).  Elements have      *)
(* places, in the order they were added; the links of the list go to the   *)
(* neighbours among all elements, those of a chain to the neighbours in    *)
(* the same bucket (Stands).  Every call keeps that, and what the walk     *)
(* through the list and the search of a chain find follows from it: of the *)
(* elements from which they go wrong take the one nearest to the end; what *)
(* they do there is one step to an element from which they go right.       *)
(***************************************************************************)
EXTENDS MCSessionThreads, KeyHashTable, FiniteSetTheorems, SequenceTheorems,
        WellFoundedInduction, TLAPS

Order ==
  /\ lastIndex < nextIndex
  /\ \A i \in DOMAIN packetlist : lastIndex < packetlist[i] /\ packetlist[i] < nextIndex
  /\ \A i, j \in DOMAIN packetlist : i < j => packetlist[i] < packetlist[j]

InHand ==
  stage = "enqueue" =>
    /\ rest # <<>>
    /\ lastIndex = EndMarker => rest = <<End>>
    /\ lastIndex # EndMarker => ~EndIn(rest)

EndGiven ==
  /\ endQueued => lastIndex = EndMarker /\ stage # "enqueue"
  /\ endQueued => EndIn(codecIn) \/ EndIn(codecOut) \/ (stage # "dequeue" /\ ~hasOutput)
  /\ ~endQueued => ~EndIn(codecIn) /\ ~EndIn(codecOut)
  /\ EndLast(codecIn) /\ EndLast(codecOut)
  /\ EndIn(codecOut) => codecIn = <<>>

Finished ==
  /\ lastInfo = "written" /\ ~hasOutput => endQueued /\ codecIn = <<>> /\ codecOut = <<>>
  /\ stage = "play" /\ isRunning /\ status = "ok" => ~hasOutput

IInv == TypeOK /\ Order /\ InHand /\ EndGiven /\ Finished

USE DEF packetVars, codecVars, loopVars, outputVars
-----------------------------------------------------------------------------
(* Buffers, and the pieces of a packet.                                    *)

LEMMA Taking ==
  ASSUME NEW s \in Seq(Piece), s # <<>>
  PROVE  /\ Head(s) \in Piece /\ Tail(s) \in Seq(Piece) /\ Len(Tail(s)) = Len(s) - 1
         /\ EndLast(s) => EndLast(Tail(s))
         /\ EndLast(s) /\ Head(s) = End => Tail(s) = <<>>
         /\ EndIn(s) /\ Head(s) # End => EndIn(Tail(s))
         /\ EndIn(Tail(s)) => EndIn(s)
         /\ Head(s) = End => EndIn(s)
<1>1. /\ Len(s) \in Nat /\ Len(s) >= 1 /\ DOMAIN s = 1 .. Len(s)
      /\ Head(s) = s[1] /\ s[1] \in Piece /\ Tail(s) \in Seq(Piece)
      /\ Len(Tail(s)) = Len(s) - 1 /\ DOMAIN Tail(s) = 1 .. Len(s) - 1
  OBVIOUS
<1>2. \A i \in 1 .. Len(s) - 1 : Tail(s)[i] = s[i + 1]
  BY <1>1
<1>3. EndLast(s) => EndLast(Tail(s))
  BY <1>1, <1>2 DEF EndLast
<1>4. EndLast(s) /\ Head(s) = End => Tail(s) = <<>>
  <2> SUFFICES ASSUME EndLast(s), Head(s) = End PROVE Tail(s) = <<>>
    OBVIOUS
  <2>1. Len(s) = 1
    BY <1>1 DEF EndLast
  <2> QED BY <1>1, <2>1, EmptySeq
<1>5. EndIn(s) /\ Head(s) # End => EndIn(Tail(s))
  <2> SUFFICES ASSUME NEW i \in 1 .. Len(s), s[i] = End, s[1] # End PROVE EndIn(Tail(s))
    BY <1>1 DEF EndIn
  <2>1. i - 1 \in 1 .. Len(s) - 1 /\ Tail(s)[i - 1] = End
    BY <1>1, <1>2
  <2> QED BY <1>1, <2>1 DEF EndIn
<1>6. EndIn(Tail(s)) => EndIn(s)
  <2> SUFFICES ASSUME NEW i \in 1 .. Len(s) - 1, Tail(s)[i] = End PROVE EndIn(s)
    BY <1>1 DEF EndIn
  <2>1. i + 1 \in 1 .. Len(s) /\ s[i + 1] = End
    BY <1>1, <1>2
  <2> QED BY <1>1, <2>1 DEF EndIn
<1>7. Head(s) = End => EndIn(s)
  BY <1>1 DEF EndIn
<1> QED BY <1>1, <1>3, <1>4, <1>5, <1>6, <1>7

LEMMA Adding ==
  ASSUME NEW s \in Seq(Piece), NEW p \in Piece
  PROVE  /\ Append(s, p) \in Seq(Piece) /\ Len(Append(s, p)) = Len(s) + 1
         /\ EndIn(Append(s, p)) <=> EndIn(s) \/ p = End
         /\ ~EndIn(s) => EndLast(Append(s, p))
<1> DEFINE t == Append(s, p)
<1>1. /\ Len(s) \in Nat /\ DOMAIN s = 1 .. Len(s)
      /\ t \in Seq(Piece) /\ Len(t) = Len(s) + 1 /\ DOMAIN t = 1 .. Len(s) + 1
      /\ t[Len(s) + 1] = p
  OBVIOUS
<1>2. \A i \in 1 .. Len(s) : t[i] = s[i]
  OBVIOUS
<1> HIDE DEF t
<1>3. EndIn(t) => EndIn(s) \/ p = End
  BY <1>1, <1>2 DEF EndIn
<1>4. EndIn(s) => EndIn(t)
  <2> SUFFICES ASSUME NEW i \in 1 .. Len(s), s[i] = End PROVE EndIn(t)
    BY <1>1 DEF EndIn
  <2> QED BY <1>1, <1>2 DEF EndIn
<1>5. p = End => EndIn(t)
  <2>1. Len(s) + 1 \in 1 .. Len(s) + 1
    BY <1>1
  <2> QED BY <1>1, <2>1 DEF EndIn
<1>6. ~EndIn(s) => EndLast(t)
  BY <1>1, <1>2 DEF EndIn, EndLast
<1> QED BY <1>1, <1>3, <1>4, <1>5, <1>6 DEF t

LEMMA Empty == <<>> \in Seq(Piece) /\ Len(<<>>) = 0 /\ ~EndIn(<<>>) /\ EndLast(<<>>)
BY DEF EndIn, EndLast

LEMMA EndPiece == End \in Piece /\ Frames \in Nat \ {0}
BY DecoderAssumption DEF End, Piece, EndMarker

\* The pieces of a packet; only the end marker's is the end.
LEMMA PacketPieces ==
  ASSUME NEW k \in 0 .. EndMarker
  PROVE  /\ Pieces(k) \in Seq(Piece) /\ Pieces(k) # <<>>
         /\ k = EndMarker => Pieces(k) = <<End>>
         /\ k # EndMarker => ~EndIn(Pieces(k))
<1>1. EndMarker \notin Large
  BY DecoderAssumption DEF EndMarker
<1>2. CASE k \in Large
  <2> DEFINE p == [index |-> k, part |-> 1]
             q == [index |-> k, part |-> 2]
  <2>1. p \in Piece /\ q \in Piece /\ k # EndMarker /\ p # End /\ q # End
    BY <1>1, <1>2 DEF Piece, End
  <2>2. Pieces(k) = <<p, q>>
    BY <1>2 DEF Pieces
  <2> HIDE DEF p, q
  <2>3. ~EndIn(<<p, q>>)
    BY <2>1 DEF EndIn
  <2> QED BY <2>1, <2>2, <2>3
<1>3. CASE k \notin Large
  <2> DEFINE p == [index |-> k, part |-> 1]
  <2>1. p \in Piece /\ (k = EndMarker <=> p = End)
    BY DEF Piece, End
  <2>2. Pieces(k) = <<p>>
    BY <1>3 DEF Pieces
  <2> HIDE DEF p
  <2>3. p # End => ~EndIn(<<p>>)
    BY DEF EndIn
  <2> QED BY <2>1, <2>2, <2>3
<1> QED BY <1>2, <1>3
-----------------------------------------------------------------------------
(* The steps.                                                              *)

LEMMA InitIInv == Init => IInv
<1> SUFFICES ASSUME Init PROVE IInv
  OBVIOUS
<1>1. TypeOK
  <2>1. 0 \in 0 .. EndMarker + 1 /\ NoPacket \in NoPacket .. EndMarker
    BY EndPiece DEF EndMarker, NoPacket
  <2>2. 0 <= InputBuffers /\ 0 <= OutputBuffers /\ <<>> \in Seq(0 .. EndMarker)
    BY DecoderAssumption
  <2> QED BY <2>1, <2>2, Empty DEF Init, TypeOK
<1>2. Order
  BY DEF Init, Order, NoPacket
<1>3. InHand /\ EndGiven /\ Finished
  BY Empty DEF Init, InHand, EndGiven, Finished
<1> QED BY <1>1, <1>2, <1>3 DEF IInv

\* Steps that only move the thread on, outside of a packet, or stop it.
Data == <<nextIndex, packetlist, codecVars, loopVars, outputVars>>
Between == {"hi", "codec", "start", "receive", "fetch", "bye", "drain", "ended"}

LEMMA ControlStep ==
  ASSUME IInv, UNCHANGED Data, isRunning' \in BOOLEAN, codecMade' \in BOOLEAN,
         \/ stage' \in Between
         \/ stage' = "play" /\ (isRunning' /\ status = "ok" => ~hasOutput)
         \/ stage' = stage /\ (isRunning' => isRunning)
  PROVE  IInv'
<1> USE DEF IInv, Data, Between
<1>1. TypeOK'
  BY DEF TypeOK
<1>2. Order' /\ InHand'
  BY DEF Order, InHand
<1>3. EndGiven'
  BY DEF EndGiven
<1>4. Finished'
  BY DEF Finished
<1> QED BY <1>1, <1>2, <1>3, <1>4

LEMMA ThreadControlStep ==
  ASSUME IInv,
         \/ Stop \/ SetFormat \/ SayHi \/ AwaitCodec \/ StartCodec \/ BeginDataAccess
         \/ EndReceiving \/ EndDataAccess \/ BYEDestroy \/ StopCodec \/ StopPlayback
  PROVE  IInv'
<1>1. CASE Stop \/ SetFormat
  <2>1. stage' = stage /\ (isRunning' => isRunning) /\ UNCHANGED Data
    BY <1>1 DEF Stop, SetFormat, Data
  <2>2. isRunning' \in BOOLEAN /\ codecMade' \in BOOLEAN
    BY <1>1 DEF Stop, SetFormat, IInv, TypeOK
  <2> QED BY <2>1, <2>2, ControlStep
<1>2. CASE SayHi \/ AwaitCodec \/ StartCodec \/ BeginDataAccess \/ EndReceiving
           \/ EndDataAccess \/ BYEDestroy \/ StopPlayback
  <2>1. stage' \in Between /\ UNCHANGED Data /\ UNCHANGED <<isRunning, codecMade>>
    BY <1>2 DEF SayHi, AwaitCodec, StartCodec, BeginDataAccess, EndReceiving, EndDataAccess,
                BYEDestroy, StopPlayback, Data, Between
  <2>2. isRunning' \in BOOLEAN /\ codecMade' \in BOOLEAN
    BY <2>1 DEF IInv, TypeOK
  <2> QED BY <2>1, <2>2, ControlStep
<1>3. CASE StopCodec
  <2>1. /\ stage' = "play" /\ (isRunning' /\ status = "ok" => ~hasOutput)
        /\ UNCHANGED Data /\ UNCHANGED <<isRunning, codecMade>>
    BY <1>3 DEF StopCodec, Drains, Data
  <2>2. isRunning' \in BOOLEAN /\ codecMade' \in BOOLEAN
    BY <2>1 DEF IInv, TypeOK
  <2> QED BY <2>1, <2>2, ControlStep
<1> QED BY <1>1, <1>2, <1>3

LEMMA DeliverStep ==
  ASSUME IInv, NEW k \in 0 .. EndMarker, Deliver(k)
  PROVE  IInv'
<1> USE DEF IInv, Deliver
<1>1. /\ k \in Nat /\ nextIndex \in Nat /\ lastIndex \in Int /\ Len(packetlist) \in Nat
      /\ packetlist \in Seq(0 .. EndMarker)
      /\ \A i \in DOMAIN packetlist : packetlist[i] \in Nat
  BY EndPiece DEF TypeOK, EndMarker, NoPacket
<1>2. /\ packetlist' \in Seq(0 .. EndMarker)
      /\ DOMAIN packetlist = 1 .. Len(packetlist)
      /\ DOMAIN packetlist' = 1 .. Len(packetlist) + 1
      /\ \A i \in 1 .. Len(packetlist) : packetlist'[i] = packetlist[i]
      /\ packetlist'[Len(packetlist) + 1] = k
  BY <1>1
<1>3. TypeOK'
  <2>1. nextIndex' \in 0 .. EndMarker + 1
    BY <1>1, EndPiece DEF EndMarker
  <2> QED BY <1>2, <2>1 DEF TypeOK
<1>4. Order'
  <2>1. \A i \in DOMAIN packetlist' : lastIndex' < packetlist'[i] /\ packetlist'[i] < nextIndex'
    BY <1>1, <1>2 DEF Order
  <2>2. ASSUME NEW i \in DOMAIN packetlist', NEW j \in DOMAIN packetlist', i < j
        PROVE  packetlist'[i] < packetlist'[j]
    <3>1. CASE j = Len(packetlist) + 1
      BY <1>1, <1>2, <2>2, <3>1 DEF Order
    <3>2. CASE j # Len(packetlist) + 1
      BY <1>1, <1>2, <2>2, <3>2 DEF Order
    <3> QED BY <3>1, <3>2
  <2>3. lastIndex' < nextIndex'
    BY <1>1 DEF Order
  <2> QED BY <2>1, <2>2, <2>3 DEF Order
<1>5. InHand' /\ EndGiven' /\ Finished'
  BY DEF Polling, InHand, EndGiven, Finished
<1> QED BY <1>3, <1>4, <1>5

\* What is left of the track when a packet is taken.
LEMMA GetNextPacketStep ==
  ASSUME IInv, GetNextPacket
  PROVE  IInv'
<1> USE DEF IInv, GetNextPacket
<1> DEFINE k == Head(packetlist)
<1>1. /\ packetlist \in Seq(0 .. EndMarker) /\ packetlist # <<>> /\ Len(packetlist) \in Nat
      /\ DOMAIN packetlist = 1 .. Len(packetlist) /\ Len(packetlist) >= 1
      /\ nextIndex \in Nat /\ lastIndex \in Int /\ EndMarker \in Nat
      /\ k = packetlist[1] /\ k \in 0 .. EndMarker
      /\ \A i \in DOMAIN packetlist : packetlist[i] \in Nat
  BY EndPiece DEF TypeOK, EndMarker, NoPacket
<1>2. /\ packetlist' \in Seq(0 .. EndMarker)
      /\ DOMAIN packetlist' = 1 .. Len(packetlist) - 1
      /\ \A i \in 1 .. Len(packetlist) - 1 : packetlist'[i] = packetlist[i + 1]
  BY <1>1
<1>3. lastIndex < k /\ k < nextIndex
  BY <1>1 DEF Order
<1>4. ~endQueued
  BY <1>1, <1>3, EndPiece DEF EndGiven, TypeOK, EndMarker
<1>5. /\ codecIn' \in Seq(Piece) /\ codecOut' \in Seq(Piece) /\ flushed' \in BOOLEAN
      /\ \/ codecIn' = codecIn /\ codecOut' = codecOut
         \/ codecIn' = <<>> /\ codecOut' = <<>>
  BY Empty DEF TypeOK
<1>6. Len(codecIn') <= InputBuffers /\ Len(codecOut') <= OutputBuffers
  BY <1>5, Empty, DecoderAssumption DEF TypeOK
<1>7. rest' \in Seq(Piece) /\ hasInput' \in BOOLEAN /\ lastIndex' = k
  BY <1>1, PacketPieces
<1> HIDE DEF k
<1>8. TypeOK'
  <2>1. lastIndex' \in NoPacket .. EndMarker
    BY <1>1, <1>7 DEF NoPacket
  <2>2. stage' = "enqueue" /\ UNCHANGED <<isRunning, codecMade, nextIndex, endQueued, status, outputVars>>
    OBVIOUS
  <2>3. TypeOK
    OBVIOUS
  <2> HIDE DEF GetNextPacket, IInv
  <2> QED BY <1>2, <1>5, <1>6, <1>7, <2>1, <2>2, <2>3 DEF TypeOK
<1>9. Order'
  <2>1. \A i \in DOMAIN packetlist' : lastIndex' < packetlist'[i] /\ packetlist'[i] < nextIndex'
    <3> SUFFICES ASSUME NEW i \in 1 .. Len(packetlist) - 1
                 PROVE  k < packetlist[i + 1] /\ packetlist[i + 1] < nextIndex
      BY <1>2, <1>7
    <3>1. 1 \in DOMAIN packetlist /\ i + 1 \in DOMAIN packetlist /\ 1 < i + 1
      BY <1>1
    <3> QED BY <1>1, <3>1 DEF Order
  <2>2. \A i, j \in DOMAIN packetlist' : i < j => packetlist'[i] < packetlist'[j]
    <3> SUFFICES ASSUME NEW i \in 1 .. Len(packetlist) - 1, NEW j \in 1 .. Len(packetlist) - 1,
                        i < j
                 PROVE  packetlist[i + 1] < packetlist[j + 1]
      BY <1>2
    <3>1. i + 1 \in DOMAIN packetlist /\ j + 1 \in DOMAIN packetlist /\ i + 1 < j + 1
      BY <1>1
    <3> QED BY <3>1 DEF Order
  <2> QED BY <1>3, <1>7, <2>1, <2>2 DEF Order
<1>10. InHand'
  BY <1>1, <1>7, PacketPieces DEF InHand
<1>11. EndGiven'
  BY <1>4, <1>5, Empty DEF EndGiven
<1>12. Finished'
  BY <1>4, <1>5 DEF Finished
<1> QED BY <1>8, <1>9, <1>10, <1>11, <1>12

LEMMA DecodeStep ==
  ASSUME IInv, Decode
  PROVE  IInv'
<1> USE DEF IInv, Decode
<1>1. codecIn \in Seq(Piece) /\ codecIn # <<>> /\ codecOut \in Seq(Piece) /\ ~EndIn(codecOut)
  BY DEF TypeOK, EndGiven
<1> DEFINE p == Head(codecIn)
<1>2. p \in Piece /\ codecIn' = Tail(codecIn) /\ codecOut' = Append(codecOut, p)
  BY <1>1, Taking
<1>3. /\ codecIn' \in Seq(Piece) /\ Len(codecIn') <= InputBuffers
      /\ codecOut' \in Seq(Piece) /\ Len(codecOut') <= OutputBuffers
  BY <1>1, <1>2, Taking, Adding, DecoderAssumption DEF TypeOK
<1>4. TypeOK'
  BY <1>3 DEF TypeOK
<1>5. Order' /\ InHand'
  BY DEF Order, InHand
<1>6. EndLast(codecIn') /\ EndLast(codecOut') /\ (EndIn(codecOut') => codecIn' = <<>>)
  BY <1>1, <1>2, Taking, Adding DEF EndGiven
<1>7. EndIn(codecIn') \/ EndIn(codecOut') <=> EndIn(codecIn)
  BY <1>1, <1>2, Taking, Adding
<1>8. EndGiven'
  BY <1>1, <1>6, <1>7 DEF EndGiven
<1>9. Finished'
  BY <1>1 DEF Finished
<1> QED BY <1>4, <1>5, <1>8, <1>9

LEMMA ReturnsTypes ==
  ASSUME TypeOK, NEW result \in {"ok", "error"}, Returns(result)
  PROVE  /\ rest' = <<>> /\ rest' \in Seq(Piece) /\ stage' = "dequeue"
         /\ status' \in {"ok", "error"} /\ hasInput' \in BOOLEAN
BY Empty DEF Returns, TypeOK

\* Nothing but the packet in hand changes.
LEMMA NotQueuedStep ==
  ASSUME IInv, NoInputBuffer \/ QueueInputBufferFails
  PROVE  IInv'
<1>1. /\ TypeOK /\ stage = "enqueue" /\ (Returns("ok") \/ Returns("error"))
      /\ UNCHANGED <<isRunning, packetVars, codecVars, lastIndex, outputVars>>
  BY DEF IInv, NoInputBuffer, QueueInputBufferFails
<1>2. /\ rest' \in Seq(Piece) /\ stage' = "dequeue"
      /\ status' \in {"ok", "error"} /\ hasInput' \in BOOLEAN
  BY <1>1, ReturnsTypes
<1>3. TypeOK'
  BY <1>1, <1>2 DEF TypeOK
<1>4. Order' /\ InHand' /\ EndGiven' /\ Finished'
  BY <1>1, <1>2 DEF IInv, Order, InHand, EndGiven, Finished
<1> QED BY <1>3, <1>4 DEF IInv

LEMMA QueueInputBufferStep ==
  ASSUME IInv, QueueInputBuffer
  PROVE  IInv'
<1> DEFINE p == Head(rest)
<1>1. /\ TypeOK /\ Order /\ InHand /\ EndGiven /\ Finished
      /\ stage = "enqueue" /\ rest # <<>> /\ rest \in Seq(Piece) /\ Len(codecIn) < InputBuffers
      /\ codecIn' = Append(codecIn, p)
      /\ endQueued' = (endQueued \/ p = End)
      /\ UNCHANGED <<isRunning, packetVars, codecOut, flushed, lastIndex, outputVars>>
  BY DEF QueueInputBuffer, IInv, InHand, TypeOK
<1>2. ~endQueued /\ ~EndIn(codecIn) /\ ~EndIn(codecOut) /\ codecIn \in Seq(Piece)
  BY <1>1 DEF EndGiven, TypeOK
<1>3. p \in Piece /\ Tail(rest) \in Seq(Piece)
  BY <1>1, Taking
<1>4. \/ rest' = Tail(rest) /\ Tail(rest) # <<>> /\ stage' = "enqueue" /\ UNCHANGED <<status, hasInput>>
      \/ Returns("ok")
  BY <1>1, Taking, SMT DEF QueueInputBuffer
<1>5. /\ rest' \in Seq(Piece) /\ status' \in {"ok", "error"} /\ hasInput' \in BOOLEAN
      /\ stage' \in {"enqueue", "dequeue"}
  BY <1>1, <1>3, <1>4, ReturnsTypes DEF TypeOK
<1>6. p = End <=> lastIndex = EndMarker
  <2>1. CASE lastIndex = EndMarker
    BY <1>1, <2>1 DEF InHand
  <2>2. CASE lastIndex # EndMarker
    BY <1>1, <2>2, Taking DEF InHand
  <2> QED BY <2>1, <2>2
<1>7. lastIndex = EndMarker => stage' = "dequeue"
  BY <1>1, <1>4, ReturnsTypes DEF InHand
<1> HIDE DEF p
<1>8. TypeOK'
  <2>1. codecIn' \in Seq(Piece) /\ Len(codecIn') <= InputBuffers
    BY <1>1, <1>2, <1>3, Adding, DecoderAssumption DEF TypeOK
  <2>2. endQueued' \in BOOLEAN
    BY <1>1, <1>2
  <2> QED BY <1>1, <1>5, <2>1, <2>2 DEF TypeOK
<1>9. Order'
  BY <1>1 DEF Order
<1>10. InHand'
  <2> SUFFICES ASSUME stage' = "enqueue" PROVE InHand'
    BY DEF InHand
  <2>1. rest' = Tail(rest) /\ Tail(rest) # <<>>
    BY <1>1, <1>4, ReturnsTypes
  <2>2. lastIndex # EndMarker /\ ~EndIn(Tail(rest))
    BY <1>1, <1>7, Taking DEF InHand
  <2> QED BY <1>1, <2>1, <2>2 DEF InHand
<1>11. EndGiven'
  <2>1. EndIn(codecIn') <=> p = End
    BY <1>1, <1>2, <1>3, Adding
  <2>2. EndLast(codecIn') /\ EndLast(codecOut') /\ ~EndIn(codecOut')
    BY <1>1, <1>2, <1>3, Adding DEF EndGiven
  <2> QED BY <1>1, <1>2, <1>6, <1>7, <2>1, <2>2 DEF EndGiven
<1>12. Finished'
  BY <1>1, <1>2, <1>5 DEF Finished
<1> QED BY <1>8, <1>9, <1>10, <1>11, <1>12 DEF IInv

\* What a dequeue does, while the end is in the buffers or was not given.
LEMMA DequeueFacts ==
  ASSUME IInv, Dequeue, endQueued => EndIn(codecIn) \/ EndIn(codecOut)
  PROVE  /\ codecOut' \in Seq(Piece) /\ Len(codecOut') <= OutputBuffers
         /\ hasOutput' \in BOOLEAN /\ lastInfo' \in {"written", "unwritten", "error"}
         /\ EndLast(codecOut') /\ (EndIn(codecOut') => codecIn = <<>>)
         /\ endQueued => EndIn(codecIn) \/ EndIn(codecOut') \/ ~hasOutput'
         /\ ~endQueued => ~EndIn(codecOut')
         /\ lastInfo' = "written" /\ ~hasOutput' => endQueued /\ codecIn = <<>> /\ codecOut' = <<>>
<1> USE DEF IInv
<1>1. codecOut \in Seq(Piece) /\ Len(codecOut) <= OutputBuffers /\ Len(codecOut) \in Nat
  BY DEF TypeOK
<1>2. CASE DequeueNothing
  BY <1>1, <1>2 DEF DequeueNothing, EndGiven
<1>3. CASE DequeueOutput
  <2> DEFINE p == Head(codecOut)
  <2>1. /\ codecOut # <<>> /\ codecOut' = Tail(codecOut)
        /\ \/ hasOutput' = (p # End) /\ lastInfo' = "written"
           \/ hasOutput' = FALSE /\ lastInfo' = "error"
    BY <1>3 DEF DequeueOutput, EndFlag
  <2>2. /\ codecOut' \in Seq(Piece) /\ Len(codecOut') <= OutputBuffers
        /\ EndLast(codecOut') /\ (EndIn(codecOut') => EndIn(codecOut))
    BY <1>1, <2>1, Taking, DecoderAssumption DEF EndGiven
  <2>3. p = End => EndIn(codecOut) /\ codecOut' = <<>>
    BY <1>1, <2>1, Taking DEF EndGiven
  <2>4. p # End /\ EndIn(codecOut) => EndIn(codecOut')
    BY <1>1, <2>1, Taking
  <2> HIDE DEF p
  <2> QED BY <2>1, <2>2, <2>3, <2>4 DEF EndGiven
<1> QED BY <1>2, <1>3 DEF Dequeue

LEMMA DequeueBufferStep ==
  ASSUME IInv, DequeueBuffer
  PROVE  IInv'
<1>1. /\ TypeOK /\ Order /\ InHand /\ EndGiven /\ Finished /\ Dequeue
      /\ stage = "dequeue" /\ stage' = "fetch"
      /\ UNCHANGED <<isRunning, packetVars, codecIn, flushed, endQueued, loopVars>>
  BY DEF IInv, DequeueBuffer, Dequeue
<1>2. endQueued => EndIn(codecIn) \/ EndIn(codecOut)
  BY <1>1 DEF EndGiven
<1>3. TypeOK'
  BY <1>1, <1>2, DequeueFacts DEF TypeOK
<1>4. Order' /\ InHand'
  BY <1>1 DEF Order, InHand
<1>5. EndGiven'
  BY <1>1, <1>2, DequeueFacts DEF EndGiven
<1>6. Finished'
  BY <1>1, <1>2, DequeueFacts DEF Finished
<1> QED BY <1>3, <1>4, <1>5, <1>6 DEF IInv

LEMMA DrainStep ==
  ASSUME IInv, Drain
  PROVE  IInv'
<1>1. /\ TypeOK /\ Order /\ InHand /\ EndGiven /\ Finished /\ Dequeue
      /\ stage = "drain" /\ stage' = "drain" /\ hasOutput
      /\ UNCHANGED <<isRunning, packetVars, codecIn, flushed, endQueued, loopVars>>
  BY DEF IInv, Drain, Dequeue, Drains
<1>2. endQueued => EndIn(codecIn) \/ EndIn(codecOut)
  BY <1>1 DEF EndGiven
<1>3. TypeOK'
  BY <1>1, <1>2, DequeueFacts DEF TypeOK
<1>4. Order' /\ InHand'
  BY <1>1 DEF Order, InHand
<1>5. EndGiven'
  BY <1>1, <1>2, DequeueFacts DEF EndGiven
<1>6. Finished'
  BY <1>1, <1>2, DequeueFacts DEF Finished
<1> QED BY <1>3, <1>4, <1>5, <1>6 DEF IInv

LEMMA NextIInv == IInv /\ [Next]_vars => IInv'
<1> SUFFICES ASSUME IInv, [Next]_vars PROVE IInv'
  OBVIOUS
<1>1. CASE \/ Stop \/ SetFormat \/ SayHi \/ AwaitCodec \/ StartCodec \/ BeginDataAccess
           \/ EndReceiving \/ EndDataAccess \/ BYEDestroy \/ StopCodec \/ StopPlayback
  BY <1>1, ThreadControlStep
<1>2. CASE \E k \in 0 .. EndMarker : Deliver(k)
  BY <1>2, DeliverStep
<1>3. CASE Decode
  BY <1>3, DecodeStep
<1>4. CASE GetNextPacket
  BY <1>4, GetNextPacketStep
<1>5. CASE QueueInputBuffer
  BY <1>5, QueueInputBufferStep
<1>6. CASE NoInputBuffer \/ QueueInputBufferFails
  BY <1>6, NotQueuedStep
<1>7. CASE DequeueBuffer
  BY <1>7, DequeueBufferStep
<1>8. CASE Drain
  BY <1>8, DrainStep
<1>9. CASE UNCHANGED vars
  BY <1>9 DEF vars, IInv, TypeOK, Order, InHand, EndGiven, Finished
<1> QED BY <1>1, <1>2, <1>3, <1>4, <1>5, <1>6, <1>7, <1>8, <1>9 DEF Next, Thread

LEMMA Invariant == Spec => []IInv
BY InitIInv, NextIInv, PTL DEF Spec
-----------------------------------------------------------------------------
\* The variables have their types, and the buffers of the codec suffice.
THEOREM TypeCorrectness == Spec => []TypeOK
<1>1. IInv => TypeOK
  BY DEF IInv
<1> QED BY <1>1, Invariant, PTL

\* The end of the stream stays the last the codec is given (decoder.c:217-220):
\* nothing is queued behind it, and no flush throws it away.
THEOREM EndIsLast == Spec => []EndStaysLast
<1>1. IInv => EndStaysLast
  BY DEF IInv, EndGiven, EndStaysLast
<1> QED BY <1>1, Invariant, PTL

\* A thread that was told by the codec that it is done (ReceiverSession.cpp:139)
\* plays what it has and leaves nothing of the track in the codec.
THEOREM HeardToTheEnd == Spec => []AllHeardAtEnd
<1>1. IInv => AllHeardAtEnd
  BY DEF IInv, Finished, AllHeardAtEnd
<1> QED BY <1>1, Invariant, PTL

HIDE DEF packetVars, codecVars, loopVars, outputVars
-----------------------------------------------------------------------------
(* Programs of the threads: sequences of what is still to be done.         *)

Has(s, d) == \E i \in 1..Len(s) : s[i].do = d

Takes(x) == x.do = "BeginDataAccess" \/ (x.do = "lock" /\ x.mutex = "sources")
Gives(x) == x.do = "EndDataAccess" \/ (x.do = "unlock" /\ x.mutex = "sources")

\* Who takes the source table gives it back later.
GivesBack(s) == \A i \in 1..Len(s) : Takes(s[i]) => \E j \in i + 1..Len(s) : Gives(s[j])

PollDos == {"lock", "unlock", "delay", "waits", "select", "woken", "Poll", "GetNextPacket", "timeouts",
            "IsTime", "stop?", "AddDestination", "connected", "DeleteDestination", "disconnected",
            "farewell?", "CreateNewSSRC", "reset", "pass", "send", "sent", "goodbye"}
StreamDos == {"SendPacket", "begin", "round", "BeginDataAccess", "EndDataAccess",
              "lock", "unlock", "send", "pass", "sent"}
SntpDos == {"report", "SendRTCPAPPPacket", "pass", "send", "sent"}
StatsDos == {"look", "walked"}
EarlyDos == {"start", "created", "AddDestination", "pass", "threads", "stopsession", "join", "delete"}
EndDos == {"BYEDestroy", "Destroy", "stop", "abort", "ended?", "bye", "goodbye", "close", "free",
           "clear", "cleared"}

\* What is done without a mutex once the transmitter may be gone.
Bare == {"free", "clear", "cleared", "stopsession", "join", "delete", "Destroy", "look", "walked"}

Item ==
  {x \in [do : PollDos \cup StreamDos \cup SntpDos \cup StatsDos \cup EarlyDos \cup EndDos,
          mutex : Session!Mutexes \cup {NULL}] : x.do \in Bare => x.mutex = NULL}

Rank(d) ==
  CASE d = "start" -> 1 [] d = "created" -> 2 [] d = "AddDestination" -> 4 [] d = "pass" -> 4
    [] d = "threads" -> 5 [] d = "stopsession" -> 6 [] d = "join" -> 7 [] d = "delete" -> 8
    [] d = "BYEDestroy" -> 9 [] d = "Destroy" -> 9
    [] d = "stop" -> 10 [] d = "abort" -> 11 [] d = "ended?" -> 12 [] d = "bye" -> 13
    [] d = "goodbye" -> 14 [] d = "close" -> 15 [] d = "free" -> 16 [] d = "clear" -> 17
    [] d = "cleared" -> 18 [] OTHER -> 0

Sorted(s) ==
  \A i, j \in 1..Len(s) : i < j =>
    Rank(s[i].do) < Rank(s[j].do) \/ (s[i].do = "goodbye" /\ s[j].do = "goodbye")

DoesOnly(s, dos) == s \in Seq(Item) /\ \A i \in 1..Len(s) : s[i].do \in dos

PollShape(s) ==
  /\ DoesOnly(s, PollDos) /\ GivesBack(s)
  /\ \A i \in 1..Len(s) : s[i].do = "stop?" <=> i = Len(s)
  /\ \A i \in 1..Len(s) : s[i].do = "waits" => \E j \in i + 1..Len(s) : s[j].do = "woken"
  /\ \A i, j \in 1..Len(s) : i < j =>
       /\ s[i].do = "waits" => s[j].do # "waits"
       /\ s[i].do = "woken" => s[j].do # "select"

StreamShape(s) ==
  /\ DoesOnly(s, StreamDos) /\ GivesBack(s)
  /\ \A i \in 1..Len(s) : s[i].do \in {"begin", "round"} <=> i = Len(s)

EndShape(s) ==
  /\ DoesOnly(s, EndDos) /\ Sorted(s)
  /\ \A i \in 1..Len(s) : s[i].do \in {"BYEDestroy", "Destroy"} => i = Len(s)
  /\ Len(s) > 0 => s[Len(s)].do \in {"BYEDestroy", "Destroy", "cleared"}

EarlyShape(s) ==
  /\ DoesOnly(s, EarlyDos) /\ Sorted(s)
  /\ \A i \in 1..Len(s) :
       /\ s[i].do \in {"start", "created", "AddDestination", "pass"} => Has(s, "threads")
       /\ s[i].do = "threads" => Has(s, "join")

SntpShape(s) == DoesOnly(s, SntpDos) /\ (Len(s) > 0 => s[Len(s)].do = "report")
StatsShape(s) == DoesOnly(s, StatsDos)

Shapes ==
  /\ PollShape(todo["poll"])
  /\ StreamShape(todo["network"]) \/ EndShape(todo["network"])
  /\ EarlyShape(todo["control"]) \/ EndShape(todo["control"])
  /\ SntpShape(todo["sntp"]) /\ StatsShape(todo["stats"])
-----------------------------------------------------------------------------
SessionTypes ==
  /\ todo \in [Session!Threads -> Seq(Item)]
  /\ holds \in [Session!Mutexes -> Session!Threads \cup {NULL}]
  /\ abortdesc \in Nat

PollWaiting ==
  /\ todo["poll"] # <<>> => running
  /\ waitingfordata => Has(todo["poll"], "woken") /\ ~Has(todo["poll"], "waits")
  /\ aborted => abortdesc > 0

Begun ==
  /\ Has(todo["control"], "threads") => todo["network"] = <<>> /\ rtptrans = "created"
  /\ Has(todo["control"], "threads") /\ ~Has(todo["control"], "created") => created
  /\ Has(todo["control"], "start") => todo["poll"] = <<>>
  /\ todo["network"] # <<>> => Has(todo["control"], "join")
  /\ Has(todo["network"], "begin") \/ Has(todo["network"], "round") => created

SourcesHeld ==
  /\ holds["sources"] \in {NULL, "poll", "network"}
  /\ holds["sources"] \in {"poll", "network"} =>
       \E i \in 1..Len(todo[holds["sources"]]) : Gives(todo[holds["sources"]][i])

\* No waiting that nobody ends.
PollWoken ==
  /\ ~Has(todo["poll"], "waits")
  /\ Has(todo["poll"], "select") => abortdesc > 0

Ending(t) ==
  /\ Has(todo[t], "ended?") /\ ~Has(todo[t], "stop") => stop
  /\ Has(todo[t], "ended?") /\ ~Has(todo[t], "abort") => missed \/ PollWoken
  /\ Has(todo[t], "cleared") /\ ~Has(todo[t], "ended?") => todo["poll"] = <<>>
  /\ Has(todo[t], "stop") => Has(todo[t], "abort")

Deleted ==
  rtptrans # "created" =>
    /\ todo["poll"] = <<>>
    /\ \A i \in 1..Len(todo["network"]) : todo["network"][i].do \in {"free", "clear", "cleared"}
    /\ \A i \in 1..Len(todo["control"]) : todo["control"][i].do \in Bare
    /\ created => Has(todo["network"], "cleared") \/ Has(todo["control"], "cleared")

Clearing ==
  /\ walking \subseteq {"stats", "network", "control"}
  /\ \A t \in walking \ {"stats"} : Has(todo[t], "cleared") /\ ~Has(todo[t], "ended?")

SessionIInv ==
  /\ SessionTypes /\ Shapes /\ PollWaiting /\ Begun /\ SourcesHeld
  /\ Ending("network") /\ Ending("control")
  /\ Deleted /\ Clearing /\ Session!EndsCleanly
-----------------------------------------------------------------------------
\* What a thread has to do after a step: more in place of what it was at.
LEMMA Pushes ==
  ASSUME NEW I, NEW s \in Seq(I), NEW more \in Seq(I), s # <<>>
  PROVE  LET q == more \o Tail(s) IN
           /\ q \in Seq(I) /\ Len(q) = Len(more) + Len(s) - 1
           /\ Len(s) \in Nat \ {0} /\ Len(more) \in Nat /\ Head(s) = s[1]
           /\ \A i \in 1..Len(more) : q[i] = more[i]
           /\ \A i \in 2..Len(s) : Len(more) + i - 1 \in 1..Len(q) /\ q[Len(more) + i - 1] = s[i]
           /\ \A k \in 1..Len(q) :
                \/ k \in 1..Len(more)
                \/ /\ k > Len(more) /\ k - Len(more) + 1 \in 2..Len(s)
                   /\ q[k] = s[k - Len(more) + 1]
<1> DEFINE q == more \o Tail(s)
<1>1. Tail(s) \in Seq(I) /\ Len(s) \in Nat \ {0} /\ Len(more) \in Nat
  BY EmptySeq, HeadTailProperties, LenProperties
<1>2. Len(Tail(s)) = Len(s) - 1 /\ \A i \in 1..Len(Tail(s)) : Tail(s)[i] = s[i + 1]
  BY HeadTailProperties
<1>3. q \in Seq(I) /\ Len(q) = Len(more) + Len(s) - 1
  BY <1>1, <1>2, ConcatProperties
<1>4. \A i \in 1..Len(q) : q[i] = IF i <= Len(more) THEN more[i] ELSE Tail(s)[i - Len(more)]
  BY <1>1, <1>2, <1>3, ConcatProperties
<1> HIDE DEF q
<1>5. \A k \in 1..Len(q) :
        \/ k \in 1..Len(more)
        \/ /\ k > Len(more) /\ k - Len(more) + 1 \in 2..Len(s)
           /\ q[k] = s[k - Len(more) + 1]
  <2> SUFFICES ASSUME NEW k \in 1..Len(q), k \notin 1..Len(more)
               PROVE  k > Len(more) /\ k - Len(more) + 1 \in 2..Len(s) /\ q[k] = s[k - Len(more) + 1]
    OBVIOUS
  <2>1. k > Len(more) /\ k - Len(more) \in 1..Len(Tail(s)) /\ k - Len(more) + 1 \in 2..Len(s)
    BY <1>1, <1>2, <1>3, SMT
  <2>2. q[k] = Tail(s)[k - Len(more)]
    BY <1>1, <1>4, <2>1, SMT
  <2> QED BY <1>2, <2>1, <2>2
<1>6. \A i \in 1..Len(more) : q[i] = more[i]
  BY <1>1, <1>3, <1>4, SMT
<1>7. ASSUME NEW i \in 2..Len(s)
      PROVE  Len(more) + i - 1 \in 1..Len(q) /\ q[Len(more) + i - 1] = s[i]
  <2>1. Len(more) + i - 1 \in 1..Len(q) /\ Len(more) + i - 1 > Len(more)
    BY <1>1, <1>3, SMT
  <2>2. q[Len(more) + i - 1] = s[Len(more) + i - 1 - Len(more) + 1]
    BY <1>1, <1>5, <2>1, SMT
  <2> QED BY <1>1, <2>1, <2>2, SMT
<1>8. Head(s) = s[1]
  OBVIOUS
<1> QED BY <1>1, <1>3, <1>5, <1>6, <1>7, <1>8 DEF q
-----------------------------------------------------------------------------
(* What a step leaves of the shapes.                                       *)

\* What the poll thread adds to a round.
Plain(more) ==
  /\ more \in Seq(Item)
  /\ \A i \in 1..Len(more) :
       /\ more[i].do \in PollDos \ {"stop?", "waits", "select", "woken"}
       /\ ~Takes(more[i]) /\ ~Gives(more[i])

\* The poll thread goes on with its round, and with nobody else's waiting or table.
LEMMA PollPushes ==
  ASSUME NEW s, PollShape(s), s # <<>>, s[1].do # "stop?", NEW more, Plain(more)
  PROVE  LET q == more \o Tail(s) IN
           /\ PollShape(q) /\ q # <<>>
           /\ Has(q, "waits") => Has(s, "waits")
           /\ Has(q, "select") => Has(s, "select")
           /\ s[1].do # "woken" /\ Has(s, "woken") => Has(q, "woken")
           /\ s[1].do = "waits" => ~Has(q, "waits") /\ Has(q, "woken")
           /\ s[1].do = "woken" => ~Has(q, "select")
           /\ Takes(s[1]) => \E i \in 1..Len(q) : Gives(q[i])
           /\ ~Gives(s[1]) /\ (\E i \in 1..Len(s) : Gives(s[i])) => \E i \in 1..Len(q) : Gives(q[i])
<1> DEFINE q == more \o Tail(s)
<1>1. s \in Seq(Item) /\ more \in Seq(Item)
  BY DEF PollShape, DoesOnly, Plain
<1>2. /\ q \in Seq(Item) /\ Len(q) = Len(more) + Len(s) - 1
      /\ Len(s) \in Nat \ {0} /\ Len(more) \in Nat /\ Head(s) = s[1]
      /\ \A i \in 1..Len(more) : q[i] = more[i]
      /\ \A i \in 2..Len(s) : Len(more) + i - 1 \in 1..Len(q) /\ q[Len(more) + i - 1] = s[i]
      /\ \A k \in 1..Len(q) :
           \/ k \in 1..Len(more)
           \/ /\ k > Len(more) /\ k - Len(more) + 1 \in 2..Len(s)
              /\ q[k] = s[k - Len(more) + 1]
  BY <1>1, Pushes
<1> HIDE DEF q
<1>3. Len(s) > 1
  <2>1. 1 \in 1..Len(s)
    BY <1>2, SMT
  <2> QED BY <1>2, <2>1, SMT DEF PollShape
<1>4. q # <<>>
  BY <1>2, <1>3, EmptySeq, SMT
<1>5. DoesOnly(q, PollDos)
  BY <1>2 DEF DoesOnly, Plain, PollShape
<1>6. GivesBack(q)
  <2> SUFFICES ASSUME NEW k \in 1..Len(q), Takes(q[k])
               PROVE  \E j \in k + 1..Len(q) : Gives(q[j])
    BY DEF GivesBack
  <2>1. k > Len(more) /\ k - Len(more) + 1 \in 2..Len(s) /\ Takes(s[k - Len(more) + 1])
    BY <1>2 DEF Plain
  <2>2. k - Len(more) + 1 \in 1..Len(s)
    BY <1>2, <2>1, SMT
  <2>3. PICK j \in k - Len(more) + 1 + 1..Len(s) : Gives(s[j])
    BY <2>1, <2>2 DEF PollShape, GivesBack
  <2>4. j \in 2..Len(s) /\ Len(more) + j - 1 \in k + 1..Len(q)
    BY <1>2, <2>1, <2>3, SMT
  <2> QED BY <1>2, <2>3, <2>4
<1>7. \A i \in 1..Len(q) : q[i].do = "stop?" <=> i = Len(q)
  <2> SUFFICES ASSUME NEW k \in 1..Len(q) PROVE q[k].do = "stop?" <=> k = Len(q)
    OBVIOUS
  <2>1. CASE k \in 1..Len(more)
    <3>1. q[k].do # "stop?"
      BY <1>2, <2>1 DEF Plain
    <3>2. k # Len(q)
      BY <1>2, <1>3, <2>1, SMT
    <3> QED BY <3>1, <3>2
  <2>2. CASE k > Len(more) /\ k - Len(more) + 1 \in 2..Len(s) /\ q[k] = s[k - Len(more) + 1]
    <3>1. k - Len(more) + 1 \in 1..Len(s)
      BY <1>2, <2>2, SMT
    <3>2. q[k].do = "stop?" <=> k - Len(more) + 1 = Len(s)
      BY <2>2, <3>1 DEF PollShape
    <3>3. k - Len(more) + 1 = Len(s) <=> k = Len(q)
      BY <1>2, SMT
    <3> QED BY <3>2, <3>3
  <2> QED BY <1>2, <2>1, <2>2
<1>8. ASSUME NEW k \in 1..Len(q), q[k].do \in {"waits", "select", "woken", "stop?"} \/ Gives(q[k])
      PROVE  k > Len(more) /\ k - Len(more) + 1 \in 2..Len(s) /\ q[k] = s[k - Len(more) + 1]
  BY <1>2, <1>8 DEF Plain
<1>9. ASSUME NEW i \in 1..Len(s), i # 1
      PROVE  \E k \in 1..Len(q) : q[k] = s[i]
  <2>1. i \in 2..Len(s)
    BY <1>2, <1>9, SMT
  <2> QED BY <1>2, <2>1
<1>10. 1 \in 1..Len(s) /\ \A i \in 2..Len(s) : i \in 1..Len(s) /\ 1 < i
  BY <1>2, SMT
<1>11. \A i \in 1..Len(q) : q[i].do = "waits" => \E j \in i + 1..Len(q) : q[j].do = "woken"
  <2> SUFFICES ASSUME NEW k \in 1..Len(q), q[k].do = "waits"
               PROVE  \E j \in k + 1..Len(q) : q[j].do = "woken"
    OBVIOUS
  <2>1. k > Len(more) /\ k - Len(more) + 1 \in 2..Len(s) /\ s[k - Len(more) + 1].do = "waits"
    BY <1>8
  <2>2. k - Len(more) + 1 \in 1..Len(s)
    BY <1>2, <2>1, SMT
  <2>3. PICK j \in k - Len(more) + 1 + 1..Len(s) : s[j].do = "woken"
    BY <2>1, <2>2 DEF PollShape
  <2>4. j \in 2..Len(s) /\ Len(more) + j - 1 \in k + 1..Len(q)
    BY <1>2, <2>1, <2>3, SMT
  <2> QED BY <1>2, <2>3, <2>4
<1>12. \A i, j \in 1..Len(q) : i < j =>
         /\ q[i].do = "waits" => q[j].do # "waits"
         /\ q[i].do = "woken" => q[j].do # "select"
  <2> SUFFICES ASSUME NEW i \in 1..Len(q), NEW j \in 1..Len(q), i < j,
                      q[i].do \in {"waits", "woken"}, q[j].do \in {"waits", "select"}
               PROVE  /\ q[i].do = "waits" => q[j].do # "waits"
                      /\ q[i].do = "woken" => q[j].do # "select"
    OBVIOUS
  <2>1. /\ i - Len(more) + 1 \in 2..Len(s) /\ q[i] = s[i - Len(more) + 1]
        /\ j - Len(more) + 1 \in 2..Len(s) /\ q[j] = s[j - Len(more) + 1]
    BY <1>8
  <2>2. i - Len(more) + 1 < j - Len(more) + 1
    BY <1>2, SMT
  <2> QED BY <1>10, <2>1, <2>2 DEF PollShape
<1>13. PollShape(q)
  BY <1>5, <1>6, <1>7, <1>11, <1>12 DEF PollShape
<1>14. /\ Has(q, "waits") => Has(s, "waits")
       /\ Has(q, "select") => Has(s, "select")
  BY <1>8, <1>10 DEF Has
<1>15. s[1].do # "woken" /\ Has(s, "woken") => Has(q, "woken")
  BY <1>9 DEF Has
<1>16. s[1].do = "waits" => ~Has(q, "waits") /\ Has(q, "woken")
  <2> SUFFICES ASSUME s[1].do = "waits" PROVE ~Has(q, "waits") /\ Has(q, "woken")
    OBVIOUS
  <2>1. \A i \in 2..Len(s) : s[i].do # "waits"
    BY <1>10 DEF PollShape
  <2>2. PICK j \in 1 + 1..Len(s) : s[j].do = "woken"
    BY <1>10 DEF PollShape
  <2>3. j \in 2..Len(s)
    BY <1>2, <2>2, SMT
  <2> QED BY <1>2, <1>8, <2>1, <2>2, <2>3 DEF Has
<1>17. s[1].do = "woken" => ~Has(q, "select")
  <2> SUFFICES ASSUME s[1].do = "woken" PROVE ~Has(q, "select")
    OBVIOUS
  <2>1. \A i \in 2..Len(s) : s[i].do # "select"
    BY <1>10 DEF PollShape
  <2> QED BY <1>8, <2>1 DEF Has
<1>18. Takes(s[1]) => \E i \in 1..Len(q) : Gives(q[i])
  <2> SUFFICES ASSUME Takes(s[1]) PROVE \E i \in 1..Len(q) : Gives(q[i])
    OBVIOUS
  <2>1. PICK j \in 1 + 1..Len(s) : Gives(s[j])
    BY <1>10 DEF PollShape, GivesBack
  <2>2. j \in 2..Len(s)
    BY <1>2, <2>1, SMT
  <2> QED BY <1>2, <2>1, <2>2
<1>19. ~Gives(s[1]) /\ (\E i \in 1..Len(s) : Gives(s[i])) => \E i \in 1..Len(q) : Gives(q[i])
  BY <1>9
<1> QED BY <1>4, <1>13, <1>14, <1>15, <1>16, <1>17, <1>18, <1>19 DEF q

\* What the network thread makes of a call while it streams.
LEMMA StreamPushes ==
  ASSUME NEW s, StreamShape(s), s # <<>>, s[1].do \notin {"begin", "round"},
         NEW more \in Seq(Item),
         \A i \in 1..Len(more) : more[i].do \in StreamDos \ {"begin", "round"},
         (\A i \in 1..Len(more) : ~Takes(more[i])) \/ Takes(s[1])
  PROVE  LET q == more \o Tail(s) IN
           /\ StreamShape(q) /\ q # <<>>
           /\ Takes(s[1]) => \E i \in 1..Len(q) : Gives(q[i])
           /\ (\E i \in 1..Len(s) : Gives(s[i])) /\ (Gives(s[1]) => \E i \in 1..Len(more) : Gives(more[i]))
                => \E i \in 1..Len(q) : Gives(q[i])
<1> DEFINE q == more \o Tail(s)
<1>1. s \in Seq(Item)
  BY DEF StreamShape, DoesOnly
<1>2. /\ q \in Seq(Item) /\ Len(q) = Len(more) + Len(s) - 1
      /\ Len(s) \in Nat \ {0} /\ Len(more) \in Nat /\ Head(s) = s[1]
      /\ \A i \in 1..Len(more) : q[i] = more[i]
      /\ \A i \in 2..Len(s) : Len(more) + i - 1 \in 1..Len(q) /\ q[Len(more) + i - 1] = s[i]
      /\ \A k \in 1..Len(q) :
           \/ k \in 1..Len(more)
           \/ /\ k > Len(more) /\ k - Len(more) + 1 \in 2..Len(s)
              /\ q[k] = s[k - Len(more) + 1]
  BY <1>1, Pushes
<1> HIDE DEF q
<1>3. /\ 1 \in 1..Len(s) /\ \A i \in 2..Len(s) : i \in 1..Len(s)
      /\ \A i \in 1..Len(more) : i \in 1..Len(q)
  BY <1>2, SMT
<1>4. Len(s) > 1
  BY <1>2, <1>3, SMT DEF StreamShape
<1>5. q # <<>>
  BY <1>2, <1>4, EmptySeq, SMT
<1>6. DoesOnly(q, StreamDos)
  <2> SUFFICES ASSUME NEW k \in 1..Len(q) PROVE q[k].do \in StreamDos
    BY <1>2 DEF DoesOnly
  <2>1. CASE k \in 1..Len(more)
    BY <1>2, <2>1
  <2>2. CASE k - Len(more) + 1 \in 2..Len(s) /\ q[k] = s[k - Len(more) + 1]
    BY <1>3, <2>2 DEF StreamShape, DoesOnly
  <2> QED BY <1>2, <2>1, <2>2
<1>7. Takes(s[1]) => \E j \in 2..Len(s) : Gives(s[j])
  <2> SUFFICES ASSUME Takes(s[1]) PROVE \E j \in 2..Len(s) : Gives(s[j])
    OBVIOUS
  <2>1. PICK j \in 1 + 1..Len(s) : Gives(s[j])
    BY <1>3 DEF StreamShape, GivesBack
  <2>2. j \in 2..Len(s)
    BY <1>2, <2>1, SMT
  <2> QED BY <2>1, <2>2
<1>8. GivesBack(q)
  <2> SUFFICES ASSUME NEW k \in 1..Len(q), Takes(q[k])
               PROVE  \E j \in k + 1..Len(q) : Gives(q[j])
    BY DEF GivesBack
  <2>1. CASE k \in 1..Len(more)
    <3>1. Takes(s[1])
      BY <1>2, <2>1
    <3>2. PICK j \in 2..Len(s) : Gives(s[j])
      BY <1>7, <3>1
    <3>3. Len(more) + j - 1 \in k + 1..Len(q)
      BY <1>2, <2>1, SMT
    <3> QED BY <1>2, <3>2, <3>3
  <2>2. CASE k > Len(more) /\ k - Len(more) + 1 \in 2..Len(s) /\ q[k] = s[k - Len(more) + 1]
    <3>1. PICK j \in k - Len(more) + 1 + 1..Len(s) : Gives(s[j])
      BY <1>3, <2>2 DEF StreamShape, GivesBack
    <3>2. j \in 2..Len(s) /\ Len(more) + j - 1 \in k + 1..Len(q)
      BY <1>2, <2>2, <3>1, SMT
    <3> QED BY <1>2, <3>1, <3>2
  <2> QED BY <1>2, <2>1, <2>2
<1>9. \A k \in 1..Len(q) : q[k].do \in {"begin", "round"} <=> k = Len(q)
  <2> SUFFICES ASSUME NEW k \in 1..Len(q) PROVE q[k].do \in {"begin", "round"} <=> k = Len(q)
    OBVIOUS
  <2>1. CASE k \in 1..Len(more)
    <3>1. q[k].do \notin {"begin", "round"}
      BY <1>2, <2>1
    <3>2. k # Len(q)
      BY <1>2, <1>4, <2>1, SMT
    <3> QED BY <3>1, <3>2
  <2>2. CASE k > Len(more) /\ k - Len(more) + 1 \in 2..Len(s) /\ q[k] = s[k - Len(more) + 1]
    <3>1. q[k].do \in {"begin", "round"} <=> k - Len(more) + 1 = Len(s)
      BY <1>3, <2>2 DEF StreamShape
    <3>2. k - Len(more) + 1 = Len(s) <=> k = Len(q)
      BY <1>2, SMT
    <3> QED BY <3>1, <3>2
  <2> QED BY <1>2, <2>1, <2>2
<1>10. StreamShape(q)
  BY <1>6, <1>8, <1>9 DEF StreamShape
<1>11. Takes(s[1]) => \E i \in 1..Len(q) : Gives(q[i])
  BY <1>2, <1>7
<1>12. ASSUME NEW i \in 1..Len(s), Gives(s[i]), Gives(s[1]) => \E j \in 1..Len(more) : Gives(more[j])
       PROVE  \E k \in 1..Len(q) : Gives(q[k])
  <2>1. i = 1 \/ i \in 2..Len(s)
    BY <1>2, SMT
  <2>2. CASE i = 1
    BY <1>2, <1>3, <1>12, <2>2
  <2>3. CASE i \in 2..Len(s)
    BY <1>2, <1>12, <2>3
  <2> QED BY <2>1, <2>2, <2>3
<1> QED BY <1>5, <1>10, <1>11, <1>12 DEF q

\* What a program still has after a step.
LEMMA HasPushes ==
  ASSUME NEW s \in Seq(Item), s # <<>>, NEW more \in Seq(Item)
  PROVE  LET q == more \o Tail(s) IN
           /\ \A d : Has(q, d) => Has(more, d) \/ \E i \in 2..Len(s) : s[i].do = d
           /\ \A d : Has(more, d) => Has(q, d)
           /\ \A d : (\E i \in 2..Len(s) : s[i].do = d) => Has(q, d)
           /\ \A d : Has(s, d) /\ d # s[1].do => Has(q, d)
<1> DEFINE q == more \o Tail(s)
<1>1. /\ q \in Seq(Item) /\ Len(q) = Len(more) + Len(s) - 1
      /\ Len(s) \in Nat \ {0} /\ Len(more) \in Nat /\ Head(s) = s[1]
      /\ \A i \in 1..Len(more) : q[i] = more[i]
      /\ \A i \in 2..Len(s) : Len(more) + i - 1 \in 1..Len(q) /\ q[Len(more) + i - 1] = s[i]
      /\ \A k \in 1..Len(q) :
           \/ k \in 1..Len(more)
           \/ /\ k > Len(more) /\ k - Len(more) + 1 \in 2..Len(s)
              /\ q[k] = s[k - Len(more) + 1]
  BY Pushes
<1> HIDE DEF q
<1>2. \A i \in 1..Len(more) : i \in 1..Len(q)
  BY <1>1, SMT
<1>3. \A i \in 1..Len(s) : i = 1 \/ i \in 2..Len(s)
  BY <1>1, SMT
<1>4. \A d : Has(q, d) => Has(more, d) \/ \E i \in 2..Len(s) : s[i].do = d
  BY <1>1 DEF Has
<1>5. \A d : Has(more, d) => Has(q, d)
  BY <1>1, <1>2 DEF Has
<1>6. \A d : (\E i \in 2..Len(s) : s[i].do = d) => Has(q, d)
  BY <1>1 DEF Has
<1>7. \A d : Has(s, d) /\ d # s[1].do => \E i \in 2..Len(s) : s[i].do = d
  BY <1>3 DEF Has
<1> QED BY <1>4, <1>5, <1>6, <1>7 DEF q

\* The order in which a session is created, stopped and destroyed.
LEMMA Ranks ==
  /\ Rank("start") = 1 /\ Rank("created") = 2 /\ Rank("AddDestination") = 4 /\ Rank("pass") = 4
  /\ Rank("threads") = 5 /\ Rank("stopsession") = 6 /\ Rank("join") = 7 /\ Rank("delete") = 8
  /\ Rank("BYEDestroy") = 9 /\ Rank("Destroy") = 9 /\ Rank("stop") = 10 /\ Rank("abort") = 11
  /\ Rank("ended?") = 12 /\ Rank("bye") = 13 /\ Rank("goodbye") = 14 /\ Rank("close") = 15
  /\ Rank("free") = 16 /\ Rank("clear") = 17 /\ Rank("cleared") = 18
  /\ \A d : Rank(d) \in Nat
BY DEF Rank

\* What comes after what while it is destroyed.
LEMMA EndRanks ==
  ASSUME NEW d, NEW e, e \in EndDos \/ d = e,
         Rank(d) < Rank(e) \/ (d = "goodbye" /\ e = "goodbye")
  PROVE  /\ d # "cleared" /\ Rank(e) >= Rank(d) /\ (d = e => d = "goodbye")
         /\ d = "bye" => Rank("goodbye") < Rank(e) \/ e = "goodbye"
         /\ d \in EndDos \ {"BYEDestroy", "Destroy"} => e \notin {"BYEDestroy", "Destroy"}
<1>1. Rank(d) \in Nat /\ Rank(e) \in Nat
  BY Ranks
<1>2. d = e => d = "goodbye"
  BY <1>1, SMT
<1>3. e \in EndDos
  BY <1>2 DEF EndDos
<1>4. Rank(e) >= Rank(d)
  BY <1>1, SMT
<1>5. d # "cleared"
  BY <1>3, Ranks DEF EndDos
<1>6. d = "bye" => Rank("goodbye") < Rank(e) \/ e = "goodbye"
  BY <1>3, Ranks DEF EndDos
<1>7. d \in EndDos \ {"BYEDestroy", "Destroy"} => e \notin {"BYEDestroy", "Destroy"}
  BY Ranks DEF EndDos
<1> QED BY <1>2, <1>4, <1>5, <1>6, <1>7

\* What is left once its transmitter is closed.
LEMMA LateRanks ==
  ASSUME NEW d \in {"close", "free"}, NEW e \in EndDos, Rank(e) >= Rank(d)
  PROVE  e \in {"clear", "cleared", "free"} \/ e = d
BY Ranks DEF EndDos

\* What comes after what until it is deleted.
LEMMA EarlyRanks ==
  ASSUME NEW d, NEW e, Rank(d) < Rank(e)
  PROVE  /\ d # e /\ ~(Rank(e) <= Rank(d)) /\ Rank(e) >= Rank(d)
         /\ e \in EarlyDos => d # "delete"
         /\ e \in {"start", "created", "AddDestination", "pass"} => d # "threads"
         /\ e = "threads" => d # "join"
<1>1. Rank(d) \in Nat /\ Rank(e) \in Nat
  BY Ranks
<1>2. d # e /\ ~(Rank(e) <= Rank(d)) /\ Rank(e) >= Rank(d)
  BY <1>1, SMT
<1>3. e \in EarlyDos => d # "delete"
  BY Ranks DEF EarlyDos
<1>4. e \in {"start", "created", "AddDestination", "pass"} => d # "threads"
  BY Ranks
<1>5. e = "threads" => d # "join"
  BY Ranks
<1> QED BY <1>2, <1>3, <1>4, <1>5

\* The order is kept.
LEMMA SortedPushes ==
  ASSUME NEW s \in Seq(Item), s # <<>>, Sorted(s), NEW more \in Seq(Item), NEW d,
         \A i \in 1..Len(more) : more[i].do = d, d = "goodbye" \/ Len(more) <= 1,
         \A i \in 1..Len(more), j \in 2..Len(s) :
           Rank(d) < Rank(s[j].do) \/ (d = "goodbye" /\ s[j].do = "goodbye")
  PROVE  Sorted(more \o Tail(s))
<1> DEFINE q == more \o Tail(s)
<1>1. /\ q \in Seq(Item) /\ Len(q) = Len(more) + Len(s) - 1
      /\ Len(s) \in Nat \ {0} /\ Len(more) \in Nat /\ Head(s) = s[1]
      /\ \A i \in 1..Len(more) : q[i] = more[i]
      /\ \A i \in 2..Len(s) : Len(more) + i - 1 \in 1..Len(q) /\ q[Len(more) + i - 1] = s[i]
      /\ \A k \in 1..Len(q) :
           \/ k \in 1..Len(more)
           \/ /\ k > Len(more) /\ k - Len(more) + 1 \in 2..Len(s)
              /\ q[k] = s[k - Len(more) + 1]
  BY Pushes
<1> HIDE DEF q
<1> SUFFICES ASSUME NEW i \in 1..Len(q), NEW j \in 1..Len(q), i < j
             PROVE  Rank(q[i].do) < Rank(q[j].do) \/ (q[i].do = "goodbye" /\ q[j].do = "goodbye")
  BY DEF Sorted, q
<1>2. CASE j \in 1..Len(more)
  <2>1. i \in 1..Len(more) /\ Len(more) > 1
    BY <1>1, <1>2, SMT
  <2>2. d = "goodbye"
    BY <1>1, <2>1, SMT
  <2> QED BY <1>1, <1>2, <2>1, <2>2
<1>3. CASE i \in 1..Len(more) /\ j - Len(more) + 1 \in 2..Len(s) /\ q[j] = s[j - Len(more) + 1]
  <2>1. q[i].do = d
    BY <1>1, <1>3
  <2>2. \/ Rank(d) < Rank(s[j - Len(more) + 1].do)
        \/ d = "goodbye" /\ s[j - Len(more) + 1].do = "goodbye"
    BY <1>3
  <2> QED BY <1>3, <2>1, <2>2
<1>4. CASE /\ i - Len(more) + 1 \in 2..Len(s) /\ q[i] = s[i - Len(more) + 1]
           /\ j - Len(more) + 1 \in 2..Len(s) /\ q[j] = s[j - Len(more) + 1]
  <2>1. /\ i - Len(more) + 1 < j - Len(more) + 1
        /\ i - Len(more) + 1 \in 1..Len(s) /\ j - Len(more) + 1 \in 1..Len(s)
    BY <1>1, <1>4, SMT
  <2>2. \/ Rank(s[i - Len(more) + 1].do) < Rank(s[j - Len(more) + 1].do)
        \/ s[i - Len(more) + 1].do = "goodbye" /\ s[j - Len(more) + 1].do = "goodbye"
    BY <2>1 DEF Sorted
  <2> QED BY <1>4, <2>2
<1> QED BY <1>1, <1>2, <1>3, <1>4

\* A session that is being destroyed: the poll thread has ended, or BYE packets are sent.
LEMMA EndPushes ==
  ASSUME NEW s, EndShape(s), s # <<>>, s[1].do \notin {"BYEDestroy", "Destroy"},
         NEW more \in Seq(Item), \A i \in 1..Len(more) : more[i].do = "goodbye",
         more = <<>> \/ s[1].do = "bye"
  PROVE  LET q == more \o Tail(s) IN
           /\ EndShape(q)
           /\ \A d : Has(q, d) => Has(s, d) \/ d = "goodbye"
           /\ \A d : Has(s, d) /\ d # s[1].do => Has(q, d)
           /\ s[1].do # "goodbye" => ~Has(q, s[1].do)
           /\ \A i \in 1..Len(q) : Rank(q[i].do) >= Rank(s[1].do)
           /\ Has(s, "cleared")
           /\ s[1].do = "cleared" => q = <<>>
<1> DEFINE q == more \o Tail(s)
<1>1. s \in Seq(Item)
  BY DEF EndShape, DoesOnly
<1>2. /\ q \in Seq(Item) /\ Len(q) = Len(more) + Len(s) - 1
      /\ Len(s) \in Nat \ {0} /\ Len(more) \in Nat /\ Head(s) = s[1]
      /\ \A i \in 1..Len(more) : q[i] = more[i]
      /\ \A i \in 2..Len(s) : Len(more) + i - 1 \in 1..Len(q) /\ q[Len(more) + i - 1] = s[i]
      /\ \A k \in 1..Len(q) :
           \/ k \in 1..Len(more)
           \/ /\ k > Len(more) /\ k - Len(more) + 1 \in 2..Len(s)
              /\ q[k] = s[k - Len(more) + 1]
  BY <1>1, Pushes
<1>3. /\ \A d : Has(q, d) => Has(more, d) \/ \E i \in 2..Len(s) : s[i].do = d
      /\ \A d : Has(s, d) /\ d # s[1].do => Has(q, d)
  BY <1>1, HasPushes
<1>4. /\ 1 \in 1..Len(s) /\ Len(s) \in 1..Len(s)
      /\ \A i \in 2..Len(s) : i \in 1..Len(s) /\ 1 < i
  BY <1>2, SMT
<1>5. s[Len(s)].do = "cleared"
  <2>1. CASE Len(s) = 1
    BY <1>4, <2>1 DEF EndShape
  <2>2. CASE Len(s) > 1 /\ s[Len(s)].do \in {"BYEDestroy", "Destroy"}
    <3>1. \/ Rank(s[1].do) < Rank(s[Len(s)].do)
          \/ s[1].do = "goodbye" /\ s[Len(s)].do = "goodbye"
      BY <1>4, <2>2 DEF EndShape, Sorted
    <3>2. s[1].do \in EndDos
      BY <1>4 DEF EndShape, DoesOnly
    <3>3. s[Len(s)].do \in EndDos
      BY <1>4 DEF EndShape, DoesOnly
    <3> QED BY <2>2, <3>1, <3>2, <3>3, EndRanks
  <2> QED BY <1>2, <1>4, <2>1, <2>2 DEF EndShape
<1>6. \A j \in 2..Len(s) :
        Rank(s[1].do) < Rank(s[j].do) \/ (s[1].do = "goodbye" /\ s[j].do = "goodbye")
  BY <1>4 DEF EndShape, Sorted
<1>7. \A d : Has(more, d) => d = "goodbye"
  BY DEF Has
<1>8. \A j \in 2..Len(s) : s[j].do \in EndDos \ {"BYEDestroy", "Destroy"}
  <2> SUFFICES ASSUME NEW j \in 2..Len(s) PROVE s[j].do \in EndDos \ {"BYEDestroy", "Destroy"}
    OBVIOUS
  <2>1. s[j].do \in EndDos /\ (s[j].do \in {"BYEDestroy", "Destroy"} => j = Len(s))
    BY <1>4 DEF EndShape, DoesOnly
  <2> QED BY <1>5, <2>1
<1>9. Sorted(q)
  <2>1. \A i \in 1..Len(more), j \in 2..Len(s) :
          Rank("goodbye") < Rank(s[j].do) \/ ("goodbye" = "goodbye" /\ s[j].do = "goodbye")
    <3> SUFFICES ASSUME NEW i \in 1..Len(more), NEW j \in 2..Len(s)
                 PROVE  Rank("goodbye") < Rank(s[j].do) \/ s[j].do = "goodbye"
      OBVIOUS
    <3>1. s[1].do = "bye"
      BY <1>2, EmptySeq, SMT
    <3> QED BY <1>6, <1>8, <3>1, EndRanks
  <2> HIDE DEF q
  <2>2. Sorted(s)
    BY DEF EndShape
  <2> QED BY <1>1, <2>1, <2>2, SortedPushes DEF q
<1> HIDE DEF q
<1>10. \A k \in 1..Len(q) : q[k].do \in EndDos \ {"BYEDestroy", "Destroy"}
  <2> SUFFICES ASSUME NEW k \in 1..Len(q) PROVE q[k].do \in EndDos \ {"BYEDestroy", "Destroy"}
    OBVIOUS
  <2>1. CASE k \in 1..Len(more)
    BY <1>2, <2>1 DEF EndDos
  <2>2. CASE k - Len(more) + 1 \in 2..Len(s) /\ q[k] = s[k - Len(more) + 1]
    BY <1>8, <2>2
  <2> QED BY <1>2, <2>1, <2>2
<1>11. Len(q) > 0 => q[Len(q)].do = "cleared"
  <2> SUFFICES ASSUME Len(q) > 0 PROVE q[Len(q)].do = "cleared"
    OBVIOUS
  <2>1. s[1].do # "cleared"
    <3> SUFFICES ASSUME s[1].do = "cleared" PROVE FALSE
      OBVIOUS
    <3>1. Len(more) = 0
      BY EmptySeq, SMT
    <3>2. 2 \in 2..Len(s)
      BY <1>2, <3>1, SMT
    <3> QED BY <1>6, <1>8, <3>2, EndRanks
  <2>2. Len(s) \in 2..Len(s)
    BY <1>2, <1>5, <2>1, SMT
  <2>3. Len(more) + Len(s) - 1 = Len(q)
    BY <1>2, SMT
  <2> QED BY <1>2, <1>5, <2>2, <2>3
<1>12. EndShape(q)
  BY <1>2, <1>9, <1>10, <1>11 DEF EndShape, DoesOnly
<1>13. \A d : Has(q, d) => Has(s, d) \/ d = "goodbye"
  BY <1>3, <1>4, <1>7 DEF Has
<1>14. s[1].do # "goodbye" => ~Has(q, s[1].do)
  <2> SUFFICES ASSUME s[1].do # "goodbye", Has(q, s[1].do) PROVE FALSE
    OBVIOUS
  <2>1. PICK i \in 2..Len(s) : s[i].do = s[1].do
    BY <1>3, <1>7
  <2>2. Rank(s[1].do) < Rank(s[i].do)
    BY <1>6
  <2> QED BY <2>1, <2>2, Ranks
<1>15. \A k \in 1..Len(q) : Rank(q[k].do) >= Rank(s[1].do)
  <2> SUFFICES ASSUME NEW k \in 1..Len(q) PROVE Rank(q[k].do) >= Rank(s[1].do)
    OBVIOUS
  <2>1. CASE k \in 1..Len(more)
    <3>1. s[1].do = "bye" /\ q[k].do = "goodbye"
      BY <1>2, <2>1, EmptySeq, SMT
    <3> QED BY <3>1, Ranks
  <2>2. CASE k - Len(more) + 1 \in 2..Len(s) /\ q[k] = s[k - Len(more) + 1]
    <3>1. \/ Rank(s[1].do) < Rank(q[k].do)
          \/ s[1].do = "goodbye" /\ q[k].do = "goodbye"
      BY <1>6, <2>2
    <3>2. q[k].do \in EndDos
      BY <1>10
    <3> QED BY <3>1, <3>2, EndRanks
  <2> QED BY <1>2, <2>1, <2>2
<1>16. Has(s, "cleared")
  BY <1>4, <1>5 DEF Has
<1>17. s[1].do = "cleared" => q = <<>>
  <2> SUFFICES ASSUME s[1].do = "cleared", q # <<>> PROVE FALSE
    OBVIOUS
  <2>1. Len(q) > 0
    BY <1>2, EmptySeq, SMT
  <2>2. Has(q, "cleared")
    BY <1>2, <1>11, <2>1, SMT DEF Has
  <2> QED BY <1>14, <2>2
<1> QED BY <1>3, <1>12, <1>13, <1>14, <1>15, <1>16, <1>17 DEF q

\* The beginning and the end of the session's life, and what it has after its start.
LEMMA EarlyPushes ==
  ASSUME NEW s, EarlyShape(s), s # <<>>,
         NEW more \in Seq(Item), more = <<>> \/ (s[1].do = "AddDestination" /\ Len(more) = 1),
         \A i \in 1..Len(more) : more[i].do = "pass"
  PROVE  LET q == more \o Tail(s) IN
           /\ EarlyShape(q)
           /\ \A d : Has(q, d) => Has(s, d) \/ (d = "pass" /\ s[1].do = "AddDestination")
           /\ \A d : Has(s, d) /\ d # s[1].do => Has(q, d)
           /\ \A d : Rank(d) <= Rank(s[1].do) /\ d # "pass" => ~Has(q, d)
           /\ s[1].do = "delete" => q = <<>>
<1> DEFINE q == more \o Tail(s)
<1>1. s \in Seq(Item)
  BY DEF EarlyShape, DoesOnly
<1>2. /\ q \in Seq(Item) /\ Len(q) = Len(more) + Len(s) - 1
      /\ Len(s) \in Nat \ {0} /\ Len(more) \in Nat /\ Head(s) = s[1]
      /\ \A i \in 1..Len(more) : q[i] = more[i]
      /\ \A i \in 2..Len(s) : Len(more) + i - 1 \in 1..Len(q) /\ q[Len(more) + i - 1] = s[i]
      /\ \A k \in 1..Len(q) :
           \/ k \in 1..Len(more)
           \/ /\ k > Len(more) /\ k - Len(more) + 1 \in 2..Len(s)
              /\ q[k] = s[k - Len(more) + 1]
  BY <1>1, Pushes
<1>3. /\ \A d : Has(q, d) => Has(more, d) \/ \E i \in 2..Len(s) : s[i].do = d
      /\ \A d : Has(s, d) /\ d # s[1].do => Has(q, d)
  BY <1>1, HasPushes
<1>4. 1 \in 1..Len(s) /\ \A i \in 2..Len(s) : i \in 1..Len(s) /\ 1 < i
  BY <1>2, SMT
<1>5. \A j \in 2..Len(s) : s[j].do \in EarlyDos /\ Rank(s[1].do) < Rank(s[j].do)
  <2> SUFFICES ASSUME NEW j \in 2..Len(s)
               PROVE  s[j].do \in EarlyDos /\ Rank(s[1].do) < Rank(s[j].do)
    OBVIOUS
  <2>1. s[j].do \in EarlyDos
    BY <1>4 DEF EarlyShape, DoesOnly
  <2>2. s[j].do # "goodbye"
    BY <2>1 DEF EarlyDos
  <2> QED BY <1>4, <2>1, <2>2 DEF EarlyShape, Sorted
<1>6. s[1].do \in EarlyDos
  BY <1>4 DEF EarlyShape, DoesOnly
<1>7. \A i \in 1..Len(more) : s[1].do = "AddDestination"
  BY <1>2, EmptySeq, SMT
<1>8. \A d : Has(more, d) => d = "pass" /\ s[1].do = "AddDestination"
  BY <1>7 DEF Has
<1>9. \A d : Has(q, d) => Has(s, d) \/ (d = "pass" /\ s[1].do = "AddDestination")
  BY <1>3, <1>4, <1>8 DEF Has
<1>10. \A d : Rank(d) <= Rank(s[1].do) /\ d # "pass" => ~Has(q, d)
  <2> SUFFICES ASSUME NEW d, Rank(d) <= Rank(s[1].do), d # "pass", Has(q, d) PROVE FALSE
    OBVIOUS
  <2>1. CASE Has(more, d)
    BY <1>8, <2>1
  <2>2. CASE \E i \in 2..Len(s) : s[i].do = d
    BY <1>5, <2>2, EarlyRanks
  <2> QED BY <1>3, <2>1, <2>2
<1>11. Sorted(q)
  <2>1. \A i \in 1..Len(more), j \in 2..Len(s) :
          Rank("pass") < Rank(s[j].do) \/ ("pass" = "goodbye" /\ s[j].do = "goodbye")
    BY <1>5, <1>7, Ranks
  <2>2. Len(more) <= 1
    BY <1>2, EmptySeq, SMT
  <2>3. Sorted(s)
    BY DEF EarlyShape
  <2> HIDE DEF q
  <2> QED BY <1>1, <2>1, <2>2, <2>3, SortedPushes DEF q
<1> HIDE DEF q
<1>12. DoesOnly(q, EarlyDos)
  <2> SUFFICES ASSUME NEW k \in 1..Len(q) PROVE q[k].do \in EarlyDos
    BY <1>2 DEF DoesOnly
  <2>1. CASE k \in 1..Len(more)
    BY <1>2, <2>1 DEF EarlyDos
  <2>2. CASE k - Len(more) + 1 \in 2..Len(s) /\ q[k] = s[k - Len(more) + 1]
    BY <1>5, <2>2
  <2> QED BY <1>2, <2>1, <2>2
<1>13. ASSUME NEW k \in 1..Len(q)
       PROVE  /\ q[k].do \in {"start", "created", "AddDestination", "pass"} => Has(q, "threads")
              /\ q[k].do = "threads" => Has(q, "join")
  <2>1. CASE k \in 1..Len(more)
    <3>1. q[k].do = "pass" /\ s[1].do = "AddDestination"
      BY <1>2, <1>7, <2>1
    <3>2. Has(s, "threads")
      BY <1>4, <3>1 DEF EarlyShape
    <3> QED BY <1>3, <3>1, <3>2
  <2>2. CASE k - Len(more) + 1 \in 2..Len(s) /\ q[k] = s[k - Len(more) + 1]
    <3>1. /\ q[k].do \in {"start", "created", "AddDestination", "pass"} => Has(s, "threads")
          /\ q[k].do = "threads" => Has(s, "join")
      BY <1>4, <2>2 DEF EarlyShape
    <3>2. Rank(s[1].do) < Rank(q[k].do)
      BY <1>5, <2>2
    <3>3. q[k].do \in {"start", "created", "AddDestination", "pass"} => s[1].do # "threads"
      BY <3>2, EarlyRanks
    <3>4. q[k].do = "threads" => s[1].do # "join"
      BY <3>2, EarlyRanks
    <3> QED BY <1>3, <3>1, <3>3, <3>4
  <2> QED BY <1>2, <2>1, <2>2
<1>14. EarlyShape(q)
  BY <1>11, <1>12, <1>13 DEF EarlyShape
<1>15. s[1].do = "delete" => q = <<>>
  <2> SUFFICES ASSUME s[1].do = "delete", q # <<>> PROVE FALSE
    OBVIOUS
  <2>1. Len(more) = 0
    BY EmptySeq, SMT
  <2>2. 2 \in 2..Len(s)
    BY <1>2, <2>1, EmptySeq, SMT
  <2>3. s[2].do \in EarlyDos /\ Rank(s[1].do) < Rank(s[2].do)
    BY <1>5, <2>2
  <2> QED BY <2>3, EarlyRanks
<1> QED BY <1>3, <1>9, <1>10, <1>14, <1>15 DEF q
-----------------------------------------------------------------------------
(* Steps of the poll thread.                                               *)

LEMMA Names == NULL \notin Session!Threads /\ NULL \notin Session!Mutexes
BY SessionAssumption

\* A step changes the program of its thread alone.
LEMMA Goes ==
  ASSUME SessionIInv, NEW t \in Session!Threads, todo[t] # <<>>, NEW more \in Seq(Item),
         todo' = [todo EXCEPT ![t] = more \o Tail(@)]
  PROVE  /\ todo' \in [Session!Threads -> Seq(Item)]
         /\ todo'[t] = more \o Tail(todo[t])
         /\ \A u \in Session!Threads \ {t} : todo'[u] = todo[u]
<1>1. todo \in [Session!Threads -> Seq(Item)] /\ todo[t] \in Seq(Item)
  BY DEF SessionIInv, SessionTypes
<1>2. more \o Tail(todo[t]) \in Seq(Item)
  BY <1>1, Pushes
<1> QED BY <1>1, <1>2

\* What a step of thread t with more to do may do to the mutexes.
HoldsStep(t, more) ==
  /\ holds' \in [Session!Mutexes -> Session!Threads \cup {NULL}]
  /\ \/ /\ holds'["sources"] = holds["sources"]
        /\ Gives(todo[t][1]) => \E i \in 1..Len(more) : Gives(more[i])
     \/ holds'["sources"] = t /\ Takes(todo[t][1])
     \/ holds'["sources"] = NULL

LEMMA ThreadNames ==
  /\ "poll" \in Session!Threads /\ "network" \in Session!Threads /\ "control" \in Session!Threads
  /\ "sntp" \in Session!Threads /\ "stats" \in Session!Threads /\ "sources" \in Session!Mutexes
BY DEF Session!Threads, Session!Mutexes

\* Of what the other threads may have to do, a step of the poll thread changes nothing.
LEMMA PollGoes ==
  ASSUME SessionIInv, todo["poll"] # <<>>, todo["poll"][1].do # "stop?",
         NEW more, Plain(more), todo' = [todo EXCEPT !["poll"] = more \o Tail(@)],
         UNCHANGED <<created, walking, running, stop, rtptrans, missed, wrong>>,
         HoldsStep("poll", more), abortdesc' \in Nat, PollWaiting', PollWoken => PollWoken'
  PROVE  SessionIInv'
<1> DEFINE s == todo["poll"]
           q == more \o Tail(s)
<1>1. PollShape(s) /\ more \in Seq(Item)
  BY DEF SessionIInv, Shapes, Plain
<1>2. /\ todo' \in [Session!Threads -> Seq(Item)]
      /\ todo'["poll"] = q
      /\ todo'["network"] = todo["network"] /\ todo'["control"] = todo["control"]
      /\ todo'["sntp"] = todo["sntp"] /\ todo'["stats"] = todo["stats"]
  BY <1>1, Goes, ThreadNames
<1>3. /\ PollShape(q) /\ q # <<>>
      /\ Takes(s[1]) => \E i \in 1..Len(q) : Gives(q[i])
      /\ ~Gives(s[1]) /\ (\E i \in 1..Len(s) : Gives(s[i])) => \E i \in 1..Len(q) : Gives(q[i])
  BY <1>1, PollPushes
<1> HIDE DEF q, s
<1>4. ~Has(todo["control"], "start") /\ rtptrans = "created"
  BY DEF SessionIInv, Begun, Deleted
<1>5. \A t \in {"network", "control"} : ~(Has(todo[t], "cleared") /\ ~Has(todo[t], "ended?"))
  BY DEF SessionIInv, Ending
<1>6. SessionTypes'
  BY <1>2 DEF SessionTypes, HoldsStep
<1>7. Shapes'
  BY <1>2, <1>3 DEF SessionIInv, Shapes
<1>8. Begun'
  BY <1>2, <1>4 DEF SessionIInv, Begun
<1>9. SourcesHeld'
  <2>1. CASE holds'["sources"] = NULL
    BY <2>1, Names DEF SourcesHeld, Session!Threads
  <2>2. CASE holds'["sources"] = "poll" /\ Takes(s[1])
    BY <1>2, <1>3, <2>2 DEF SourcesHeld
  <2>3. CASE holds'["sources"] = holds["sources"] /\ ~Gives(s[1])
    <3>1. CASE holds["sources"] = "poll"
      BY <1>2, <1>3, <2>3, <3>1 DEF SourcesHeld, SessionIInv, s
    <3>2. CASE holds["sources"] # "poll"
      BY <1>2, <2>3, <3>2 DEF SourcesHeld, SessionIInv
    <3> QED BY <3>1, <3>2
  <2> QED BY <2>1, <2>2, <2>3 DEF HoldsStep, Plain, s
<1>10. Ending("network")' /\ Ending("control")'
  BY <1>2, <1>5 DEF SessionIInv, Ending
<1>11. Deleted' /\ Clearing' /\ Session!EndsCleanly'
  BY <1>2, <1>4 DEF SessionIInv, Deleted, Clearing, Session!EndsCleanly
<1> QED BY <1>6, <1>7, <1>8, <1>9, <1>10, <1>11 DEF SessionIInv

\* The same, for the steps that do not wait.
LEMMA PollQuiet ==
  ASSUME SessionIInv, todo["poll"] # <<>>,
         todo["poll"][1].do \notin {"stop?", "waits", "select", "woken"},
         NEW more, Plain(more), todo' = [todo EXCEPT !["poll"] = more \o Tail(@)],
         UNCHANGED <<created, walking, running, stop, rtptrans, missed, wrong>>,
         UNCHANGED <<waitingfordata, abortdesc, aborted>>,
         HoldsStep("poll", more)
  PROVE  SessionIInv'
<1> DEFINE s == todo["poll"]
           q == more \o Tail(s)
<1>1. PollShape(s) /\ more \in Seq(Item)
  BY DEF SessionIInv, Shapes, Plain
<1>2. todo'["poll"] = q
  BY <1>1, Goes, ThreadNames
<1>3. /\ q # <<>> /\ (Has(q, "waits") => Has(s, "waits")) /\ (Has(q, "select") => Has(s, "select"))
      /\ Has(s, "woken") => Has(q, "woken")
  BY <1>1, PollPushes
<1> HIDE DEF q
<1>4. PollWaiting'
  BY <1>2, <1>3 DEF SessionIInv, PollWaiting
<1>5. PollWoken => PollWoken'
  BY <1>2, <1>3 DEF PollWoken
<1>6. abortdesc' \in Nat
  BY DEF SessionIInv, SessionTypes
<1> QED BY <1>4, <1>5, <1>6, PollGoes
-----------------------------------------------------------------------------
(* Steps of the network thread while it streams, and of the SNTP thread.   *)

\* A step of a call that the network thread makes while it streams.
LEMMA StreamGoes ==
  ASSUME SessionIInv, StreamShape(todo["network"]), todo["network"] # <<>>,
         todo["network"][1].do \notin {"begin", "round"},
         NEW more \in Seq(Item),
         \A i \in 1..Len(more) : more[i].do \in StreamDos \ {"begin", "round"},
         (\A i \in 1..Len(more) : ~Takes(more[i])) \/ Takes(todo["network"][1]),
         todo' = [todo EXCEPT !["network"] = more \o Tail(@)],
         UNCHANGED <<created, walking, running, stop, rtptrans, missed, wrong>>,
         UNCHANGED <<waitingfordata, abortdesc, aborted>>,
         HoldsStep("network", more)
  PROVE  SessionIInv'
<1> DEFINE s == todo["network"]
           q == more \o Tail(s)
<1>1. /\ todo' \in [Session!Threads -> Seq(Item)]
      /\ todo'["network"] = q
      /\ todo'["poll"] = todo["poll"] /\ todo'["control"] = todo["control"]
      /\ todo'["sntp"] = todo["sntp"] /\ todo'["stats"] = todo["stats"]
  BY Goes, ThreadNames
<1>2. /\ StreamShape(q) /\ q # <<>>
      /\ Takes(s[1]) => \E i \in 1..Len(q) : Gives(q[i])
      /\ (\E i \in 1..Len(s) : Gives(s[i])) /\ (Gives(s[1]) => \E i \in 1..Len(more) : Gives(more[i]))
           => \E i \in 1..Len(q) : Gives(q[i])
  BY StreamPushes
<1>3. s \in Seq(Item) /\ Len(s) \in 1..Len(s)
  <2>1. s \in Seq(Item)
    BY DEF StreamShape, DoesOnly
  <2> QED BY <2>1, EmptySeq, LenProperties, SMT
<1>4. s[Len(s)].do \in {"begin", "round"}
  BY <1>3 DEF StreamShape
<1> HIDE DEF q, s
<1>5. created /\ rtptrans = "created"
  <2>1. Has(s, "begin") \/ Has(s, "round")
    BY <1>3, <1>4 DEF Has
  <2> QED BY <1>3, <1>4, <2>1 DEF SessionIInv, Begun, Deleted, s
<1>6. ~Has(todo["control"], "threads")
  BY DEF SessionIInv, Begun
<1>7. \A d \in {"cleared", "ended?", "stop"} : ~Has(s, d) /\ ~Has(q, d)
  BY <1>2 DEF StreamShape, DoesOnly, Has, StreamDos, s
<1>8. SessionTypes'
  BY <1>1 DEF SessionIInv, SessionTypes, HoldsStep
<1>9. Shapes' /\ PollWaiting'
  BY <1>1, <1>2 DEF SessionIInv, Shapes, PollWaiting
<1>10. Begun'
  BY <1>1, <1>5, <1>6 DEF SessionIInv, Begun
<1>11. SourcesHeld'
  <2>1. CASE holds'["sources"] = NULL
    BY <2>1, Names DEF SourcesHeld, Session!Threads
  <2>2. CASE holds'["sources"] = "network" /\ Takes(s[1])
    BY <1>1, <1>2, <2>2 DEF SourcesHeld
  <2>3. CASE /\ holds'["sources"] = holds["sources"]
             /\ Gives(s[1]) => \E i \in 1..Len(more) : Gives(more[i])
    <3>1. CASE holds["sources"] = "network"
      BY <1>1, <1>2, <2>3, <3>1 DEF SourcesHeld, SessionIInv, s
    <3>2. CASE holds["sources"] # "network"
      BY <1>1, <2>3, <3>2 DEF SourcesHeld, SessionIInv
    <3> QED BY <3>1, <3>2
  <2> QED BY <2>1, <2>2, <2>3 DEF HoldsStep, s
<1>12. Ending("network")'
  BY <1>1, <1>7 DEF Ending
<1>13. Ending("control")'
  BY <1>1 DEF SessionIInv, Ending, PollWoken
<1>14. Deleted' /\ Session!EndsCleanly'
  BY <1>1, <1>5 DEF SessionIInv, Deleted, Session!EndsCleanly
<1>15. Clearing'
  BY <1>1, <1>7 DEF SessionIInv, Clearing, s
<1> QED BY <1>8, <1>9, <1>10, <1>11, <1>12, <1>13, <1>14, <1>15 DEF SessionIInv

\* The statistics and SNTP threads have nothing to do with the others.
LEMMA OthersGo ==
  ASSUME SessionIInv, NEW t \in {"sntp", "stats"},
         todo' \in [Session!Threads -> Seq(Item)],
         \A u \in Session!Threads \ {t} : todo'[u] = todo[u],
         SntpShape(todo'["sntp"]), StatsShape(todo'["stats"]),
         UNCHANGED <<created, running, stop, rtptrans, missed, wrong>>,
         UNCHANGED <<waitingfordata, abortdesc, aborted>>,
         walking' \ {"stats"} = walking \ {"stats"},
         holds' \in [Session!Mutexes -> Session!Threads \cup {NULL}],
         holds'["sources"] = holds["sources"]
  PROVE  SessionIInv'
<1>1. /\ todo'["poll"] = todo["poll"] /\ todo'["control"] = todo["control"]
      /\ todo'["network"] = todo["network"]
  BY ThreadNames
<1>2. SessionTypes' /\ Shapes' /\ PollWaiting'
  BY <1>1 DEF SessionIInv, SessionTypes, Shapes, PollWaiting
<1>3. Begun'
  BY <1>1 DEF SessionIInv, Begun
<1>4. SourcesHeld'
  BY <1>1 DEF SessionIInv, SourcesHeld
<1>5. Ending("network")' /\ Ending("control")'
  BY <1>1 DEF SessionIInv, Ending, PollWoken
<1>6. Deleted' /\ Session!EndsCleanly'
  BY <1>1 DEF SessionIInv, Deleted, Session!EndsCleanly
<1>7. Clearing'
  <2>1. \A u \in walking' \ {"stats"} : u \in walking \ {"stats"}
    OBVIOUS
  <2>2. \A u \in walking \ {"stats"} : u \in {"network", "control"} /\ todo'[u] = todo[u]
    BY <1>1 DEF SessionIInv, Clearing
  <2> QED BY <2>1, <2>2 DEF SessionIInv, Clearing
<1> QED BY <1>2, <1>3, <1>4, <1>5, <1>6, <1>7 DEF SessionIInv

LEMMA OneOrMore == ASSUME NEW n \in Nat \ {0} PROVE (n > 1 \/ n = 1) /\ (1 < n \/ n = 1)
OBVIOUS

\* The SNTP thread ends with its next report.
LEMMA SntpPushes ==
  ASSUME NEW s, SntpShape(s), s # <<>>,
         NEW more \in Seq(Item), \A i \in 1..Len(more) : more[i].do \in SntpDos,
         s[1].do = "report" /\ more # <<>> => more[Len(more)].do = "report"
  PROVE  SntpShape(more \o Tail(s))
<1> DEFINE q == more \o Tail(s)
<1>1. s \in Seq(Item)
  BY DEF SntpShape, DoesOnly
<1>2. /\ q \in Seq(Item) /\ Len(q) = Len(more) + Len(s) - 1
      /\ Len(s) \in Nat \ {0} /\ Len(more) \in Nat /\ Head(s) = s[1]
      /\ \A i \in 1..Len(more) : q[i] = more[i]
      /\ \A i \in 2..Len(s) : Len(more) + i - 1 \in 1..Len(q) /\ q[Len(more) + i - 1] = s[i]
      /\ \A k \in 1..Len(q) :
           \/ k \in 1..Len(more)
           \/ /\ k > Len(more) /\ k - Len(more) + 1 \in 2..Len(s)
              /\ q[k] = s[k - Len(more) + 1]
  BY <1>1, Pushes
<1> HIDE DEF q
<1>3. \A i \in 2..Len(s) : i \in 1..Len(s)
  BY <1>2, SMT
<1>4. DoesOnly(q, SntpDos)
  <2> SUFFICES ASSUME NEW k \in 1..Len(q) PROVE q[k].do \in SntpDos
    BY <1>2 DEF DoesOnly
  <2>1. CASE k \in 1..Len(more)
    BY <1>2, <2>1
  <2>2. CASE k - Len(more) + 1 \in 2..Len(s) /\ q[k] = s[k - Len(more) + 1]
    BY <1>3, <2>2 DEF SntpShape, DoesOnly
  <2> QED BY <1>2, <2>1, <2>2
<1>5. Len(q) > 0 => q[Len(q)].do = "report"
  <2> SUFFICES ASSUME Len(q) > 0 PROVE q[Len(q)].do = "report"
    OBVIOUS
  <2>1. CASE Len(s) > 1
    <3>1. Len(s) \in 2..Len(s) /\ Len(more) + Len(s) - 1 = Len(q) /\ Len(s) > 0
      BY <1>2, <2>1, SMT
    <3> QED BY <1>2, <3>1 DEF SntpShape
  <2>2. CASE Len(s) = 1
    <3>1. Len(q) = Len(more) /\ Len(more) \in 1..Len(more) /\ more # <<>>
      BY <1>2, <2>2, EmptySeq, SMT
    <3>2. s[1].do = "report"
      BY <1>2, <2>2 DEF SntpShape
    <3> QED BY <1>2, <3>1, <3>2
  <2>3. Len(s) > 1 \/ Len(s) = 1
    BY <1>2, OneOrMore
  <2> QED BY <2>1, <2>2, <2>3
<1> QED BY <1>4, <1>5 DEF SntpShape, q
-----------------------------------------------------------------------------
(* Steps of who destroys the session, and of who creates and stops it.     *)

\* While one of the two destroys the session, the other is not there.
LEMMA OneEnds ==
  ASSUME SessionIInv, NEW t \in {"network", "control"}, EndShape(todo[t]), todo[t] # <<>>
  PROVE  /\ ~Has(todo["control"], "threads") /\ ~Has(todo["control"], "start")
         /\ ~Has(todo["network"], "begin") /\ ~Has(todo["network"], "round")
         /\ todo["network"] # <<>> => t = "network"
         /\ holds["sources"] # "network"
         /\ t = "network" => /\ EarlyShape(todo["control"]) /\ Has(todo["control"], "join")
                             /\ \A d \in EndDos : ~Has(todo["control"], d)
<1>1. \A d : Has(todo[t], d) => d \in EndDos
  BY DEF EndShape, DoesOnly, Has
<1>2. CASE t = "network"
  <2>1. Has(todo["control"], "join") /\ ~Has(todo["control"], "threads")
    BY <1>2 DEF SessionIInv, Begun
  <2>2. ~EndShape(todo["control"])
    BY <2>1 DEF EndShape, DoesOnly, Has, EndDos
  <2>3. EarlyShape(todo["control"])
    BY <2>2 DEF SessionIInv, Shapes
  <2>4. ~Has(todo["control"], "start")
    BY <2>1, <2>3 DEF EarlyShape, Has
  <2>5. \A d \in EndDos : ~Has(todo["control"], d)
    <3> SUFFICES ASSUME NEW d \in EndDos, NEW i \in 1..Len(todo["control"]), todo["control"][i].do = d
                 PROVE  FALSE
      BY DEF Has
    <3>1. d \in EarlyDos
      BY <2>3 DEF EarlyShape, DoesOnly
    <3> QED BY <3>1 DEF EarlyDos, EndDos
  <2>6. \A i \in 1..Len(todo["network"]) : todo["network"][i].do \in EndDos
    BY <1>2 DEF EndShape, DoesOnly
  <2>7. \A i \in 1..Len(todo["network"]) : ~Gives(todo["network"][i])
    BY <2>6 DEF EndDos, Gives
  <2>8. holds["sources"] # "network"
    BY <2>7 DEF SessionIInv, SourcesHeld
  <2>9. ~Has(todo["network"], "begin") /\ ~Has(todo["network"], "round")
    BY <1>1, <1>2 DEF EndDos
  <2> QED BY <1>2, <2>1, <2>3, <2>4, <2>5, <2>8, <2>9
<1>3. CASE t = "control"
  <2>1. ~Has(todo["control"], "join") /\ ~Has(todo["control"], "threads") /\ ~Has(todo["control"], "start")
    BY <1>1, <1>3 DEF EndDos
  <2>2. todo["network"] = <<>>
    BY <2>1 DEF SessionIInv, Begun
  <2>3. Len(todo["network"]) = 0
    BY <2>2, EmptySeq
  <2>4. ~Has(todo["network"], "begin") /\ ~Has(todo["network"], "round")
    BY <2>3, SMT DEF Has
  <2>5. holds["sources"] # "network"
    BY <2>3, SMT DEF SessionIInv, SourcesHeld
  <2> QED BY <1>3, <2>1, <2>2, <2>4, <2>5
<1> QED BY <1>2, <1>3

\* A thread with nothing to do has nothing.
LEMMA EmptyHas == \A d : ~Has(<<>>, d)
BY SMT DEF Has

\* A step of whoever destroys the session.
LEMMA EndGoes ==
  ASSUME SessionIInv, NEW t \in {"network", "control"}, EndShape(todo[t]), todo[t] # <<>>,
         NEW d, d = todo[t][1].do, d \notin {"BYEDestroy", "Destroy"},
         NEW more \in Seq(Item), \A i \in 1..Len(more) : more[i].do = "goodbye",
         more = <<>> \/ d = "bye",
         todo' = [todo EXCEPT ![t] = more \o Tail(@)],
         UNCHANGED <<holds, running, waitingfordata, aborted, wrong>>,
         abortdesc' \in Nat, abortdesc' >= abortdesc,
         stop => stop' \/ d = "ended?", d = "stop" => stop',
         missed => missed', d = "abort" => missed' \/ (waitingfordata /\ abortdesc' > 0),
         d = "ended?" => ~running,
         rtptrans' = rtptrans \/ d \in {"close", "free"},
         created' => created /\ d # "cleared",
         \/ walking' = walking /\ d # "cleared"
         \/ walking' = walking \cup {t} /\ d = "clear"
         \/ walking' = walking \ {t} /\ d = "cleared"
  PROVE  SessionIInv'
<1> DEFINE s == todo[t]
           q == more \o Tail(s)
<1>1. /\ todo' \in [Session!Threads -> Seq(Item)]
      /\ todo'[t] = q
      /\ \A u \in Session!Threads \ {t} : todo'[u] = todo[u]
  BY Goes, ThreadNames
<1>2. /\ EndShape(q)
      /\ \A e : Has(q, e) => Has(s, e) \/ e = "goodbye"
      /\ \A e : Has(s, e) /\ e # d => Has(q, e)
      /\ d # "goodbye" => ~Has(q, d)
      /\ \A i \in 1..Len(q) : Rank(q[i].do) >= Rank(d)
      /\ Has(s, "cleared")
      /\ d = "cleared" => q = <<>>
  BY EndPushes
<1>3. \A e : Has(q, e) => Rank(e) >= Rank(d)
  BY <1>2 DEF Has
<1>4. /\ ~Has(todo["control"], "threads") /\ ~Has(todo["control"], "start")
      /\ ~Has(todo["network"], "begin") /\ ~Has(todo["network"], "round")
      /\ todo["network"] # <<>> => t = "network"
      /\ holds["sources"] # "network"
      /\ t = "network" => /\ EarlyShape(todo["control"]) /\ Has(todo["control"], "join")
                          /\ \A e \in EndDos : ~Has(todo["control"], e)
  BY OneEnds
<1>5. Has(s, d) /\ d \in EndDos
  <2>1. s \in Seq(Item)
    BY DEF EndShape, DoesOnly
  <2>2. 1 \in 1..Len(s)
    BY <2>1, EmptySeq, LenProperties, SMT
  <2> QED BY <2>2 DEF EndShape, DoesOnly, Has
<1> HIDE DEF q, s
<1>6. todo'["poll"] = todo["poll"] /\ todo'["sntp"] = todo["sntp"] /\ todo'["stats"] = todo["stats"]
  BY <1>1, ThreadNames
<1>7. SessionTypes' /\ PollWaiting' /\ Shapes'
  <2>1. SessionTypes' /\ PollWaiting'
    <3>1. SessionTypes'
      BY <1>1 DEF SessionIInv, SessionTypes
    <3>2. aborted => abortdesc' > 0
      BY SMT DEF SessionIInv, PollWaiting, SessionTypes
    <3> QED BY <1>6, <3>1, <3>2 DEF SessionIInv, PollWaiting
  <2>2. Shapes'
    <3>1. CASE t = "network"
      BY <1>1, <1>2, <1>6, <3>1, ThreadNames DEF SessionIInv, Shapes
    <3>2. CASE t = "control"
      BY <1>1, <1>2, <1>6, <3>2, ThreadNames DEF SessionIInv, Shapes
    <3> QED BY <3>1, <3>2
  <2> QED BY <2>1, <2>2
<1>8. \A e \in {"threads", "start", "begin", "round"} : ~Has(q, e)
  BY <1>2 DEF EndShape, DoesOnly, Has, EndDos
<1>9. Begun'
  <2>1. CASE t = "network"
    BY <1>1, <1>4, <1>8, <2>1, ThreadNames DEF Begun
  <2>2. CASE t = "control"
    BY <1>1, <1>4, <1>8, <2>2, ThreadNames DEF Begun
  <2> QED BY <2>1, <2>2
<1>10. SourcesHeld'
  BY <1>4, <1>6, Names DEF SessionIInv, SourcesHeld, Session!Threads
<1>11. Ending(t)'
  <2>1. Ending(t)
    BY DEF SessionIInv
  <2>2. Has(q, "ended?") /\ ~Has(q, "stop") => stop'
    BY <1>2, <2>1 DEF Ending, s
  <2>3. Has(q, "ended?") /\ ~Has(q, "abort") => missed' \/ PollWoken'
    <3> SUFFICES ASSUME Has(q, "ended?"), ~Has(q, "abort"), ~missed' PROVE PollWoken'
      OBVIOUS
    <3>1. CASE d = "abort"
      BY <1>6, <3>1 DEF SessionIInv, PollWaiting, PollWoken
    <3>2. CASE d # "abort"
      <4>1. Has(s, "ended?") /\ ~Has(s, "abort")
        BY <1>2, <3>2
      <4>2. PollWoken
        BY <2>1, <4>1 DEF Ending, s
      <4>3. abortdesc > 0 => abortdesc' > 0
        BY SMT DEF SessionIInv, SessionTypes
      <4> QED BY <1>6, <4>2, <4>3 DEF PollWoken
    <3> QED BY <3>1, <3>2
  <2>4. Has(q, "cleared") /\ ~Has(q, "ended?") => todo["poll"] = <<>>
    <3>1. CASE d = "ended?"
      BY <3>1 DEF SessionIInv, PollWaiting
    <3>2. CASE d # "ended?"
      BY <1>2, <2>1, <3>2 DEF Ending, s
    <3> QED BY <3>1, <3>2
  <2>5. Has(q, "stop") => Has(q, "abort")
    <3> SUFFICES ASSUME Has(q, "stop"), ~Has(q, "abort") PROVE FALSE
      OBVIOUS
    <3>1. d = "abort"
      BY <1>2, <2>1 DEF Ending, s
    <3> QED BY <1>3, <3>1, Ranks
  <2> QED BY <1>1, <1>6, <2>2, <2>3, <2>4, <2>5 DEF Ending
<1>12. \A u \in {"network", "control"} \ {t} : \A e \in EndDos : ~Has(todo[u], e)
  BY <1>4, EmptyHas
<1>13. \A u \in {"network", "control"} \ {t} : todo'[u] = todo[u]
  BY <1>1, ThreadNames
<1>14. Ending("network")' /\ Ending("control")'
  <2>1. ASSUME NEW u \in {"network", "control"} \ {t} PROVE Ending(u)'
    <3>1. ~Has(todo[u], "ended?") /\ ~Has(todo[u], "cleared") /\ ~Has(todo[u], "stop")
      BY <1>12 DEF EndDos
    <3> QED BY <1>13, <3>1 DEF Ending
  <2> QED BY <1>11, <2>1
<1>18. /\ t = "network" => todo'["network"] = q /\ todo'["control"] = todo["control"]
       /\ t = "control" => todo'["control"] = q /\ todo'["network"] = todo["network"]
  BY <1>1, ThreadNames
<1>15. Deleted'
  <2> SUFFICES ASSUME rtptrans' # "created" PROVE Deleted'
    BY DEF Deleted
  <2>1. created' => Has(q, "cleared")
    BY <1>2
  <2>2. CASE d \in {"close", "free"}
    <3>1. \A e : Has(q, e) => e \in EndDos /\ Rank(e) >= Rank(d)
      BY <1>2, <1>3 DEF EndShape, DoesOnly, Has
    <3>2. \A e : Has(q, e) => e \in {"free", "clear", "cleared"}
      <4>1. d # "goodbye"
        BY <2>2
      <4>2. ASSUME NEW e, Has(q, e) PROVE e \in {"free", "clear", "cleared"}
        <5>1. e # d
          BY <1>2, <4>1, <4>2
        <5> QED BY <2>2, <3>1, <4>2, <5>1, LateRanks
      <4> QED BY <4>2
    <3>3. \A i \in 1..Len(q) : q[i].do \in {"free", "clear", "cleared"}
      BY <3>2 DEF Has
    <3>4. todo["poll"] = <<>>
      <4>1. ~Has(s, "ended?")
        BY <1>2, <2>2, <3>2
      <4> QED BY <1>2, <4>1 DEF SessionIInv, Ending, s
    <3>5. CASE t = "network"
      <4>1. \A i \in 1..Len(todo["control"]) : todo["control"][i].do \in Bare
        <5>1. \A i \in 1..Len(todo["control"]) :
                todo["control"][i].do \notin {"start", "created", "AddDestination", "pass", "threads"}
          BY <1>4, <3>5 DEF EarlyShape, Has
        <5>2. \A i \in 1..Len(todo["control"]) : todo["control"][i].do \in EarlyDos
          BY <1>4, <3>5 DEF EarlyShape, DoesOnly
        <5> QED BY <5>1, <5>2 DEF EarlyDos, Bare
      <4> QED BY <1>6, <1>18, <2>1, <3>3, <3>4, <3>5, <4>1 DEF Deleted
    <3>6. CASE t = "control"
      <4>1. todo'["network"] = <<>>
        BY <1>4, <1>18, <3>6
      <4>2. \A i \in 1..Len(<<>>) : <<>>[i].do \in {"free", "clear", "cleared"}
        BY SMT
      <4>3. \A i \in 1..Len(q) : q[i].do \in Bare
        BY <3>3 DEF Bare
      <4> QED BY <1>6, <1>18, <2>1, <3>4, <3>6, <4>1, <4>2, <4>3 DEF Deleted
    <3> QED BY <3>5, <3>6
  <2>3. CASE rtptrans' = rtptrans
    <3>1. /\ todo["poll"] = <<>>
          /\ \A i \in 1..Len(todo["network"]) : todo["network"][i].do \in {"free", "clear", "cleared"}
          /\ \A i \in 1..Len(todo["control"]) : todo["control"][i].do \in Bare
      BY <2>3 DEF SessionIInv, Deleted
    <3>2. d # "bye"
      BY <1>5, <3>1 DEF Has, Bare, s
    <3>3. more = <<>> /\ ~Has(q, "goodbye")
      <4>1. more = <<>>
        BY <3>2
      <4>2. ~Has(s, "goodbye")
        BY <3>1 DEF Has, Bare, s
      <4>3. s \in Seq(Item) /\ s # <<>>
        BY DEF EndShape, DoesOnly, s
      <4>4. Has(q, "goodbye") => Has(more, "goodbye") \/ \E i \in 2..Len(s) : s[i].do = "goodbye"
        <5>1. \A e : Has(more \o Tail(s), e) => Has(more, e) \/ \E i \in 2..Len(s) : s[i].do = e
          BY <4>3, HasPushes
        <5> QED BY <5>1 DEF q
      <4>5. \A i \in 2..Len(s) : i \in 1..Len(s)
        BY <4>3, LenProperties, SMT
      <4> QED BY <4>1, <4>2, <4>4, <4>5, EmptyHas DEF Has
    <3>4. \A i \in 1..Len(q) : Has(s, q[i].do)
      BY <1>2, <3>3 DEF Has
    <3>5. CASE t = "network"
      <4>1. \A i \in 1..Len(q) : q[i].do \in {"free", "clear", "cleared"}
        BY <3>1, <3>4, <3>5 DEF Has, s
      <4> QED BY <1>6, <1>18, <2>1, <3>1, <3>5, <4>1 DEF Deleted
    <3>6. CASE t = "control"
      <4>1. \A i \in 1..Len(q) : q[i].do \in Bare
        BY <3>1, <3>4, <3>6 DEF Has, s
      <4> QED BY <1>6, <1>18, <2>1, <3>1, <3>6, <4>1 DEF Deleted
    <3> QED BY <3>5, <3>6
  <2> QED BY <2>2, <2>3
<1>16. Clearing'
  <2>1. \A u \in walking' \ {"stats", t} : FALSE
    <3> SUFFICES ASSUME NEW u \in walking' \ {"stats", t} PROVE FALSE
      OBVIOUS
    <3>1. u \in walking \ {"stats"}
      OBVIOUS
    <3>2. Has(todo[u], "cleared") /\ u \in {"network", "control"}
      BY <3>1 DEF SessionIInv, Clearing
    <3> QED BY <1>12, <3>2 DEF EndDos
  <2>2. ASSUME t \in walking' PROVE Has(q, "cleared") /\ ~Has(q, "ended?")
    <3>1. CASE d = "clear"
      <4>1. Has(q, "cleared")
        BY <1>2, <3>1
      <4> QED BY <1>3, <3>1, <4>1, Ranks
    <3>2. CASE d # "clear" /\ d # "cleared" /\ t \in walking
      <4>1. Has(s, "cleared") /\ ~Has(s, "ended?")
        BY <3>2 DEF SessionIInv, Clearing, s
      <4> QED BY <1>2, <3>2, <4>1
    <3> QED BY <2>2, <3>1, <3>2
  <2>3. walking' \subseteq {"stats", "network", "control"}
    BY <2>1
  <2> QED BY <1>1, <2>1, <2>2, <2>3 DEF Clearing
<1>17. Session!EndsCleanly'
  BY DEF SessionIInv, Session!EndsCleanly
<1> QED BY <1>7, <1>9, <1>10, <1>14, <1>15, <1>16, <1>17 DEF SessionIInv
-----------------------------------------------------------------------------
(* The programs.                                                           *)

\* The items of the programs, by the constructors of RtpSession.
LEMMA Items ==
  /\ \A m \in Session!Mutexes : Session!Lock(m) \in Item /\ Session!Unlock(m) \in Item
  /\ \A m \in Session!Mutexes, d \in (PollDos \cup StreamDos \cup SntpDos \cup EarlyDos \cup EndDos) \ Bare :
       Session!Within(m, d) \in Item
  /\ \A d \in PollDos \cup StreamDos \cup SntpDos \cup StatsDos \cup EarlyDos \cup EndDos :
       Session!Do(d) \in Item
<1>1. \A m \in Session!Mutexes : Session!Lock(m) \in Item /\ Session!Unlock(m) \in Item
  BY DEF Session!Lock, Session!Unlock, Item, Bare, PollDos
<1>2. \A m \in Session!Mutexes, d \in (PollDos \cup StreamDos \cup SntpDos \cup EarlyDos \cup EndDos) \ Bare :
        Session!Within(m, d) \in Item
  BY DEF Session!Within, Item
<1>3. \A d \in PollDos \cup StreamDos \cup SntpDos \cup StatsDos \cup EarlyDos \cup EndDos :
        Session!Do(d) \in Item
  BY DEF Session!Do, Item
<1> QED BY <1>1, <1>2, <1>3

\* Tuples from their parts.
LEMMA SevenJoined ==
  ASSUME NEW I, NEW a \in I, NEW b \in I, NEW c \in I, NEW d \in I, NEW e \in I, NEW f \in I, NEW g \in I
  PROVE  <<a, b, c>> \o <<d, e>> \o <<f, g>> = <<a, b, c, d, e, f, g>>
<1> DEFINE s == <<a, b, c>> \o <<d, e>> \o <<f, g>>
<1>1. /\ Len(s) = 7 /\ s[1] = a /\ s[2] = b /\ s[3] = c /\ s[4] = d /\ s[5] = e /\ s[6] = f /\ s[7] = g
      /\ s \in Seq(I)
  BY SMT
<1> HIDE DEF s
<1>2. s = <<a, b, c, d, e, f, g>>
  BY <1>1, SMT
<1> QED BY <1>2 DEF s

LEMMA EightJoined ==
  ASSUME NEW I, NEW a \in I, NEW b \in I, NEW c \in I, NEW d \in I, NEW e \in I, NEW f \in I, NEW g \in I,
         NEW h \in I
  PROVE  <<a, b, c>> \o <<d>> \o <<e, f>> \o <<g, h>> = <<a, b, c, d, e, f, g, h>>
<1> DEFINE s == <<a, b, c>> \o <<d>> \o <<e, f>> \o <<g, h>>
<1>1. /\ Len(s) = 8 /\ s[1] = a /\ s[2] = b /\ s[3] = c /\ s[4] = d /\ s[5] = e /\ s[6] = f /\ s[7] = g
      /\ s[8] = h /\ s \in Seq(I)
  BY SMT
<1> HIDE DEF s
<1>2. s = <<a, b, c, d, e, f, g, h>>
  BY <1>1, SMT
<1> QED BY <1>2 DEF s

\* RTPPollThread::Thread, Destroy and BYEDestroy, item by item.
LEMMA PollRoundIs ==
  Session!PollRound =
    <<Session!Lock("sched"), Session!Within("sources", "delay"), Session!Unlock("sched"),
      Session!Within("main", "waits"), Session!Do("select"), Session!Within("main", "woken"),
      Session!Within("main", "Poll"),
      Session!Lock("sources"), Session!Within("main", "GetNextPacket"),
      Session!Within("sched", "timeouts"), Session!Within("sched", "IsTime"),
      Session!Unlock("sources"), Session!Within("stop", "stop?")>>
<1>1. /\ Session!Lock("sched") \in Item /\ Session!Unlock("sched") \in Item
      /\ Session!Lock("sources") \in Item /\ Session!Unlock("sources") \in Item
  BY Items DEF Session!Mutexes
<1>2. /\ Session!Within("sources", "delay") \in Item /\ Session!Within("main", "waits") \in Item
      /\ Session!Within("main", "woken") \in Item /\ Session!Within("main", "Poll") \in Item
      /\ Session!Within("main", "GetNextPacket") \in Item /\ Session!Within("sched", "timeouts") \in Item
      /\ Session!Within("sched", "IsTime") \in Item /\ Session!Within("stop", "stop?") \in Item
  BY Items DEF Session!Mutexes, PollDos, Bare
<1>3. Session!Do("select") \in Item
  BY Items DEF PollDos
<1> DEFINE s == <<Session!Lock("sched"), Session!Within("sources", "delay"), Session!Unlock("sched")>>
                \o <<Session!Within("main", "waits"), Session!Do("select"), Session!Within("main", "woken")>>
                \o <<Session!Within("main", "Poll")>>
                \o <<Session!Lock("sources"), Session!Within("main", "GetNextPacket"),
                     Session!Within("sched", "timeouts"), Session!Within("sched", "IsTime"),
                     Session!Unlock("sources")>>
                \o <<Session!Within("stop", "stop?")>>
<1>4. /\ s \in Seq(Item) /\ Len(s) = 13 /\ s[1] = Session!Lock("sched")
      /\ s[2] = Session!Within("sources", "delay") /\ s[3] = Session!Unlock("sched")
      /\ s[4] = Session!Within("main", "waits") /\ s[5] = Session!Do("select")
      /\ s[6] = Session!Within("main", "woken") /\ s[7] = Session!Within("main", "Poll")
      /\ s[8] = Session!Lock("sources") /\ s[9] = Session!Within("main", "GetNextPacket")
      /\ s[10] = Session!Within("sched", "timeouts") /\ s[11] = Session!Within("sched", "IsTime")
      /\ s[12] = Session!Unlock("sources") /\ s[13] = Session!Within("stop", "stop?")
  BY <1>1, <1>2, <1>3, SMT
<1>5. Session!PollRound = s
  BY DEF Session!PollRound, Session!WaitForIncomingData, Session!ProcessPolledData
<1> HIDE DEF s
<1> QED BY <1>1, <1>2, <1>3, <1>4, <1>5, SMT

LEMMA EndItems ==
  /\ Session!Within("stop", "stop") \in Item /\ Session!Within("main", "abort") \in Item
  /\ Session!Within("main", "close") \in Item /\ Session!Within("main", "goodbye") \in Item
  /\ Session!Do("ended?") \in Item /\ Session!Do("bye") \in Item /\ Session!Do("free") \in Item
  /\ Session!Do("clear") \in Item /\ Session!Do("cleared") \in Item
<1>1. /\ Session!Within("stop", "stop") \in Item /\ Session!Within("main", "abort") \in Item
      /\ Session!Within("main", "close") \in Item /\ Session!Within("main", "goodbye") \in Item
  BY Items DEF Session!Mutexes, EndDos, Bare
<1> QED BY <1>1, Items DEF EndDos

LEMMA DestroyIs ==
  Session!Destroy =
    <<Session!Within("stop", "stop"), Session!Within("main", "abort"), Session!Do("ended?"),
      Session!Within("main", "close"), Session!Do("free"), Session!Do("clear"), Session!Do("cleared")>>
BY EndItems, SevenJoined
   DEF Session!Destroy, Session!Stop, Session!DeleteTransmitter, Session!ClearSources

LEMMA BYEDestroyIs ==
  Session!BYEDestroy =
    <<Session!Within("stop", "stop"), Session!Within("main", "abort"), Session!Do("ended?"), Session!Do("bye"),
      Session!Within("main", "close"), Session!Do("free"), Session!Do("clear"), Session!Do("cleared")>>
BY EndItems, EightJoined
   DEF Session!BYEDestroy, Session!Stop, Session!DeleteTransmitter, Session!ClearSources

\* Whole programs of the ends of a session.
Complete(s) ==
  /\ EndShape(s)
  /\ Has(s, "ended?") => Has(s, "stop") /\ Has(s, "abort")
  /\ Has(s, "cleared") => Has(s, "ended?")
  /\ Has(s, "stop") => Has(s, "abort")

\* Destroy and BYEDestroy begin with all of Stop.
LEMMA DestroyComplete ==
  ASSUME NEW s \in {Session!Destroy, Session!BYEDestroy}
  PROVE  Complete(s)
<1>1. CASE s = Session!Destroy
  <2>1. /\ Len(s) = 7 /\ s \in Seq(Item)
        /\ s[1].do = "stop" /\ s[2].do = "abort" /\ s[3].do = "ended?" /\ s[4].do = "close"
        /\ s[5].do = "free" /\ s[6].do = "clear" /\ s[7].do = "cleared"
    <3>1. /\ Len(s) = 7 /\ s \in Seq(Item)
          /\ s[1] = Session!Within("stop", "stop") /\ s[2] = Session!Within("main", "abort")
          /\ s[3] = Session!Do("ended?") /\ s[4] = Session!Within("main", "close")
          /\ s[5] = Session!Do("free") /\ s[6] = Session!Do("clear") /\ s[7] = Session!Do("cleared")
      BY <1>1, DestroyIs, EndItems, SMT
    <3> QED BY <3>1 DEF Session!Within, Session!Do
  <2>2. \A i \in 1..Len(s) : i = 1 \/ i = 2 \/ i = 3 \/ i = 4 \/ i = 5 \/ i = 6 \/ i = 7
    BY <2>1, SMT
  <2>3. \A i \in 1..Len(s) : s[i].do \in EndDos \ {"BYEDestroy", "Destroy"} /\ s[i].do # "goodbye"
    BY <2>1, <2>2 DEF EndDos
  <2>4. \A i \in 1..Len(s) : Rank(s[i].do) = IF i <= 3 THEN 9 + i ELSE 11 + i
    <3>1. Rank(s[1].do) = 10 /\ Rank(s[2].do) = 11 /\ Rank(s[3].do) = 12 /\ Rank(s[4].do) = 15
          /\ Rank(s[5].do) = 16 /\ Rank(s[6].do) = 17 /\ Rank(s[7].do) = 18
      BY <2>1, Ranks
    <3> QED BY <2>2, <3>1, SMT
  <2>5. Sorted(s)
    BY <2>1, <2>4, SMT DEF Sorted
  <2>6. Has(s, "stop") /\ Has(s, "abort") /\ Has(s, "ended?")
    BY <2>1, SMT DEF Has
  <2> QED BY <2>1, <2>3, <2>5, <2>6 DEF Complete, EndShape, DoesOnly
<1>2. CASE s = Session!BYEDestroy
  <2>1. /\ Len(s) = 8 /\ s \in Seq(Item)
        /\ s[1].do = "stop" /\ s[2].do = "abort" /\ s[3].do = "ended?" /\ s[4].do = "bye" /\ s[5].do = "close"
        /\ s[6].do = "free" /\ s[7].do = "clear" /\ s[8].do = "cleared"
    <3>1. /\ Len(s) = 8 /\ s \in Seq(Item)
          /\ s[1] = Session!Within("stop", "stop") /\ s[2] = Session!Within("main", "abort")
          /\ s[3] = Session!Do("ended?") /\ s[4] = Session!Do("bye") /\ s[5] = Session!Within("main", "close")
          /\ s[6] = Session!Do("free") /\ s[7] = Session!Do("clear") /\ s[8] = Session!Do("cleared")
      BY <1>2, BYEDestroyIs, EndItems, SMT
    <3> QED BY <3>1 DEF Session!Within, Session!Do
  <2>2. \A i \in 1..Len(s) : i = 1 \/ i = 2 \/ i = 3 \/ i = 4 \/ i = 5 \/ i = 6 \/ i = 7 \/ i = 8
    BY <2>1, SMT
  <2>3. \A i \in 1..Len(s) : s[i].do \in EndDos \ {"BYEDestroy", "Destroy"} /\ s[i].do # "goodbye"
    BY <2>1, <2>2 DEF EndDos
  <2>4. \A i \in 1..Len(s) : Rank(s[i].do) = IF i <= 4 THEN 9 + i ELSE 10 + i
    <3>1. Rank(s[1].do) = 10 /\ Rank(s[2].do) = 11 /\ Rank(s[3].do) = 12 /\ Rank(s[4].do) = 13
          /\ Rank(s[5].do) = 15 /\ Rank(s[6].do) = 16 /\ Rank(s[7].do) = 17 /\ Rank(s[8].do) = 18
      BY <2>1, Ranks
    <3> QED BY <2>2, <3>1, SMT
  <2>5. Sorted(s)
    BY <2>1, <2>4, SMT DEF Sorted
  <2>6. Has(s, "stop") /\ Has(s, "abort") /\ Has(s, "ended?")
    BY <2>1, SMT DEF Has
  <2> QED BY <2>1, <2>3, <2>5, <2>6 DEF Complete, EndShape, DoesOnly
<1> QED BY <1>1, <1>2

\* A round of the poll thread has its shape.
LEMMA PollRoundShape == PollShape(Session!PollRound) /\ Session!PollRound # <<>>
<1> DEFINE s == Session!PollRound
<1>1. /\ Session!Lock("sched") \in Item /\ Session!Unlock("sched") \in Item
      /\ Session!Lock("sources") \in Item /\ Session!Unlock("sources") \in Item
  BY Items DEF Session!Mutexes
<1>2. /\ Session!Within("sources", "delay") \in Item /\ Session!Within("main", "waits") \in Item
      /\ Session!Within("main", "woken") \in Item /\ Session!Within("main", "Poll") \in Item
      /\ Session!Within("main", "GetNextPacket") \in Item /\ Session!Within("sched", "timeouts") \in Item
      /\ Session!Within("sched", "IsTime") \in Item /\ Session!Within("stop", "stop?") \in Item
  BY Items DEF Session!Mutexes, PollDos, Bare
<1>3. Session!Do("select") \in Item
  BY Items DEF PollDos
<1>4. /\ s \in Seq(Item) /\ Len(s) = 13 /\ s[1] = Session!Lock("sched")
      /\ s[2] = Session!Within("sources", "delay") /\ s[3] = Session!Unlock("sched")
      /\ s[4] = Session!Within("main", "waits") /\ s[5] = Session!Do("select")
      /\ s[6] = Session!Within("main", "woken") /\ s[7] = Session!Within("main", "Poll")
      /\ s[8] = Session!Lock("sources") /\ s[9] = Session!Within("main", "GetNextPacket")
      /\ s[10] = Session!Within("sched", "timeouts") /\ s[11] = Session!Within("sched", "IsTime")
      /\ s[12] = Session!Unlock("sources") /\ s[13] = Session!Within("stop", "stop?")
  BY <1>1, <1>2, <1>3, PollRoundIs, SMT
<1> HIDE DEF s
<1>5. \A i \in 1..Len(s) : \/ i = 1 \/ i = 2 \/ i = 3 \/ i = 4 \/ i = 5 \/ i = 6 \/ i = 7
                           \/ i = 8 \/ i = 9 \/ i = 10 \/ i = 11 \/ i = 12 \/ i = 13
  BY <1>4, SMT
<1>6. /\ s[1].do = "lock" /\ s[2].do = "delay" /\ s[3].do = "unlock" /\ s[4].do = "waits"
      /\ s[5].do = "select" /\ s[6].do = "woken" /\ s[7].do = "Poll" /\ s[8].do = "lock"
      /\ s[9].do = "GetNextPacket" /\ s[10].do = "timeouts" /\ s[11].do = "IsTime"
      /\ s[12].do = "unlock" /\ s[13].do = "stop?"
      /\ s[1].mutex = "sched" /\ s[3].mutex = "sched" /\ s[8].mutex = "sources" /\ s[12].mutex = "sources"
  BY <1>4 DEF Session!Lock, Session!Unlock, Session!Within, Session!Do
<1>7. DoesOnly(s, PollDos)
  BY <1>4, <1>5, <1>6 DEF DoesOnly, PollDos
<1>8. GivesBack(s)
  <2>1. \A i \in 1..Len(s) : Takes(s[i]) => i = 8
    BY <1>5, <1>6 DEF Takes
  <2>2. Gives(s[12])
    BY <1>6 DEF Gives
  <2>3. 12 \in 8 + 1..Len(s)
    BY <1>4, SMT
  <2> QED BY <2>1, <2>2, <2>3 DEF GivesBack
<1>9. \A i \in 1..Len(s) : s[i].do = "stop?" <=> i = Len(s)
  BY <1>4, <1>5, <1>6
<1>10. \A i \in 1..Len(s) : s[i].do = "waits" => \E j \in i + 1..Len(s) : s[j].do = "woken"
  <2>1. \A i \in 1..Len(s) : s[i].do = "waits" => i = 4
    BY <1>5, <1>6
  <2>2. 6 \in 4 + 1..Len(s)
    BY <1>4, SMT
  <2> QED BY <1>6, <2>1, <2>2
<1>11. \A i, j \in 1..Len(s) : i < j =>
         /\ s[i].do = "waits" => s[j].do # "waits"
         /\ s[i].do = "woken" => s[j].do # "select"
  <2>1. \A i \in 1..Len(s) : /\ s[i].do = "waits" => i = 4
                             /\ s[i].do = "woken" => i = 6
                             /\ s[i].do = "select" => i = 5
    BY <1>5, <1>6
  <2> QED BY <2>1, SMT
<1>12. s # <<>>
  <2>1. 2 \in 1..Len(s)
    BY <1>4, SMT
  <2>2. Has(s, "delay")
    BY <1>6, <2>1 DEF Has
  <2> QED BY <2>2, EmptyHas
<1> QED BY <1>7, <1>8, <1>9, <1>10, <1>11, <1>12 DEF PollShape, s

\* What a packet, a timeout or a report makes the poll thread do is plain.
LEMMA PlainJoins ==
  ASSUME NEW a, NEW b, Plain(a), Plain(b)
  PROVE  Plain(a \o b)
<1>1. /\ a \o b \in Seq(Item) /\ Len(a \o b) = Len(a) + Len(b) /\ Len(a) \in Nat /\ Len(b) \in Nat
      /\ \A i \in 1..Len(a \o b) : (a \o b)[i] = IF i <= Len(a) THEN a[i] ELSE b[i - Len(a)]
  BY ConcatProperties, LenProperties DEF Plain
<1>2. ASSUME NEW i \in 1..Len(a \o b)
      PROVE  \/ i \in 1..Len(a) /\ (a \o b)[i] = a[i]
             \/ i - Len(a) \in 1..Len(b) /\ (a \o b)[i] = b[i - Len(a)]
  BY <1>1, SMT
<1> QED BY <1>1, <1>2 DEF Plain

\* Items of which only the others' mutexes or none are wanted.
PlainItem(x) ==
  x \in Item /\ x.do \in PollDos \ {"stop?", "waits", "select", "woken"} /\ ~Takes(x) /\ ~Gives(x)

LEMMA PlainItems ==
  /\ \A m \in {"sched", "builder"} : PlainItem(Session!Lock(m)) /\ PlainItem(Session!Unlock(m))
  /\ \A m \in Session!Mutexes, d \in PollDos \ {"lock", "unlock", "stop?", "waits", "select", "woken"} :
       PlainItem(Session!Within(m, d)) /\ PlainItem(Session!Do(d))
<1>1. \A m \in {"sched", "builder"} : PlainItem(Session!Lock(m)) /\ PlainItem(Session!Unlock(m))
  <2>1. \A m \in {"sched", "builder"} : Session!Lock(m) \in Item /\ Session!Unlock(m) \in Item
    BY Items DEF Session!Mutexes
  <2> QED BY <2>1 DEF PlainItem, Session!Lock, Session!Unlock, Takes, Gives, PollDos
<1>2. ASSUME NEW m \in Session!Mutexes,
             NEW d \in PollDos \ {"lock", "unlock", "stop?", "waits", "select", "woken"}
      PROVE  PlainItem(Session!Within(m, d)) /\ PlainItem(Session!Do(d))
  <2>1. d \notin Bare
    BY DEF PollDos, Bare
  <2>2. Session!Within(m, d) \in Item /\ Session!Do(d) \in Item
    BY <2>1, Items
  <2>3. d \notin {"BeginDataAccess", "EndDataAccess"}
    BY DEF PollDos
  <2> QED BY <2>2, <2>3 DEF PlainItem, Session!Within, Session!Do, Takes, Gives
<1> QED BY <1>1, <1>2

LEMMA PlainTuples ==
  /\ Plain(<<>>)
  /\ \A a : PlainItem(a) => Plain(<<a>>)
  /\ \A a, b : PlainItem(a) /\ PlainItem(b) => Plain(<<a, b>>)
  /\ \A a, b, c : PlainItem(a) /\ PlainItem(b) /\ PlainItem(c) => Plain(<<a, b, c>>)
  /\ \A a, b, c, d : PlainItem(a) /\ PlainItem(b) /\ PlainItem(c) /\ PlainItem(d) => Plain(<<a, b, c, d>>)
<1>1. Plain(<<>>)
  BY SMT DEF Plain
<1>2. ASSUME NEW a, PlainItem(a) PROVE Plain(<<a>>)
  <2>1. <<a>> \in Seq(Item) /\ \A i \in 1..Len(<<a>>) : <<a>>[i] = a
    BY <1>2, SMT DEF PlainItem
  <2> QED BY <1>2, <2>1 DEF Plain, PlainItem
<1>3. ASSUME NEW a, NEW b, PlainItem(a), PlainItem(b) PROVE Plain(<<a, b>>)
  <2>1. <<a, b>> \in Seq(Item) /\ \A i \in 1..Len(<<a, b>>) : <<a, b>>[i] \in {a, b}
    BY <1>3, SMT DEF PlainItem
  <2> QED BY <1>3, <2>1 DEF Plain, PlainItem
<1>4. ASSUME NEW a, NEW b, NEW c, PlainItem(a), PlainItem(b), PlainItem(c) PROVE Plain(<<a, b, c>>)
  <2>1. <<a, b, c>> \in Seq(Item) /\ \A i \in 1..Len(<<a, b, c>>) : <<a, b, c>>[i] \in {a, b, c}
    BY <1>4, SMT DEF PlainItem
  <2> QED BY <1>4, <2>1 DEF Plain, PlainItem
<1>5. ASSUME NEW a, NEW b, NEW c, NEW d, PlainItem(a), PlainItem(b), PlainItem(c), PlainItem(d)
      PROVE  Plain(<<a, b, c, d>>)
  <2>1. <<a, b, c, d>> \in Seq(Item) /\ \A i \in 1..Len(<<a, b, c, d>>) : <<a, b, c, d>>[i] \in {a, b, c, d}
    BY <1>5, SMT DEF PlainItem
  <2> QED BY <1>5, <2>1 DEF Plain, PlainItem
<1> QED BY <1>1, <1>2, <1>3, <1>4, <1>5
-----------------------------------------------------------------------------
(* Steps that give a thread a new program.                                 *)

\* The programs with nothing or one call in them.
LEMMA EmptyComplete == EndShape(<<>>) /\ Complete(<<>>) /\ EarlyShape(<<>>)
<1>1. <<>> \in Seq(Item) /\ Len(<<>>) = 0 /\ \A i : i \notin 1..Len(<<>>)
  BY SMT
<1> QED BY <1>1, EmptyHas DEF EndShape, Complete, DoesOnly, Sorted, EarlyShape

LEMMA CallComplete ==
  ASSUME NEW d \in {"BYEDestroy", "Destroy"}
  PROVE  <<Session!Do(d)>> \in Seq(Item) /\ Complete(<<Session!Do(d)>>)
<1> DEFINE s == <<Session!Do(d)>>
<1>1. Session!Do(d) \in Item /\ Session!Do(d).do = d
  <2>1. d \in EndDos
    BY DEF EndDos
  <2> QED BY <2>1, Items DEF Session!Do
<1>2. s \in Seq(Item) /\ Len(s) = 1 /\ s[1] = Session!Do(d)
  BY <1>1, SMT
<1> HIDE DEF s
<1>3. \A i \in 1..Len(s) : i = 1 /\ s[i].do = d
  BY <1>1, <1>2, SMT
<1>4. DoesOnly(s, EndDos)
  BY <1>2, <1>3 DEF DoesOnly, EndDos
<1>5. Sorted(s)
  <2>1. \A i, j \in 1..Len(s) : ~(i < j)
    BY <1>3, SMT
  <2> QED BY <2>1 DEF Sorted
<1>6. EndShape(s)
  BY <1>2, <1>3, <1>4, <1>5, SMT DEF EndShape
<1>7. ~Has(s, "ended?") /\ ~Has(s, "cleared") /\ ~Has(s, "stop")
  BY <1>3 DEF Has
<1> QED BY <1>2, <1>6, <1>7 DEF Complete, s

\* The last thing that a thread does.
LEMMA Single ==
  ASSUME NEW s \in Seq(Item), NEW more \in Seq(Item), Len(s) = 1
  PROVE  more \o Tail(s) = more /\ Tail(s) = <<>>
<1>1. s # <<>>
  BY EmptySeq
<1>2. Tail(s) \in Seq(Item) /\ Len(Tail(s)) = 0
  BY <1>1, HeadTailProperties, SMT
<1>3. Tail(s) = <<>>
  BY <1>2, EmptySeq
<1> QED BY <1>3, ConcatEmptySeq

\* The network thread: it has a call of its own only when nothing else is left to do.
LEMMA NetSets ==
  ASSUME SessionIInv, todo["network"] # <<>>,
         todo["network"][1].do \in {"begin", "round", "BYEDestroy", "Destroy"},
         NEW w \in Seq(Item), Complete(w) \/ (StreamShape(w) /\ created),
         todo' = [todo EXCEPT !["network"] = w \o Tail(@)],
         UNCHANGED <<holds, created, walking, running, stop, rtptrans, missed, wrong>>,
         UNCHANGED <<waitingfordata, abortdesc, aborted>>
  PROVE  SessionIInv'
<1> DEFINE s == todo["network"]
<1>1. s \in Seq(Item) /\ Len(s) \in Nat \ {0} /\ 1 \in 1..Len(s)
  <2>1. s \in Seq(Item)
    BY ThreadNames DEF SessionIInv, SessionTypes
  <2>2. Len(s) \in Nat /\ Len(s) # 0
    BY <2>1, EmptySeq, LenProperties
  <2> QED BY <2>1, <2>2, SMT
<1>2. Len(s) = 1
  <2>1. CASE StreamShape(s)
    <3>1. s[1].do \in {"begin", "round"}
      BY <1>1, <2>1 DEF StreamShape, DoesOnly, StreamDos
    <3> QED BY <1>1, <2>1, <3>1 DEF StreamShape
  <2>2. CASE EndShape(s)
    <3>1. s[1].do \in {"BYEDestroy", "Destroy"}
      BY <1>1, <2>2 DEF EndShape, DoesOnly, EndDos
    <3> QED BY <1>1, <2>2, <3>1 DEF EndShape
  <2> QED BY <2>1, <2>2 DEF SessionIInv, Shapes
<1>3. /\ todo' \in [Session!Threads -> Seq(Item)]
      /\ todo'["network"] = w
      /\ todo'["poll"] = todo["poll"] /\ todo'["control"] = todo["control"]
      /\ todo'["sntp"] = todo["sntp"] /\ todo'["stats"] = todo["stats"]
  <2>1. w \o Tail(s) = w
    BY <1>1, <1>2, Single
  <2> QED BY <2>1, Goes, ThreadNames
<1>4. \A i \in 1..Len(s) : i = 1
  BY <1>2, SMT
<1>5. ~Has(s, "cleared") /\ \A i \in 1..Len(s) : ~Gives(s[i])
  BY <1>4 DEF Has, Gives
<1>6. rtptrans = "created" /\ "network" \notin walking /\ holds["sources"] # "network"
  <2>1. rtptrans = "created"
    BY <1>1 DEF SessionIInv, Deleted
  <2>2. "network" \notin walking
    BY <1>5 DEF SessionIInv, Clearing
  <2>3. holds["sources"] # "network"
    BY <1>5 DEF SessionIInv, SourcesHeld
  <2> QED BY <2>1, <2>2, <2>3
<1> HIDE DEF s
<1>7. ~Has(todo["control"], "threads") /\ Has(todo["control"], "join")
  BY DEF SessionIInv, Begun
<1>8. SessionTypes' /\ PollWaiting'
  BY <1>3 DEF SessionIInv, SessionTypes, PollWaiting
<1>9. StreamShape(w) \/ EndShape(w)
  BY DEF Complete
<1>10. Shapes'
  BY <1>3, <1>9 DEF SessionIInv, Shapes
<1>11. Begun'
  <2>1. Has(w, "begin") \/ Has(w, "round") => created
    <3>1. CASE EndShape(w)
      BY <3>1 DEF EndShape, DoesOnly, EndDos, Has
    <3> QED BY <3>1 DEF Complete
  <2> QED BY <1>3, <1>7, <2>1 DEF SessionIInv, Begun
<1>12. SourcesHeld'
  BY <1>3, <1>6 DEF SessionIInv, SourcesHeld
<1>13. Ending("network")'
  <2>1. CASE Complete(w)
    BY <1>3, <2>1 DEF Complete, Ending
  <2>2. CASE StreamShape(w)
    <3>1. ~Has(w, "ended?") /\ ~Has(w, "cleared") /\ ~Has(w, "stop")
      BY <2>2 DEF StreamShape, DoesOnly, StreamDos, Has
    <3> QED BY <1>3, <3>1 DEF Ending
  <2> QED BY <2>1, <2>2
<1>14. Ending("control")'
  BY <1>3 DEF SessionIInv, Ending, PollWoken
<1>15. Deleted' /\ Clearing' /\ Session!EndsCleanly'
  BY <1>3, <1>6 DEF SessionIInv, Deleted, Clearing, Session!EndsCleanly
<1> QED BY <1>8, <1>10, <1>11, <1>12, <1>13, <1>14, <1>15 DEF SessionIInv

\* Who deletes the session, with nobody left but the poll thread.
LEMMA ControlSets ==
  ASSUME SessionIInv, todo["control"] # <<>>, todo["control"][1].do \in {"delete", "BYEDestroy", "Destroy"},
         NEW w \in Seq(Item), Complete(w), created \/ \A i \in 1..Len(w) : w[i].do \in Bare,
         todo' = [todo EXCEPT !["control"] = w \o Tail(@)],
         UNCHANGED <<holds, created, walking, running, stop, rtptrans, missed, wrong>>,
         UNCHANGED <<waitingfordata, abortdesc, aborted>>
  PROVE  SessionIInv'
<1> DEFINE s == todo["control"]
<1>1. s \in Seq(Item) /\ Len(s) \in Nat \ {0} /\ 1 \in 1..Len(s)
  <2>1. s \in Seq(Item)
    BY ThreadNames DEF SessionIInv, SessionTypes
  <2>2. Len(s) \in Nat /\ Len(s) # 0
    BY <2>1, EmptySeq, LenProperties
  <2> QED BY <2>1, <2>2, SMT
<1>2. Len(s) = 1
  <2>1. CASE EarlyShape(s)
    <3>1. s[1].do = "delete"
      BY <1>1, <2>1 DEF EarlyShape, DoesOnly, EarlyDos
    <3>2. \A j \in 1..Len(s) : ~(1 < j)
      <4> SUFFICES ASSUME NEW j \in 1..Len(s), 1 < j PROVE FALSE
        OBVIOUS
      <4>1. Rank("delete") < Rank(s[j].do)
        BY <1>1, <2>1, <3>1 DEF EarlyShape, Sorted
      <4>2. s[j].do \in EarlyDos
        BY <2>1 DEF EarlyShape, DoesOnly
      <4> QED BY <4>1, <4>2, EarlyRanks
    <3>3. Len(s) \in 1..Len(s)
      BY <1>1, SMT
    <3>4. ~(1 < Len(s))
      BY <3>2, <3>3
    <3> QED BY <1>1, <3>4, OneOrMore
  <2>2. CASE EndShape(s)
    <3>1. s[1].do \in {"BYEDestroy", "Destroy"}
      BY <1>1, <2>2 DEF EndShape, DoesOnly, EndDos
    <3> QED BY <1>1, <2>2, <3>1 DEF EndShape
  <2> QED BY <2>1, <2>2 DEF SessionIInv, Shapes
<1>3. /\ todo' \in [Session!Threads -> Seq(Item)]
      /\ todo'["control"] = w
      /\ todo'["poll"] = todo["poll"] /\ todo'["network"] = todo["network"]
      /\ todo'["sntp"] = todo["sntp"] /\ todo'["stats"] = todo["stats"]
  <2>1. w \o Tail(s) = w
    BY <1>1, <1>2, Single
  <2> QED BY <2>1, Goes, ThreadNames
<1>4. \A i \in 1..Len(s) : i = 1
  BY <1>2, SMT
<1>5. ~Has(s, "cleared") /\ ~Has(s, "join")
  BY <1>4 DEF Has
<1>6. todo["network"] = <<>> /\ (created => rtptrans = "created") /\ "control" \notin walking
  <2>1. todo["network"] = <<>>
    BY <1>5 DEF SessionIInv, Begun
  <2>2. created => rtptrans = "created"
    BY <1>5, <2>1, EmptyHas DEF SessionIInv, Deleted
  <2>3. "control" \notin walking
    BY <1>5 DEF SessionIInv, Clearing
  <2> QED BY <2>1, <2>2, <2>3
<1> HIDE DEF s
<1>7. \A d : ~Has(todo["network"], d)
  BY <1>6, EmptyHas
<1>8. SessionTypes' /\ PollWaiting'
  BY <1>3 DEF SessionIInv, SessionTypes, PollWaiting
<1>9. EndShape(w) /\ ~Has(w, "threads") /\ ~Has(w, "start")
  BY DEF Complete, EndShape, DoesOnly, EndDos, Has
<1>10. Shapes'
  BY <1>3, <1>9 DEF SessionIInv, Shapes
<1>11. Begun'
  BY <1>3, <1>6, <1>7, <1>9 DEF Begun
<1>12. SourcesHeld'
  BY <1>3 DEF SessionIInv, SourcesHeld
<1>13. Ending("control")'
  BY <1>3 DEF Complete, Ending
<1>14. Ending("network")'
  BY <1>3, <1>7 DEF Ending
<1>15. Deleted'
  <2>1. CASE created
    BY <1>6, <2>1 DEF Deleted
  <2>2. CASE ~created
    BY <1>3, <2>2 DEF SessionIInv, Deleted
  <2> QED BY <2>1, <2>2
<1>16. Clearing' /\ Session!EndsCleanly'
  BY <1>3, <1>6 DEF SessionIInv, Clearing, Session!EndsCleanly
<1> QED BY <1>8, <1>10, <1>11, <1>12, <1>13, <1>14, <1>15, <1>16 DEF SessionIInv

\* The steps of who creates and stops the session that give nobody else work.
LEMMA EarlyGoes ==
  ASSUME SessionIInv, EarlyShape(todo["control"]), todo["control"] # <<>>,
         NEW d, d = todo["control"][1].do, d \notin {"start", "threads"},
         d = "join" => todo["network"] = <<>>,
         NEW more \in Seq(Item), more = <<>> \/ (d = "AddDestination" /\ Len(more) = 1),
         \A i \in 1..Len(more) : more[i].do = "pass",
         todo' = [todo EXCEPT !["control"] = more \o Tail(@)],
         UNCHANGED <<holds, walking, running, stop, rtptrans, missed, wrong>>,
         UNCHANGED <<waitingfordata, abortdesc, aborted>>,
         created' <=> created \/ d = "created"
  PROVE  SessionIInv'
<1> DEFINE s == todo["control"]
           q == more \o Tail(s)
<1>1. /\ todo' \in [Session!Threads -> Seq(Item)]
      /\ todo'["control"] = q
      /\ todo'["poll"] = todo["poll"] /\ todo'["network"] = todo["network"]
      /\ todo'["sntp"] = todo["sntp"] /\ todo'["stats"] = todo["stats"]
  BY Goes, ThreadNames
<1>2. /\ EarlyShape(q)
      /\ \A e : Has(q, e) => Has(s, e) \/ (e = "pass" /\ s[1].do = "AddDestination")
      /\ \A e : Has(s, e) /\ e # s[1].do => Has(q, e)
  BY EarlyPushes
<1> HIDE DEF s, q
<1>3. \A e : Has(q, e) /\ e # "pass" => Has(s, e)
  BY <1>2
<1>4. \A e : Has(s, e) /\ e # d => Has(q, e)
  BY <1>2 DEF s
<1>5. \A e \in {"ended?", "stop", "abort", "cleared"} : ~Has(s, e) /\ ~Has(q, e)
  <2>1. \A e \in {"ended?", "stop", "abort", "cleared"} : e \notin EarlyDos
    BY DEF EarlyDos
  <2> QED BY <1>2, <2>1 DEF EarlyShape, DoesOnly, Has, s
<1>6. SessionTypes' /\ PollWaiting'
  BY <1>1 DEF SessionIInv, SessionTypes, PollWaiting
<1>7. Shapes'
  BY <1>1, <1>2 DEF SessionIInv, Shapes
<1>8. Begun'
  <2>1. /\ Has(s, "threads") => todo["network"] = <<>> /\ rtptrans = "created"
        /\ Has(s, "threads") /\ ~Has(s, "created") => created
        /\ Has(s, "start") => todo["poll"] = <<>>
        /\ todo["network"] # <<>> => Has(s, "join")
        /\ Has(todo["network"], "begin") \/ Has(todo["network"], "round") => created
    BY DEF SessionIInv, Begun, s
  <2>2. Has(q, "threads") => Has(s, "threads") /\ todo["network"] = <<>> /\ rtptrans = "created"
    BY <1>3, <2>1
  <2>3. Has(q, "threads") /\ ~Has(q, "created") => created'
    BY <1>3, <1>4, <2>1, <2>2
  <2>4. Has(q, "start") => todo["poll"] = <<>>
    BY <1>3, <2>1
  <2>5. todo["network"] # <<>> => Has(q, "join")
    BY <1>4, <2>1
  <2>6. Has(todo["network"], "begin") \/ Has(todo["network"], "round") => created'
    BY <2>1
  <2> QED BY <1>1, <2>2, <2>3, <2>4, <2>5, <2>6 DEF Begun
<1>9. SourcesHeld'
  BY <1>1 DEF SessionIInv, SourcesHeld
<1>10. Ending("network")' /\ Ending("control")'
  BY <1>1, <1>5 DEF SessionIInv, Ending, PollWoken
<1>11. Clearing' /\ Session!EndsCleanly'
  <2>1. "control" \notin walking
    BY <1>5 DEF SessionIInv, Clearing, s
  <2> QED BY <1>1, <2>1 DEF SessionIInv, Clearing, Session!EndsCleanly
<1>12. Deleted'
  <2> SUFFICES ASSUME rtptrans # "created" PROVE Deleted'
    BY DEF Deleted
  <2>1. \A i \in 1..Len(s) : s[i].do \in Bare
    BY DEF SessionIInv, Deleted, s
  <2>2. d \notin {"created", "AddDestination"}
    BY <2>1 DEF s, Bare
  <2>3. created' => created
    BY <2>2
  <2>4. \A i \in 1..Len(q) : q[i].do \in Bare
    <3>1. \A i \in 1..Len(q) : Has(q, q[i].do)
      BY DEF Has
    <3>2. \A i \in 1..Len(q) : Has(s, q[i].do)
      BY <1>2, <2>2, <3>1 DEF s
    <3> QED BY <2>1, <3>2 DEF Has
  <2> QED BY <1>1, <1>5, <2>3, <2>4 DEF SessionIInv, Deleted, s
<1> QED BY <1>6, <1>7, <1>8, <1>9, <1>10, <1>11, <1>12 DEF SessionIInv

\* A step with nothing more to do.
LEMMA NothingPushed ==
  ASSUME NEW s \in Seq(Item), s # <<>>
  PROVE  <<>> \in Seq(Item) /\ <<>> \o Tail(s) = Tail(s) /\ Head(s) = s[1] /\ Len(s) \in Nat \ {0} /\ 1 \in 1..Len(s)
<1>1. Tail(s) \in Seq(Item) /\ Len(s) \in Nat
  BY HeadTailProperties, LenProperties
<1>2. Len(s) # 0
  BY EmptySeq
<1> QED BY <1>1, <1>2, ConcatEmptySeq, SMT

\* A round of the poll thread is over.
LEMMA PollRepeatsGoes ==
  ASSUME SessionIInv, todo["poll"] # <<>>, todo["poll"][1].do = "stop?",
         todo' = [todo EXCEPT !["poll"] = (IF stop THEN <<>> ELSE Session!PollRound) \o Tail(@)],
         running' = ~stop,
         UNCHANGED <<holds, created, walking, stop, rtptrans, missed, wrong>>,
         UNCHANGED <<waitingfordata, abortdesc, aborted>>
  PROVE  SessionIInv'
<1> DEFINE s == todo["poll"]
           w == IF stop THEN <<>> ELSE Session!PollRound
<1>1. s \in Seq(Item) /\ PollShape(s) /\ 1 \in 1..Len(s)
  BY ThreadNames, NothingPushed DEF SessionIInv, SessionTypes, Shapes
<1>2. Len(s) = 1 /\ \A i \in 1..Len(s) : i = 1
  <2>1. Len(s) = 1
    BY <1>1 DEF PollShape
  <2> QED BY <2>1, SMT
<1>3. w \in Seq(Item) /\ PollShape(w)
  <2>1. PollShape(<<>>)
    <3>1. <<>> \in Seq(Item) /\ \A i : i \notin 1..Len(<<>>)
      BY SMT
    <3> QED BY <3>1 DEF PollShape, DoesOnly, GivesBack
  <2> QED BY <2>1, PollRoundShape DEF PollShape, DoesOnly
<1> HIDE DEF w
<1>4. /\ todo' \in [Session!Threads -> Seq(Item)]
      /\ todo'["poll"] = w
      /\ todo'["network"] = todo["network"] /\ todo'["control"] = todo["control"]
      /\ todo'["sntp"] = todo["sntp"] /\ todo'["stats"] = todo["stats"]
  <2>1. w \o Tail(s) = w
    BY <1>1, <1>2, <1>3, Single
  <2>2. todo' = [todo EXCEPT !["poll"] = w \o Tail(@)]
    BY DEF w
  <2> QED BY <1>3, <2>1, <2>2, Goes, ThreadNames
<1>5. ~Has(s, "woken") /\ \A i \in 1..Len(s) : ~Gives(s[i])
  BY <1>2 DEF Has, Gives
<1>6. ~waitingfordata /\ holds["sources"] # "poll" /\ rtptrans = "created" /\ ~Has(todo["control"], "start")
  BY <1>5 DEF SessionIInv, PollWaiting, SourcesHeld, Deleted, Begun
<1> HIDE DEF s
<1>7. SessionTypes'
  BY <1>4 DEF SessionIInv, SessionTypes
<1>8. Shapes'
  BY <1>3, <1>4 DEF SessionIInv, Shapes
<1>9. PollWaiting'
  BY <1>4, <1>6 DEF SessionIInv, PollWaiting, w
<1>10. Begun'
  BY <1>4, <1>6 DEF SessionIInv, Begun
<1>11. SourcesHeld'
  BY <1>4, <1>6 DEF SessionIInv, SourcesHeld
<1>12. stop => PollWoken'
  BY <1>4, EmptyHas DEF PollWoken, w
<1>13. ASSUME NEW t \in {"network", "control"}, Ending(t) PROVE Ending(t)'
  <2>1. todo'[t] = todo[t]
    BY <1>4
  <2>2. Has(todo[t], "ended?") /\ ~Has(todo[t], "abort") => stop
    BY <1>13 DEF Ending
  <2>3. ~(Has(todo[t], "cleared") /\ ~Has(todo[t], "ended?"))
    BY <1>13 DEF Ending
  <2> QED BY <1>12, <1>13, <2>1, <2>2, <2>3 DEF Ending
<1>14. Ending("network")' /\ Ending("control")'
  BY <1>13 DEF SessionIInv
<1>15. Deleted' /\ Clearing' /\ Session!EndsCleanly'
  BY <1>4, <1>6 DEF SessionIInv, Deleted, Clearing, Session!EndsCleanly
<1> QED BY <1>7, <1>8, <1>9, <1>10, <1>11, <1>14, <1>15 DEF SessionIInv

\* The ranks of start and threads.
LEMMA FirstRanks ==
  /\ Rank("start") <= Rank("start") /\ Rank("threads") <= Rank("threads")
  /\ Rank("start") <= Rank("threads") /\ Rank("created") <= Rank("threads")
<1>1. Rank("start") = 1 /\ Rank("created") = 2 /\ Rank("threads") = 5
  BY Ranks
<1> QED BY <1>1

\* Before it has started the threads, who creates the session is alone with the poll thread.
LEMMA BeforeThreads ==
  ASSUME SessionIInv, todo["control"] # <<>>, todo["control"][1].do \in {"start", "threads"}
  PROVE  LET s == todo["control"] IN
           /\ s \in Seq(Item) /\ EarlyShape(s) /\ Has(s, "threads") /\ Has(s, "join")
           /\ todo["network"] = <<>> /\ rtptrans = "created"
           /\ s[1].do = "start" => todo["poll"] = <<>>
           /\ s[1].do = "threads" => created
           /\ EarlyShape(Tail(s))
           /\ \A d : Has(Tail(s), d) => Has(s, d)
           /\ \A d : Has(s, d) /\ d # s[1].do => Has(Tail(s), d)
           /\ s[1].do = "start" => ~Has(Tail(s), "start")
           /\ s[1].do = "threads" => ~Has(Tail(s), "threads") /\ ~Has(Tail(s), "start")
           /\ \A d \in {"ended?", "stop", "abort", "cleared"} : ~Has(s, d) /\ ~Has(Tail(s), d)
           /\ walking \subseteq {"stats"}
<1> DEFINE s == todo["control"]
<1>1. /\ s \in Seq(Item) /\ 1 \in 1..Len(s) /\ <<>> \in Seq(Item) /\ <<>> \o Tail(s) = Tail(s)
      /\ \A i : i \notin 1..Len(<<>>)
  <2>1. s \in Seq(Item)
    BY ThreadNames DEF SessionIInv, SessionTypes
  <2>2. \A i : i \notin 1..Len(<<>>)
    BY SMT
  <2> QED BY <2>1, <2>2, NothingPushed
<1>2. EarlyShape(s)
  <2>1. ~EndShape(s)
    BY <1>1 DEF EndShape, DoesOnly, EndDos
  <2> QED BY <2>1 DEF SessionIInv, Shapes
<1>3. Has(s, s[1].do)
  BY <1>1 DEF Has
<1>4. Has(s, "threads") /\ Has(s, "join")
  <2>1. Has(s, "threads")
    BY <1>1, <1>2, <1>3 DEF EarlyShape
  <2>2. \A i \in 1..Len(s) : s[i].do = "threads" => Has(s, "join")
    BY <1>2 DEF EarlyShape
  <2> QED BY <2>1, <2>2 DEF Has
<1>5. /\ EarlyShape(Tail(s))
      /\ \A d : Has(Tail(s), d) => Has(s, d) \/ (d = "pass" /\ s[1].do = "AddDestination")
      /\ \A d : Has(s, d) /\ d # s[1].do => Has(Tail(s), d)
      /\ \A d : Rank(d) <= Rank(s[1].do) /\ d # "pass" => ~Has(Tail(s), d)
  <2>1. <<>> \o Tail(s) = Tail(s) /\ <<>> \in Seq(Item) /\ \A i \in 1..Len(<<>>) : <<>>[i].do = "pass"
    BY <1>1
  <2> DEFINE more == <<>>
  <2>2. more \in Seq(Item) /\ more = <<>> /\ \A i \in 1..Len(more) : more[i].do = "pass"
    BY <2>1
  <2>3. more \o Tail(s) = Tail(s)
    BY <2>1
  <2> HIDE DEF more, s
  <2>4. s # <<>>
    BY DEF s
  <2>5. /\ EarlyShape(more \o Tail(s))
        /\ \A d : Has(more \o Tail(s), d) => Has(s, d) \/ (d = "pass" /\ s[1].do = "AddDestination")
        /\ \A d : Has(s, d) /\ d # s[1].do => Has(more \o Tail(s), d)
        /\ \A d : Rank(d) <= Rank(s[1].do) /\ d # "pass" => ~Has(more \o Tail(s), d)
    BY <1>2, <2>2, <2>4, EarlyPushes
  <2> QED BY <2>3, <2>5
<1>6. /\ s[1].do = "start" => ~Has(Tail(s), "start")
      /\ s[1].do = "threads" => /\ ~Has(Tail(s), "threads") /\ ~Has(Tail(s), "start")
                                /\ ~Has(Tail(s), "created")
  BY <1>5, FirstRanks
<1>7. \A d \in {"ended?", "stop", "abort", "cleared"} : ~Has(s, d)
  <2>1. \A d \in {"ended?", "stop", "abort", "cleared"} : d \notin EarlyDos
    BY DEF EarlyDos
  <2> QED BY <1>2, <2>1 DEF EarlyShape, DoesOnly, Has
<1>8. \A d : Has(Tail(s), d) => Has(s, d)
  BY <1>5
<1> HIDE DEF s
<1>9. todo["network"] = <<>> /\ rtptrans = "created"
  BY <1>4 DEF SessionIInv, Begun, s
<1>10. s[1].do = "start" => todo["poll"] = <<>>
  BY <1>3 DEF SessionIInv, Begun, s
<1>11. s[1].do = "threads" => created
  <2>1. s[1].do = "threads" => ~Has(s, "created")
    BY <1>5, <1>6
  <2> QED BY <1>4, <2>1 DEF SessionIInv, Begun, s
<1>12. walking \subseteq {"stats"}
  BY <1>7, <1>9, EmptyHas DEF SessionIInv, Clearing, s
<1> QED BY <1>1, <1>2, <1>4, <1>5, <1>6, <1>7, <1>8, <1>9, <1>10, <1>11, <1>12 DEF s

\* The poll thread is started.
LEMMA StartGoes ==
  ASSUME SessionIInv, todo["control"] # <<>>, todo["control"][1].do = "start",
         todo' = [todo EXCEPT !["control"] = Tail(@), !["poll"] = Session!PollRound],
         running' = TRUE,
         UNCHANGED <<holds, created, walking, stop, rtptrans, missed, wrong>>,
         UNCHANGED <<waitingfordata, abortdesc, aborted>>
  PROVE  SessionIInv'
<1> DEFINE s == todo["control"]
           q == Tail(s)
<1>1. /\ s \in Seq(Item) /\ s # <<>> /\ Has(s, "threads") /\ Has(s, "join")
      /\ todo["network"] = <<>> /\ rtptrans = "created" /\ todo["poll"] = <<>>
      /\ EarlyShape(q)
      /\ \A d : Has(q, d) => Has(s, d)
      /\ \A d : Has(s, d) /\ d # "start" => Has(q, d)
      /\ ~Has(q, "start")
      /\ \A d \in {"ended?", "stop", "abort", "cleared"} : ~Has(q, d)
      /\ walking \subseteq {"stats"}
  BY BeforeThreads
<1>2. q \in Seq(Item)
  BY <1>1 DEF EarlyShape, DoesOnly
<1> HIDE DEF q
<1>3. /\ todo' \in [Session!Threads -> Seq(Item)]
      /\ todo'["control"] = q /\ todo'["poll"] = Session!PollRound
      /\ todo'["network"] = <<>>
      /\ todo'["sntp"] = todo["sntp"] /\ todo'["stats"] = todo["stats"]
  <2>1. todo \in [Session!Threads -> Seq(Item)]
    BY DEF SessionIInv, SessionTypes
  <2>2. Session!PollRound \in Seq(Item)
    BY PollRoundShape DEF PollShape, DoesOnly
  <2>3. todo' = [todo EXCEPT !["control"] = q, !["poll"] = Session!PollRound]
    BY DEF q
  <2> QED BY <1>1, <1>2, <2>1, <2>2, <2>3 DEF Session!Threads
<1>4. ~waitingfordata /\ holds["sources"] # "poll"
  <2>1. \A i : i \notin 1..Len(<<>>)
    BY SMT
  <2>2. ~waitingfordata
    BY <1>1, EmptyHas DEF SessionIInv, PollWaiting
  <2>3. holds["sources"] # "poll"
    BY <1>1, <2>1 DEF SessionIInv, SourcesHeld
  <2> QED BY <2>2, <2>3
<1>5. SessionTypes' /\ PollWaiting'
  BY <1>3, <1>4 DEF SessionIInv, SessionTypes, PollWaiting
<1>6. Shapes'
  BY <1>1, <1>3, PollRoundShape DEF SessionIInv, Shapes
<1>7. Begun'
  <2>1. Has(q, "threads") /\ ~Has(q, "created") => created
    BY <1>1 DEF SessionIInv, Begun
  <2> QED BY <1>1, <1>3, <2>1, EmptyHas DEF Begun
<1>8. SourcesHeld'
  BY <1>1, <1>3, <1>4 DEF SessionIInv, SourcesHeld
<1>9. Ending("network")' /\ Ending("control")'
  BY <1>1, <1>3, EmptyHas DEF Ending
<1>10. Deleted' /\ Clearing' /\ Session!EndsCleanly'
  BY <1>1, <1>3 DEF SessionIInv, Deleted, Clearing, Session!EndsCleanly
<1> QED BY <1>5, <1>6, <1>7, <1>8, <1>9, <1>10 DEF SessionIInv

\* The programs that the threads start with.
LEMMA BeginShapes ==
  /\ StreamShape(<<Session!Do("begin")>>)
  /\ StreamShape(<<Session!Do("SendPacket")>> \o <<Session!Do("begin")>>)
  /\ SntpShape(<<Session!Do("report")>>) /\ SntpShape(<<>>)
<1>1. /\ Session!Do("begin") \in Item /\ Session!Do("SendPacket") \in Item /\ Session!Do("report") \in Item
      /\ Session!Do("begin").do = "begin" /\ Session!Do("SendPacket").do = "SendPacket"
      /\ Session!Do("report").do = "report"
  BY Items DEF StreamDos, SntpDos, Session!Do
<1>2. StreamShape(<<Session!Do("begin")>>)
  <2> DEFINE s == <<Session!Do("begin")>>
  <2>1. s \in Seq(Item) /\ Len(s) = 1 /\ s[1] = Session!Do("begin")
    BY <1>1, SMT
  <2> HIDE DEF s
  <2>2. \A i \in 1..Len(s) : i = Len(s) /\ s[i].do = "begin"
    BY <1>1, <2>1, SMT
  <2> QED BY <2>1, <2>2 DEF StreamShape, DoesOnly, GivesBack, Takes, StreamDos, s
<1>3. StreamShape(<<Session!Do("SendPacket")>> \o <<Session!Do("begin")>>)
  <2> DEFINE s == <<Session!Do("SendPacket")>> \o <<Session!Do("begin")>>
  <2>1. s \in Seq(Item) /\ Len(s) = 2 /\ s[1] = Session!Do("SendPacket") /\ s[2] = Session!Do("begin")
    BY <1>1, SMT
  <2> HIDE DEF s
  <2>2. \A i \in 1..Len(s) : (i = 1 /\ i # Len(s) /\ s[i].do = "SendPacket") \/ (i = Len(s) /\ s[i].do = "begin")
    BY <1>1, <2>1, SMT
  <2> QED BY <2>1, <2>2 DEF StreamShape, DoesOnly, GivesBack, Takes, StreamDos, s
<1>4. SntpShape(<<Session!Do("report")>>)
  <2> DEFINE s == <<Session!Do("report")>>
  <2>1. s \in Seq(Item) /\ Len(s) = 1 /\ s[1] = Session!Do("report")
    BY <1>1, SMT
  <2> HIDE DEF s
  <2>2. s[Len(s)].do = "report" /\ \A i \in 1..Len(s) : s[i].do = "report"
    BY <1>1, <2>1, SMT
  <2> QED BY <2>1, <2>2 DEF SntpShape, DoesOnly, SntpDos, s
<1>5. SntpShape(<<>>)
  <2>1. <<>> \in Seq(Item) /\ ~(Len(<<>>) > 0) /\ \A i : i \notin 1..Len(<<>>)
    BY SMT
  <2> QED BY <2>1 DEF SntpShape, DoesOnly
<1> QED BY <1>2, <1>3, <1>4, <1>5

\* The network and SNTP threads are started.
LEMMA ThreadsGo ==
  ASSUME SessionIInv, todo["control"] # <<>>, todo["control"][1].do = "threads",
         NEW w, StreamShape(w), NEW x, SntpShape(x),
         todo' = [todo EXCEPT !["control"] = Tail(@), !["network"] = w, !["sntp"] = x],
         UNCHANGED <<holds, created, walking, running, stop, rtptrans, missed, wrong>>,
         UNCHANGED <<waitingfordata, abortdesc, aborted>>
  PROVE  SessionIInv'
<1> DEFINE s == todo["control"]
           q == Tail(s)
<1>1. /\ s \in Seq(Item) /\ s # <<>> /\ Has(s, "threads") /\ Has(s, "join")
      /\ todo["network"] = <<>> /\ rtptrans = "created" /\ created
      /\ EarlyShape(q)
      /\ \A d : Has(s, d) /\ d # "threads" => Has(q, d)
      /\ ~Has(q, "threads") /\ ~Has(q, "start")
      /\ \A d \in {"ended?", "stop", "abort", "cleared"} : ~Has(q, d)
      /\ walking \subseteq {"stats"}
  BY BeforeThreads
<1>2. q \in Seq(Item) /\ w \in Seq(Item) /\ x \in Seq(Item)
  BY <1>1 DEF EarlyShape, StreamShape, SntpShape, DoesOnly
<1> HIDE DEF q
<1>3. /\ todo' \in [Session!Threads -> Seq(Item)]
      /\ todo'["control"] = q /\ todo'["network"] = w /\ todo'["sntp"] = x
      /\ todo'["poll"] = todo["poll"] /\ todo'["stats"] = todo["stats"]
  <2>1. todo \in [Session!Threads -> Seq(Item)]
    BY DEF SessionIInv, SessionTypes
  <2>2. todo' = [todo EXCEPT !["control"] = q, !["network"] = w, !["sntp"] = x]
    BY DEF q
  <2> QED BY <1>2, <2>1, <2>2 DEF Session!Threads
<1>4. holds["sources"] # "network"
  <2>1. \A i : i \notin 1..Len(<<>>)
    BY SMT
  <2> QED BY <1>1, <2>1 DEF SessionIInv, SourcesHeld
<1>5. SessionTypes' /\ PollWaiting'
  BY <1>3 DEF SessionIInv, SessionTypes, PollWaiting
<1>6. Shapes'
  BY <1>1, <1>3 DEF SessionIInv, Shapes
<1>7. Begun'
  BY <1>1, <1>3 DEF Begun
<1>8. SourcesHeld'
  BY <1>3, <1>4 DEF SessionIInv, SourcesHeld
<1>9. Ending("network")' /\ Ending("control")'
  <2>1. ~Has(w, "ended?") /\ ~Has(w, "cleared") /\ ~Has(w, "stop")
    BY DEF StreamShape, DoesOnly, StreamDos, Has
  <2> QED BY <1>1, <1>3, <2>1 DEF Ending
<1>10. Deleted' /\ Clearing' /\ Session!EndsCleanly'
  BY <1>1, <1>3 DEF SessionIInv, Deleted, Clearing, Session!EndsCleanly
<1> QED BY <1>5, <1>6, <1>7, <1>8, <1>9, <1>10 DEF SessionIInv
-----------------------------------------------------------------------------
(* The actions.                                                            *)

\* What a thread is at is an item.
LEMMA Heads ==
  ASSUME SessionIInv, NEW t \in Session!Threads, todo[t] # <<>>
  PROVE  /\ todo[t] \in Seq(Item) /\ 1 \in 1..Len(todo[t])
         /\ Head(todo[t]) = todo[t][1] /\ todo[t][1] \in Item
         /\ <<>> \o Tail(todo[t]) = Tail(todo[t])
<1>1. todo[t] \in Seq(Item)
  BY DEF SessionIInv, SessionTypes
<1>2. /\ 1 \in 1..Len(todo[t]) /\ Head(todo[t]) = todo[t][1]
      /\ <<>> \o Tail(todo[t]) = Tail(todo[t])
  BY <1>1, NothingPushed
<1>3. todo[t][1] \in Item
  BY <1>1, <1>2, ElementOfSeq
<1> QED BY <1>1, <1>2, <1>3

LEMMA NoItems == <<>> \in Seq(Item) /\ Plain(<<>>) /\ \A i : i \notin 1..Len(<<>>)
<1>1. <<>> \in Seq(Item) /\ \A i : i \notin 1..Len(<<>>)
  BY SMT
<1> QED BY <1>1, PlainTuples

\* What the poll thread is at, while the transmitter is there.
LEMMA PollHead ==
  ASSUME SessionIInv, todo["poll"] # <<>>
  PROVE  /\ todo["poll"][1].do \in PollDos /\ Head(todo["poll"]) = todo["poll"][1]
         /\ todo["poll"][1] \in Item
         /\ rtptrans = "created"
<1>1. /\ 1 \in 1..Len(todo["poll"]) /\ Head(todo["poll"]) = todo["poll"][1] /\ todo["poll"][1] \in Item
  BY Heads, ThreadNames
<1>2. PollShape(todo["poll"])
  BY DEF SessionIInv, Shapes
<1> QED BY <1>1, <1>2 DEF PollShape, DoesOnly, SessionIInv, Deleted

\* A thread takes a mutex that is free, and gives back one of its own.
LEMMA MutexSteps ==
  ASSUME SessionIInv, NEW t \in Session!Threads, Session!Locks(t) \/ Session!Unlocks(t)
  PROVE  /\ HoldsStep(t, <<>>) /\ todo[t][1].do \in {"lock", "unlock"}
         /\ Takes(todo[t][1]) \/ holds'["sources"] \in {holds["sources"], NULL}
<1>1. todo[t] # <<>>
  BY DEF Session!Locks, Session!Unlocks, Session!Does, Session!At
<1>2. Head(todo[t]) = todo[t][1] /\ todo[t][1] \in Item
  BY <1>1, Heads
<1>3. /\ todo[t][1].mutex \in Session!Mutexes \cup {NULL}
      /\ holds \in [Session!Mutexes -> Session!Threads \cup {NULL}]
  BY <1>2 DEF Item, SessionIInv, SessionTypes
<1>4. CASE Session!Locks(t)
  <2>1. todo[t][1].do = "lock" /\ holds' = [holds EXCEPT ![todo[t][1].mutex] = t]
    BY <1>1, <1>2, <1>4 DEF Session!Locks, Session!Does, Session!At, Session!Wants
  <2>2. holds' \in [Session!Mutexes -> Session!Threads \cup {NULL}]
    BY <1>3, <2>1
  <2>3. CASE todo[t][1].mutex = "sources"
    BY <1>3, <2>1, <2>2, <2>3, ThreadNames DEF HoldsStep, Takes
  <2>4. CASE todo[t][1].mutex # "sources"
    <3>1. holds'["sources"] = holds["sources"] /\ ~Gives(todo[t][1])
      BY <1>3, <2>1, <2>4, ThreadNames DEF Gives
    <3> QED BY <2>1, <2>2, <3>1 DEF HoldsStep
  <2> QED BY <2>3, <2>4
<1>5. CASE Session!Unlocks(t)
  <2>1. todo[t][1].do = "unlock" /\ holds' = [holds EXCEPT ![todo[t][1].mutex] = NULL]
    BY <1>1, <1>2, <1>5 DEF Session!Unlocks, Session!Does, Session!At
  <2>2. holds' \in [Session!Mutexes -> Session!Threads \cup {NULL}]
    BY <1>3, <2>1
  <2>3. CASE todo[t][1].mutex = "sources"
    BY <1>3, <2>1, <2>2, <2>3, ThreadNames DEF HoldsStep
  <2>4. CASE todo[t][1].mutex # "sources"
    <3>1. holds'["sources"] = holds["sources"] /\ ~Gives(todo[t][1])
      BY <1>3, <2>1, <2>4, ThreadNames DEF Gives
    <3> QED BY <2>1, <2>2, <3>1 DEF HoldsStep
  <2> QED BY <2>3, <2>4
<1> QED BY <1>4, <1>5

\* A step that leaves the mutexes as they are.
LEMMA HoldsKept ==
  ASSUME SessionIInv, NEW t \in Session!Threads, holds' = holds, NEW more,
         ~Gives(todo[t][1]) \/ \E i \in 1..Len(more) : Gives(more[i])
  PROVE  HoldsStep(t, more)
BY DEF HoldsStep, SessionIInv, SessionTypes

\* A step of the poll thread that only shortens what it has to do.
LEMMA PollDoes ==
  ASSUME SessionIInv, NEW d, Session!At("poll", d), Session!Goes("poll", <<>>),
         d \notin {"stop?", "waits", "select", "woken"},
         UNCHANGED <<created, walking, running, stop, rtptrans, missed, wrong>>,
         UNCHANGED <<waitingfordata, abortdesc, aborted>>,
         HoldsStep("poll", <<>>) \/ (holds' = holds /\ d # "unlock")
  PROVE  SessionIInv'
<1>1. todo["poll"] # <<>> /\ Head(todo["poll"]).do = d
  BY DEF Session!At
<1>2. todo["poll"][1].do = d /\ d \in PollDos
  BY <1>1, PollHead
<1>3. d # "EndDataAccess"
  BY <1>2 DEF PollDos
<1>4. HoldsStep("poll", <<>>)
  <2>1. CASE holds' = holds /\ d # "unlock"
    <3>1. ~Gives(todo["poll"][1])
      BY <1>2, <1>3, <2>1 DEF Gives
    <3> QED BY <2>1, <3>1, HoldsKept, ThreadNames
  <2> QED BY <2>1
<1>5. todo' = [todo EXCEPT !["poll"] = <<>> \o Tail(@)]
  BY DEF Session!Goes
<1> QED BY <1>1, <1>2, <1>4, <1>5, PollQuiet, NoItems

\* A step of the poll thread that gives it more to do.
LEMMA PollMore ==
  ASSUME SessionIInv, NEW d, Session!At("poll", d), NEW more, Plain(more), Session!Goes("poll", more),
         d \notin {"stop?", "waits", "select", "woken", "unlock"},
         UNCHANGED <<created, walking, running, stop, rtptrans, missed, wrong>>,
         UNCHANGED <<waitingfordata, abortdesc, aborted, holds>>
  PROVE  SessionIInv'
<1>1. todo["poll"] # <<>> /\ Head(todo["poll"]).do = d
  BY DEF Session!At
<1>2. todo["poll"][1].do = d /\ d \in PollDos
  BY <1>1, PollHead
<1>3. d # "EndDataAccess"
  BY <1>2 DEF PollDos
<1>4. ~Gives(todo["poll"][1])
  BY <1>2, <1>3 DEF Gives
<1>5. HoldsStep("poll", more)
  BY <1>4, HoldsKept, ThreadNames
<1>6. todo' = [todo EXCEPT !["poll"] = more \o Tail(@)]
  BY DEF Session!Goes
<1> QED BY <1>1, <1>2, <1>5, <1>6, PollQuiet

\* The packets, and the BYE packets that wait.
Kinds == UNION Arrivals

Incoming ==
  /\ coming \subseteq Kinds
  /\ socket \in Seq(Kinds) /\ rawpacketlist \in Seq(Kinds)
  /\ byepackets \in Int

\* The calls, by name.
LEMMA CallsAre ==
  /\ DOMAIN Session!Calls = {"SendPacket", "SendRTCPAPPPacket", "AddDestination", "DeleteDestination",
                             "BeginDataAccess", "EndDataAccess", "BYEDestroy", "Destroy"}
  /\ Session!Calls["SendPacket"] = Session!SendPacket
  /\ Session!Calls["SendRTCPAPPPacket"] = Session!SendRTCPAPPPacket
  /\ Session!Calls["AddDestination"] = <<Session!Within("main", "pass")>>
  /\ Session!Calls["DeleteDestination"] = <<Session!Within("main", "pass")>>
  /\ Session!Calls["BeginDataAccess"] = <<Session!Lock("sources")>>
  /\ Session!Calls["EndDataAccess"] = <<Session!Unlock("sources")>>
  /\ Session!Calls["BYEDestroy"] = Session!BYEDestroy
  /\ Session!Calls["Destroy"] = Session!Destroy
BY DEF Session!Calls, Session!AddDestination, Session!DeleteDestination, Session!BeginDataAccess,
       Session!EndDataAccess

\* What the poll thread gets more to do is plain.
LEMMA PlainPieces ==
  /\ \A m \in Session!Mutexes, d \in PollDos \ {"lock", "unlock", "stop?", "waits", "select", "woken"} :
       Plain(<<Session!Within(m, d)>>)
  /\ Plain(<<Session!Lock("sched")>>) /\ Plain(<<Session!Unlock("sched")>>)
  /\ Plain(Session!OnNewSource) /\ Plain(Session!OnRemoveSource)
  /\ Plain(Session!Report)
  /\ \A k \in Kinds : Plain(Session!Process(k))
<1>1. \A m \in Session!Mutexes, d \in PollDos \ {"lock", "unlock", "stop?", "waits", "select", "woken"} :
        Plain(<<Session!Within(m, d)>>)
  BY PlainItems, PlainTuples
<1>2. Plain(<<Session!Lock("sched")>>) /\ Plain(<<Session!Unlock("sched")>>)
  BY PlainItems, PlainTuples
<1>3. Plain(Session!OnNewSource) /\ Plain(Session!OnRemoveSource)
  <2>1. /\ PlainItem(Session!Do("AddDestination")) /\ PlainItem(Session!Do("connected"))
        /\ PlainItem(Session!Do("DeleteDestination")) /\ PlainItem(Session!Do("disconnected"))
    BY PlainItems, ThreadNames DEF PollDos
  <2> QED BY <2>1, PlainTuples DEF Session!OnNewSource, Session!OnRemoveSource
<1>4. Plain(Session!Report)
  <2>1. /\ PlainItem(Session!Within("builder", "pass")) /\ PlainItem(Session!Within("main", "send"))
        /\ PlainItem(Session!Within("packsent", "sent")) /\ PlainItem(Session!Within("sched", "pass"))
        /\ PlainItem(Session!Within("main", "goodbye"))
    BY PlainItems DEF PollDos, Session!Mutexes
  <2> QED BY <2>1, PlainTuples DEF Session!Report
<1>5. Plain(<<Session!Within("packsent", "farewell?"), Session!Within("builder", "CreateNewSSRC"),
              Session!Within("packsent", "reset")>>)
  <2>1. /\ PlainItem(Session!Within("packsent", "farewell?"))
        /\ PlainItem(Session!Within("builder", "CreateNewSSRC"))
        /\ PlainItem(Session!Within("packsent", "reset"))
    BY PlainItems DEF PollDos, Session!Mutexes
  <2> QED BY <2>1, PlainTuples
<1>6. Plain(<<Session!Lock("sched")>> \o Session!OnNewSource \o <<Session!Unlock("sched")>>)
  <2>1. Plain(<<Session!Lock("sched")>> \o Session!OnNewSource)
    BY <1>2, <1>3, PlainJoins
  <2> QED BY <1>2, <2>1, PlainJoins
<1>7. Plain(<<Session!Lock("sched")>> \o Session!OnRemoveSource \o <<Session!Unlock("sched")>>)
  <2>1. Plain(<<Session!Lock("sched")>> \o Session!OnRemoveSource)
    BY <1>2, <1>3, PlainJoins
  <2> QED BY <1>2, <2>1, PlainJoins
<1>8. \A k \in Kinds : k = "new" \/ k = "bye" \/ k = "collision"
  BY DEF Kinds, Arrivals
<1>9. \A k \in Kinds : Plain(Session!Process(k))
  BY <1>5, <1>6, <1>7, <1>8 DEF Session!Process
<1> QED BY <1>1, <1>2, <1>3, <1>4, <1>9

\* The calls of the poll thread.
LEMMA PollCalls ==
  ASSUME SessionIInv, Session!Step("poll")
  PROVE  SessionIInv'
<1> USE ThreadNames
<1>1. ASSUME Session!Locks("poll") \/ Session!Unlocks("poll") PROVE SessionIInv'
  <2>1. /\ Session!At("poll", "lock") \/ Session!At("poll", "unlock")
        /\ Session!Goes("poll", <<>>)
        /\ UNCHANGED <<created, walking, running, stop, rtptrans, missed, wrong>>
        /\ UNCHANGED <<waitingfordata, abortdesc, aborted>>
    BY <1>1 DEF Session!Locks, Session!Unlocks, Session!Does, Session!sessionVars, Session!pollVars,
                Session!transVars
  <2>2. HoldsStep("poll", <<>>)
    BY <1>1, MutexSteps
  <2> QED BY <2>1, <2>2, PollDoes
<1>2. ASSUME Session!Passes("poll") PROVE SessionIInv'
  BY <1>2, PollDoes DEF Session!Passes, Session!Does, Session!sessionVars, Session!pollVars, Session!transVars
<1>3. ~Session!UsesDeleted("poll")
  <2> SUFFICES ASSUME Session!UsesDeleted("poll") PROVE FALSE
    OBVIOUS
  <2>1. todo["poll"] # <<>> /\ rtptrans # "created"
    BY Names DEF Session!UsesDeleted, Session!Wants, Session!Mutexes
  <2> QED BY <2>1, PollHead
<1>4. ASSUME Session!Begins("poll") PROVE SessionIInv'
  <2>1. todo["poll"] # <<>> /\ Head(todo["poll"]).do \in DOMAIN Session!Calls /\ wrong = NULL
    BY <1>4 DEF Session!Begins
  <2>2. PICK d \in {"AddDestination", "DeleteDestination"} : Session!At("poll", d)
    <3>1. Head(todo["poll"]).do \in {"AddDestination", "DeleteDestination"}
      BY <2>1, PollHead, CallsAre DEF PollDos
    <3> QED BY <2>1, <3>1 DEF Session!At
  <2>3. Plain(IF created THEN Session!Calls[Head(todo["poll"]).do] ELSE <<>>)
    <3>1. Plain(<<Session!Within("main", "pass")>>)
      BY PlainPieces DEF Session!Mutexes, PollDos
    <3> QED BY <2>2, <3>1, NoItems, CallsAre DEF Session!At
  <2>4. /\ Session!Goes("poll", IF created THEN Session!Calls[Head(todo["poll"]).do] ELSE <<>>)
        /\ UNCHANGED <<created, walking, running, stop, rtptrans, missed, wrong>>
        /\ UNCHANGED <<waitingfordata, abortdesc, aborted, holds>>
    BY <1>4 DEF Session!Begins, Session!sessionVars, Session!pollVars, Session!transVars
  <2> HIDE DEF Session!Goes
  <2> QED BY <2>2, <2>3, <2>4, PollMore
<1>5. ASSUME Session!Sends("poll") PROVE SessionIInv'
  <2>1. /\ Session!At("poll", "send") /\ todo["poll"] # <<>>
        /\ todo' = [todo EXCEPT !["poll"] = IF rtptrans = "created" THEN Tail(@) ELSE Tail(Tail(@))]
        /\ UNCHANGED <<created, walking, running, stop, rtptrans, missed, wrong>>
        /\ UNCHANGED <<waitingfordata, abortdesc, aborted, holds>>
    BY <1>5 DEF Session!Sends, Session!At, Session!sessionVars, Session!pollVars, Session!transVars
  <2>2. Session!Goes("poll", <<>>)
    BY <2>1, PollHead, Heads DEF Session!Goes
  <2> QED BY <2>1, <2>2, PollDoes
<1>6. ASSUME Session!NotesSent("poll") PROVE SessionIInv'
  BY <1>6, PollDoes DEF Session!NotesSent, Session!Does, Session!pollVars, Session!transVars
<1>7. ASSUME Session!SaysGoodbye("poll") PROVE SessionIInv'
  BY <1>7, PollDoes DEF Session!SaysGoodbye, Session!Does, Session!pollVars, Session!transVars
<1>8. \A d \in {"clear", "cleared", "stop", "abort", "ended?", "bye", "close", "free"} : ~Session!At("poll", d)
  BY PollHead DEF Session!At, PollDos
<1>9. ~(Session!Clears("poll") \/ Session!TellsStop("poll") \/ Session!AbortWait("poll")
          \/ Session!PollEnds("poll") \/ Session!SendsByes("poll") \/ Session!DeletesTransmitter("poll"))
  BY <1>8 DEF Session!Clears, Session!TellsStop, Session!AbortWait, Session!PollEnds, Session!SendsByes,
              Session!DeletesTransmitter, Session!Does
<1> QED BY <1>1, <1>2, <1>3, <1>4, <1>5, <1>6, <1>7, <1>9 DEF Session!Step

\* The poll thread waits for data.
LEMMA PollWaitsGoes ==
  ASSUME SessionIInv, Session!PollWaits
  PROVE  SessionIInv'
<1> DEFINE s == todo["poll"]
           q == Tail(s)
<1>1. PICK d \in {"waits", "select", "woken"} : s # <<>> /\ Head(s).do = d /\ Session!Goes("poll", <<>>)
  BY DEF Session!PollWaits, Session!Does, Session!At
<1>2. /\ s[1].do = d /\ Head(s) = s[1] /\ <<>> \o Tail(s) = Tail(s) /\ s \in Seq(Item)
  BY <1>1, Heads, ThreadNames
<1>3. PollShape(s) /\ ~Gives(s[1]) /\ s[1].do # "stop?"
  BY <1>1, <1>2 DEF SessionIInv, Shapes, Gives
<1>4. /\ todo' = [todo EXCEPT !["poll"] = <<>> \o Tail(@)]
      /\ todo'["poll"] = <<>> \o Tail(s)
  <2>1. todo' = [todo EXCEPT !["poll"] = <<>> \o Tail(@)]
    BY <1>1 DEF Session!Goes
  <2> QED BY <1>1, <2>1, Goes, NoItems, ThreadNames
<1>5. todo'["poll"] = q
  BY <1>2, <1>4
<1>6. /\ Has(q, "waits") => Has(s, "waits")
      /\ Has(q, "select") => Has(s, "select")
      /\ d # "woken" /\ Has(s, "woken") => Has(q, "woken")
      /\ d = "waits" => ~Has(q, "waits") /\ Has(q, "woken")
      /\ d = "woken" => ~Has(q, "select")
  <2> HIDE DEF s
  <2>1. s # <<>> /\ Plain(<<>>)
    BY <1>1, NoItems
  <2>2. /\ Has(<<>> \o Tail(s), "waits") => Has(s, "waits")
        /\ Has(<<>> \o Tail(s), "select") => Has(s, "select")
        /\ s[1].do # "woken" /\ Has(s, "woken") => Has(<<>> \o Tail(s), "woken")
        /\ s[1].do = "waits" => ~Has(<<>> \o Tail(s), "waits") /\ Has(<<>> \o Tail(s), "woken")
        /\ s[1].do = "woken" => ~Has(<<>> \o Tail(s), "select")
    BY <1>3, <2>1, PollPushes
  <2> QED BY <1>2, <2>2
<1> HIDE DEF q
<1>7. Has(s, d)
  <2>1. 1 \in 1..Len(s)
    BY <1>1, Heads, ThreadNames
  <2> QED BY <1>2, <2>1 DEF Has
<1>8. /\ UNCHANGED <<created, walking, running, stop, rtptrans, missed, wrong>> /\ UNCHANGED holds
      /\ \/ d = "waits" /\ waitingfordata' /\ UNCHANGED <<aborted, abortdesc>>
         \/ d = "select" /\ (aborted' => abortdesc > 0) /\ UNCHANGED <<waitingfordata, abortdesc>>
         \/ /\ d = "woken" /\ ~waitingfordata' /\ ~aborted'
            /\ abortdesc' = IF aborted THEN abortdesc - 1 ELSE abortdesc
  BY <1>1 DEF Session!PollWaits, Session!Does, Session!At, Session!sessionVars
<1>9. abortdesc' \in Nat
  <2>1. abortdesc \in Nat /\ (aborted => abortdesc > 0)
    BY DEF SessionIInv, SessionTypes, PollWaiting
  <2>2. aborted => abortdesc - 1 \in Nat
    BY <2>1
  <2> QED BY <1>8, <2>1, <2>2
<1>10. /\ todo["poll"] # <<>> => running
       /\ waitingfordata => Has(s, "woken") /\ ~Has(s, "waits")
       /\ aborted => abortdesc > 0
  BY DEF SessionIInv, PollWaiting
<1> HIDE DEF s
<1>11. PollWaiting'
  <2>1. running'
    BY <1>1, <1>8, <1>10 DEF s
  <2>2. waitingfordata' => Has(q, "woken") /\ ~Has(q, "waits")
    BY <1>6, <1>8, <1>10
  <2>3. aborted' => abortdesc' > 0
    BY <1>8, <1>10
  <2> QED BY <1>5, <2>1, <2>2, <2>3 DEF PollWaiting
<1>12. PollWoken => PollWoken'
  <2> SUFFICES ASSUME PollWoken PROVE PollWoken'
    OBVIOUS
  <2>1. ~Has(s, "waits") /\ (Has(s, "select") => abortdesc > 0)
    BY DEF PollWoken, s
  <2>2. ~Has(q, "waits")
    BY <1>6, <2>1
  <2>3. Has(q, "select") => abortdesc' > 0
    BY <1>6, <1>8, <2>1
  <2> QED BY <1>5, <2>2, <2>3 DEF PollWoken
<1>13. HoldsStep("poll", <<>>)
  BY <1>3, <1>8, HoldsKept, ThreadNames DEF s
<1> QED BY <1>1, <1>3, <1>4, <1>8, <1>9, <1>11, <1>12, <1>13, NoItems, PollGoes DEF s

\* What else the poll thread does in a round.
LEMMA PollRounds ==
  ASSUME SessionIInv, Incoming, Session!PollStep
  PROVE  SessionIInv'
<1> USE DEF Session!sessionVars, Session!pollVars, Session!transVars
<1>1. ASSUME Session!PollDelay PROVE SessionIInv'
  BY <1>1, PollDoes DEF Session!PollDelay, Session!Does
<1>2. ASSUME Session!PollWaits PROVE SessionIInv'
  BY <1>2, PollWaitsGoes
<1>3. ASSUME Session!Poll PROVE SessionIInv'
  BY <1>3, PollDoes DEF Session!Poll, Session!Does
<1>4. ASSUME Session!GetNextPacket PROVE SessionIInv'
  <2> DEFINE more == IF rawpacketlist = <<>> THEN <<>>
                     ELSE Session!Process(Head(rawpacketlist)) \o <<Session!Within("main", "GetNextPacket")>>
  <2>1. /\ Session!At("poll", "GetNextPacket") /\ Session!Goes("poll", more)
        /\ UNCHANGED <<created, walking, running, stop, rtptrans, missed, wrong>>
        /\ UNCHANGED <<waitingfordata, abortdesc, aborted, holds>>
    BY <1>4 DEF Session!GetNextPacket
  <2>2. Plain(more)
    <3>1. rawpacketlist # <<>> => Head(rawpacketlist) \in Kinds
      BY HeadTailProperties DEF Incoming
    <3>2. Plain(<<Session!Within("main", "GetNextPacket")>>)
      BY PlainPieces DEF Session!Mutexes, PollDos
    <3>3. \A k \in Kinds : Plain(Session!Process(k) \o <<Session!Within("main", "GetNextPacket")>>)
      BY <3>2, PlainPieces, PlainJoins
    <3> QED BY <3>1, <3>3, NoItems
  <2> HIDE DEF more
  <2> QED BY <2>1, <2>2, PollMore
<1>5. ASSUME Session!CountsSources PROVE SessionIInv'
  BY <1>5, PollDoes DEF Session!CountsSources, Session!Does
<1>6. ASSUME Session!TimesOut PROVE SessionIInv'
  BY <1>6, PollMore, NoItems, PlainPieces DEF Session!TimesOut
<1>7. ASSUME Session!Collides PROVE SessionIInv'
  <2>1. CASE Session!Does("poll", "CreateNewSSRC") \/ Session!Does("poll", "reset")
    BY <1>7, <2>1, PollDoes DEF Session!Collides, Session!Does
  <2>2. CASE Session!At("poll", "farewell?")
    <3> DEFINE more == IF ~sentpackets THEN <<>>
                       ELSE <<Session!Within("builder", "pass")>>
                              \o (IF byepackets = 0 THEN <<Session!Within("sched", "pass")>> ELSE <<>>)
    <3>1. Plain(more)
      <4>1. Plain(<<Session!Within("builder", "pass")>>) /\ Plain(<<Session!Within("sched", "pass")>>)
        BY PlainPieces DEF Session!Mutexes, PollDos
      <4> QED BY <4>1, NoItems, PlainJoins
    <3>2. /\ Session!Goes("poll", more)
          /\ UNCHANGED <<created, walking, running, stop, rtptrans, missed, wrong>>
          /\ UNCHANGED <<waitingfordata, abortdesc, aborted, holds>>
      BY <1>7, <2>2 DEF Session!Collides, Session!Does, Session!At
    <3> HIDE DEF more
    <3> QED BY <2>2, <3>1, <3>2, PollMore
  <2> QED BY <1>7, <2>1, <2>2 DEF Session!Collides
<1>8. ASSUME Session!IsTime PROVE SessionIInv'
  BY <1>8, PollMore, NoItems, PlainPieces DEF Session!IsTime
<1>9. ASSUME Session!PollRepeats PROVE SessionIInv'
  <2>1. todo["poll"] # <<>> /\ Head(todo["poll"]).do = "stop?"
    BY <1>9 DEF Session!PollRepeats, Session!At
  <2>2. todo["poll"][1].do = "stop?"
    BY <2>1, PollHead
  <2> QED BY <1>9, <2>1, <2>2, PollRepeatsGoes DEF Session!PollRepeats, Session!Goes
<1> QED BY <1>1, <1>2, <1>3, <1>4, <1>5, <1>6, <1>7, <1>8, <1>9 DEF Session!PollStep

\* A network thread that streams has the transmitter and a created session.
LEMMA StreamHead ==
  ASSUME SessionIInv, StreamShape(todo["network"]), todo["network"] # <<>>
  PROVE  /\ todo["network"][1].do \in StreamDos /\ Head(todo["network"]) = todo["network"][1]
         /\ todo["network"][1] \in Item /\ rtptrans = "created" /\ created
<1> DEFINE s == todo["network"]
<1>1. /\ 1 \in 1..Len(s) /\ Head(s) = s[1] /\ s[1] \in Item /\ s \in Seq(Item)
  BY Heads, ThreadNames
<1>2. s[1].do \in StreamDos
  BY <1>1 DEF StreamShape, DoesOnly
<1>3. rtptrans = "created"
  BY <1>1, <1>2 DEF SessionIInv, Deleted, StreamDos
<1>4. created
  <2>1. Len(s) \in 1..Len(s)
    BY <1>1, SMT
  <2>2. s[Len(s)].do \in {"begin", "round"}
    BY <2>1 DEF StreamShape
  <2>3. Has(s, "begin") \/ Has(s, "round")
    BY <2>1, <2>2 DEF Has
  <2> QED BY <2>3 DEF SessionIInv, Begun
<1> QED BY <1>1, <1>2, <1>3, <1>4

\* A step of the network thread that only shortens what it has to do.
LEMMA StreamDoes ==
  ASSUME SessionIInv, StreamShape(todo["network"]), NEW d, Session!At("network", d),
         Session!Goes("network", <<>>), d \notin {"begin", "round"},
         UNCHANGED <<created, walking, running, stop, rtptrans, missed, wrong>>,
         UNCHANGED <<waitingfordata, abortdesc, aborted>>,
         HoldsStep("network", <<>>) \/ (holds' = holds /\ d \notin {"unlock", "EndDataAccess"})
  PROVE  SessionIInv'
<1>1. todo["network"] # <<>> /\ Head(todo["network"]).do = d
  BY DEF Session!At
<1>2. todo["network"][1].do = d
  BY <1>1, StreamHead
<1>3. HoldsStep("network", <<>>)
  <2>1. CASE holds' = holds /\ d \notin {"unlock", "EndDataAccess"}
    <3>1. ~Gives(todo["network"][1])
      BY <1>2, <2>1 DEF Gives
    <3> QED BY <2>1, <3>1, HoldsKept, ThreadNames
  <2> QED BY <2>1
<1>4. todo' = [todo EXCEPT !["network"] = <<>> \o Tail(@)]
  BY DEF Session!Goes
<1>5. <<>> \in Seq(Item) /\ (\A i \in 1..Len(<<>>) : ~Takes(<<>>[i]))
      /\ \A i \in 1..Len(<<>>) : <<>>[i].do \in StreamDos \ {"begin", "round"}
  BY NoItems
<1> QED BY <1>1, <1>2, <1>3, <1>4, <1>5, StreamGoes

\* Calls that the network thread makes while it streams.
StreamCall(more) ==
  /\ more \in Seq(Item)
  /\ \A i \in 1..Len(more) : more[i].do \in StreamDos \ {"begin", "round"}

\* The calls of a round of RunNetwork.
LEMMA StreamCalls ==
  /\ StreamCall(Session!SendPacket) /\ \A i \in 1..Len(Session!SendPacket) : ~Takes(Session!SendPacket[i])
  /\ StreamCall(<<Session!Lock("sources")>>)
  /\ StreamCall(<<Session!Unlock("sources")>>) /\ Gives(<<Session!Unlock("sources")>>[1])
  /\ 1 \in 1..Len(<<Session!Unlock("sources")>>)
  /\ \A i \in 1..Len(<<Session!Unlock("sources")>>) : ~Takes(<<Session!Unlock("sources")>>[i])
<1>1. /\ Session!Lock("builder") \in Item /\ Session!Within("main", "send") \in Item
      /\ Session!Unlock("builder") \in Item /\ Session!Within("sources", "pass") \in Item
      /\ Session!Within("packsent", "sent") \in Item
      /\ Session!Lock("sources") \in Item /\ Session!Unlock("sources") \in Item
  BY Items DEF Session!Mutexes, StreamDos, Bare
<1>2. StreamCall(Session!SendPacket) /\ \A i \in 1..Len(Session!SendPacket) : ~Takes(Session!SendPacket[i])
  <2> DEFINE s == Session!SendPacket
  <2>1. /\ s \in Seq(Item) /\ Len(s) = 5 /\ s[1] = Session!Lock("builder")
        /\ s[2] = Session!Within("main", "send") /\ s[3] = Session!Unlock("builder")
        /\ s[4] = Session!Within("sources", "pass") /\ s[5] = Session!Within("packsent", "sent")
    BY <1>1, SMT DEF Session!SendPacket
  <2> HIDE DEF s
  <2>2. \A i \in 1..Len(s) : i = 1 \/ i = 2 \/ i = 3 \/ i = 4 \/ i = 5
    BY <2>1, SMT
  <2>3. /\ s[1].do = "lock" /\ s[1].mutex = "builder" /\ s[2].do = "send" /\ s[3].do = "unlock"
        /\ s[4].do = "pass" /\ s[5].do = "sent"
    BY <2>1 DEF Session!Lock, Session!Unlock, Session!Within
  <2>4. \A i \in 1..Len(s) : s[i].do \in StreamDos \ {"begin", "round"} /\ ~Takes(s[i])
    BY <2>2, <2>3 DEF StreamDos, Takes
  <2> QED BY <2>1, <2>4 DEF StreamCall, s
<1>3. StreamCall(<<Session!Lock("sources")>>)
  <2> DEFINE s == <<Session!Lock("sources")>>
  <2>1. s \in Seq(Item) /\ \A i \in 1..Len(s) : s[i] = Session!Lock("sources")
    BY <1>1, SMT
  <2> HIDE DEF s
  <2> QED BY <2>1 DEF StreamCall, StreamDos, Session!Lock, s
<1>4. /\ StreamCall(<<Session!Unlock("sources")>>) /\ Gives(<<Session!Unlock("sources")>>[1])
      /\ 1 \in 1..Len(<<Session!Unlock("sources")>>)
      /\ \A i \in 1..Len(<<Session!Unlock("sources")>>) : ~Takes(<<Session!Unlock("sources")>>[i])
  <2> DEFINE s == <<Session!Unlock("sources")>>
  <2>1. s \in Seq(Item) /\ 1 \in 1..Len(s) /\ \A i \in 1..Len(s) : s[i] = Session!Unlock("sources")
    BY <1>1, SMT
  <2>2. 1 \in 1..Len(s) /\ \A i \in 1..Len(s) : s[i].do = "unlock" /\ s[i].mutex = "sources"
    BY <2>1 DEF Session!Unlock
  <2> HIDE DEF s
  <2>3. StreamCall(s) /\ Gives(s[1]) /\ 1 \in 1..Len(s) /\ \A i \in 1..Len(s) : ~Takes(s[i])
    BY <2>1, <2>2 DEF StreamCall, StreamDos, Takes, Gives
  <2> QED BY <2>3 DEF s
<1> QED BY <1>2, <1>3, <1>4

\* The network thread while it streams.
LEMMA NetworkStreams ==
  ASSUME SessionIInv, StreamShape(todo["network"]), Session!Step("network")
  PROVE  SessionIInv'
<1> USE ThreadNames
<1>1. ASSUME Session!Locks("network") \/ Session!Unlocks("network") PROVE SessionIInv'
  <2>1. /\ Session!At("network", "lock") \/ Session!At("network", "unlock")
        /\ Session!Goes("network", <<>>)
        /\ UNCHANGED <<created, walking, running, stop, rtptrans, missed, wrong>>
        /\ UNCHANGED <<waitingfordata, abortdesc, aborted>>
    BY <1>1 DEF Session!Locks, Session!Unlocks, Session!Does, Session!sessionVars, Session!pollVars,
                Session!transVars
  <2>2. HoldsStep("network", <<>>)
    BY <1>1, MutexSteps
  <2> QED BY <2>1, <2>2, StreamDoes
<1>2. ASSUME Session!Passes("network") PROVE SessionIInv'
  BY <1>2, StreamDoes DEF Session!Passes, Session!Does, Session!sessionVars, Session!pollVars, Session!transVars
<1>3. ~Session!UsesDeleted("network")
  <2> SUFFICES ASSUME Session!UsesDeleted("network") PROVE FALSE
    OBVIOUS
  <2>1. todo["network"] # <<>> /\ rtptrans # "created"
    BY Names DEF Session!UsesDeleted, Session!Wants, Session!Mutexes
  <2> QED BY <2>1, StreamHead
<1>4. ASSUME Session!Begins("network") PROVE SessionIInv'
  <2> DEFINE s == todo["network"]
             more == Session!Calls[s[1].do]
  <2>1. s # <<>> /\ Head(s).do \in DOMAIN Session!Calls
    BY <1>4 DEF Session!Begins
  <2>2. /\ s[1].do \in {"SendPacket", "BeginDataAccess", "EndDataAccess"} /\ created /\ Head(s) = s[1]
    BY <2>1, StreamHead, CallsAre DEF StreamDos
  <2>3. /\ todo' = [todo EXCEPT !["network"] = more \o Tail(@)]
        /\ UNCHANGED <<created, walking, running, stop, rtptrans, missed, wrong>>
        /\ UNCHANGED <<waitingfordata, abortdesc, aborted>> /\ holds' = holds
    BY <1>4, <2>2 DEF Session!Begins, Session!Goes, Session!sessionVars, Session!pollVars, Session!transVars
  <2>4. /\ StreamCall(more)
        /\ (\A i \in 1..Len(more) : ~Takes(more[i])) \/ Takes(s[1])
        /\ ~Gives(s[1]) \/ \E i \in 1..Len(more) : Gives(more[i])
    <3>1. CASE s[1].do = "SendPacket"
      <4>1. more = Session!SendPacket /\ ~Gives(s[1])
        BY <3>1, CallsAre DEF Gives
      <4> QED BY <4>1, StreamCalls
    <3>2. CASE s[1].do = "BeginDataAccess"
      <4>1. more = <<Session!Lock("sources")>> /\ ~Gives(s[1]) /\ Takes(s[1])
        BY <3>2, CallsAre DEF Gives, Takes
      <4> QED BY <4>1, StreamCalls
    <3>3. CASE s[1].do = "EndDataAccess"
      <4>1. more = <<Session!Unlock("sources")>>
        BY <3>3, CallsAre
      <4> QED BY <4>1, StreamCalls
    <3> QED BY <2>2, <3>1, <3>2, <3>3
  <2> HIDE DEF more
  <2>5. HoldsStep("network", more)
    BY <2>3, <2>4, HoldsKept
  <2> QED BY <2>1, <2>2, <2>3, <2>4, <2>5, StreamGoes DEF StreamCall
<1>5. ASSUME Session!Sends("network") PROVE SessionIInv'
  <2>1. /\ Session!At("network", "send") /\ todo["network"] # <<>>
        /\ todo' = [todo EXCEPT !["network"] = IF rtptrans = "created" THEN Tail(@) ELSE Tail(Tail(@))]
        /\ UNCHANGED <<created, walking, running, stop, rtptrans, missed, wrong>>
        /\ UNCHANGED <<waitingfordata, abortdesc, aborted, holds>>
    BY <1>5 DEF Session!Sends, Session!At, Session!sessionVars, Session!pollVars, Session!transVars
  <2>2. Session!Goes("network", <<>>)
    BY <2>1, StreamHead, Heads DEF Session!Goes
  <2> QED BY <2>1, <2>2, StreamDoes
<1>6. ASSUME Session!NotesSent("network") PROVE SessionIInv'
  BY <1>6, StreamDoes DEF Session!NotesSent, Session!Does, Session!pollVars, Session!transVars
<1>7. \A d \in EndDos : ~Session!At("network", d)
  BY StreamHead DEF Session!At, StreamDos, EndDos
<1>8. ~(Session!SaysGoodbye("network")
          \/ Session!Clears("network") \/ Session!TellsStop("network") \/ Session!AbortWait("network")
          \/ Session!PollEnds("network") \/ Session!SendsByes("network")
          \/ Session!DeletesTransmitter("network"))
  BY <1>7 DEF Session!SaysGoodbye, Session!Clears, Session!TellsStop, Session!AbortWait, Session!PollEnds,
              Session!SendsByes, Session!DeletesTransmitter, Session!Does, EndDos
<1> QED BY <1>1, <1>2, <1>3, <1>4, <1>5, <1>6, <1>8 DEF Session!Step

\* What whoever destroys the session is at.
LEMMA EndHead ==
  ASSUME SessionIInv, NEW t \in {"network", "control"}, EndShape(todo[t]), todo[t] # <<>>
  PROVE  /\ todo[t][1].do \in EndDos /\ Head(todo[t]) = todo[t][1]
         /\ rtptrans # "created" => Session!Wants(t) = NULL
<1> DEFINE s == todo[t]
<1>1. /\ 1 \in 1..Len(s) /\ Head(s) = s[1] /\ s[1] \in Item /\ s \in Seq(Item)
  BY Heads, ThreadNames
<1>2. s[1].do \in EndDos
  BY <1>1 DEF EndShape, DoesOnly
<1>3. rtptrans # "created" => s[1].do \in Bare
  BY <1>1 DEF SessionIInv, Deleted, Bare
<1>4. rtptrans # "created" => s[1].mutex = NULL
  BY <1>1, <1>3 DEF Item
<1> QED BY <1>1, <1>2, <1>4 DEF Session!Wants

\* The BYE packets that BYEDestroy sends.
LEMMA Goodbyes ==
  ASSUME NEW n \in Nat
  PROVE  LET s == [i \in 1..n |-> Session!Within("main", "goodbye")] IN
           s \in Seq(Item) /\ \A i \in 1..Len(s) : s[i].do = "goodbye"
<1> DEFINE g == Session!Within("main", "goodbye")
           s == [i \in 1..n |-> g]
<1>1. g \in Item /\ g.do = "goodbye"
  BY EndItems DEF Session!Within
<1> HIDE DEF g
<1>2. s \in [1..n -> Item]
  BY <1>1
<1>3. s \in Seq(Item) /\ Len(s) = n
  BY <1>2, IsASeq, LenProperties
<1>4. \A i \in 1..Len(s) : s[i] = g
  BY <1>3
<1> QED BY <1>1, <1>3, <1>4 DEF g

\* Whoever asks whether the poll thread has ended has aborted its waiting.
LEMMA PastAbort ==
  ASSUME NEW s, EndShape(s), s # <<>>, s[1].do = "ended?"
  PROVE  ~Has(s, "abort")
<1> SUFFICES ASSUME NEW i \in 1..Len(s), s[i].do = "abort" PROVE FALSE
  BY DEF Has
<1>1. i # 1 /\ s \in Seq(Item)
  BY DEF EndShape, DoesOnly
<1>2. 1 \in 1..Len(s) /\ 1 < i
  BY <1>1, NothingPushed, SMT
<1>3. Rank("ended?") < Rank("abort")
  BY <1>2 DEF EndShape, Sorted
<1>4. Rank("ended?") = 12 /\ Rank("abort") = 11
  BY Ranks
<1> QED BY <1>3, <1>4, SMT

\* What a step at d of thread t, which destroys the session, does to the rest.
EndEffect(t, d) ==
  /\ UNCHANGED <<holds, running, waitingfordata, aborted, wrong>>
  /\ abortdesc' \in Nat /\ abortdesc' >= abortdesc
  /\ stop => stop' \/ d = "ended?"
  /\ d = "stop" => stop'
  /\ missed => missed'
  /\ d = "abort" => missed' \/ (waitingfordata /\ abortdesc' > 0)
  /\ d = "ended?" => ~running
  /\ rtptrans' = rtptrans \/ d \in {"close", "free"}
  /\ created' => created /\ d # "cleared"
  /\ \/ walking' = walking /\ d # "cleared"
     \/ walking' = walking \cup {t} /\ d = "clear"
     \/ walking' = walking \ {t} /\ d = "cleared"

\* A step of whoever destroys the session, by its effect.
LEMMA EndStep ==
  ASSUME SessionIInv, NEW t \in {"network", "control"}, EndShape(todo[t]),
         NEW d, Session!At(t, d), d \notin {"BYEDestroy", "Destroy"}, EndEffect(t, d),
         NEW more \in Seq(Item), \A i \in 1..Len(more) : more[i].do = "goodbye",
         more = <<>> \/ d = "bye", Session!Goes(t, more)
  PROVE  SessionIInv'
<1>1. todo[t] # <<>> /\ Head(todo[t]).do = d
  BY DEF Session!At
<1>2. d = todo[t][1].do
  BY <1>1, EndHead
<1>3. todo' = [todo EXCEPT ![t] = more \o Tail(@)]
  BY DEF Session!Goes
<1> HIDE DEF Session!At, Session!Goes
<1> QED BY <1>1, <1>2, <1>3, EndGoes DEF EndEffect

\* Whoever destroys the session.
LEMMA EndDoes ==
  ASSUME SessionIInv, Incoming, NEW t \in {"network", "control"}, EndShape(todo[t]), Session!Step(t)
  PROVE  SessionIInv'
<1> USE DEF Session!sessionVars, Session!pollVars, Session!transVars
<1>1. \A d : Session!At(t, d) => /\ todo[t] # <<>> /\ todo[t][1].do = d /\ d \in EndDos
                                 /\ Head(todo[t]) = todo[t][1]
  BY EndHead DEF Session!At
<1>2. <<>> \in Seq(Item) /\ \A i \in 1..Len(<<>>) : <<>>[i].do = "goodbye"
  BY NoItems
<1>3. abortdesc \in Nat /\ abortdesc >= abortdesc /\ t \in Session!Threads
  BY ThreadNames DEF SessionIInv, SessionTypes
<1>4. ~(Session!Locks(t) \/ Session!Unlocks(t) \/ Session!Passes(t) \/ Session!Sends(t) \/ Session!NotesSent(t))
  BY <1>1 DEF Session!Locks, Session!Unlocks, Session!Passes, Session!Sends, Session!NotesSent,
              Session!Does, EndDos
<1>5. ~Session!UsesDeleted(t)
  <2> SUFFICES ASSUME Session!UsesDeleted(t) PROVE FALSE
    OBVIOUS
  <2>1. todo[t] # <<>> /\ Session!Wants(t) # NULL /\ rtptrans # "created"
    BY Names DEF Session!UsesDeleted, Session!Wants, Session!Mutexes
  <2> QED BY <2>1, EndHead
<1>6. ASSUME Session!Begins(t) PROVE SessionIInv'
  <2> DEFINE w == IF created THEN Session!Calls[Head(todo[t]).do] ELSE <<>>
  <2>1. todo[t] # <<>> /\ Head(todo[t]).do \in DOMAIN Session!Calls
    BY <1>6 DEF Session!Begins
  <2>2. todo[t][1].do \in {"BYEDestroy", "Destroy"} /\ Head(todo[t]) = todo[t][1]
    BY <2>1, EndHead, CallsAre DEF EndDos
  <2>3. w \in Seq(Item) /\ Complete(w) /\ (created \/ \A i \in 1..Len(w) : w[i].do \in Bare)
    <3>1. \A x \in {Session!Destroy, Session!BYEDestroy} : Complete(x) /\ x \in Seq(Item)
      BY DestroyComplete DEF Complete, EndShape, DoesOnly
    <3>2. created => w \in {Session!Destroy, Session!BYEDestroy}
      BY <2>2, CallsAre
    <3>3. ~created => w = <<>>
      OBVIOUS
    <3> HIDE DEF w
    <3> QED BY <3>1, <3>2, <3>3, EmptyComplete, NoItems
  <2>4. /\ todo' = [todo EXCEPT ![t] = w \o Tail(@)]
        /\ UNCHANGED <<holds, created, walking, running, stop, rtptrans, missed, wrong>>
        /\ UNCHANGED <<waitingfordata, abortdesc, aborted>>
    BY <1>6 DEF Session!Begins, Session!Goes
  <2> HIDE DEF w
  <2>5. CASE t = "network"
    BY <2>1, <2>2, <2>3, <2>4, <2>5, NetSets
  <2>6. CASE t = "control"
    BY <2>1, <2>2, <2>3, <2>4, <2>6, ControlSets
  <2> QED BY <2>5, <2>6
<1>7. ASSUME Session!SaysGoodbye(t) PROVE SessionIInv'
  <2>1. Session!At(t, "goodbye") /\ Session!Goes(t, <<>>)
    BY <1>7 DEF Session!SaysGoodbye, Session!Does
  <2>2. EndEffect(t, "goodbye")
    BY <1>3, <1>7 DEF Session!SaysGoodbye, EndEffect
  <2> QED BY <1>2, <2>1, <2>2, EndStep
<1>8. ASSUME Session!Clears(t) PROVE SessionIInv'
  <2>1. CASE Session!Does(t, "clear") /\ walking' = walking \cup {t} /\ UNCHANGED created
    <3>1. EndEffect(t, "clear")
      BY <1>3, <1>8, <2>1 DEF Session!Clears, EndEffect
    <3> QED BY <1>2, <2>1, <3>1, EndStep DEF Session!Does
  <2>2. CASE Session!Does(t, "cleared") /\ walking' = walking \ {t} /\ created' = FALSE
    <3>1. EndEffect(t, "cleared")
      BY <1>3, <1>8, <2>2 DEF Session!Clears, EndEffect
    <3> QED BY <1>2, <2>2, <3>1, EndStep DEF Session!Does
  <2> QED BY <1>8, <2>1, <2>2 DEF Session!Clears
<1>9. ASSUME Session!TellsStop(t) PROVE SessionIInv'
  <2>1. Session!At(t, "stop") /\ Session!Goes(t, <<>>)
    BY <1>9 DEF Session!TellsStop, Session!Does
  <2>2. EndEffect(t, "stop")
    BY <1>3, <1>9 DEF Session!TellsStop, EndEffect
  <2> QED BY <1>2, <2>1, <2>2, EndStep
<1>10. ASSUME Session!AbortWait(t) PROVE SessionIInv'
  <2>1. /\ abortdesc' \in Nat /\ abortdesc' >= abortdesc
        /\ (missed => missed') /\ (missed' \/ (waitingfordata /\ abortdesc' > 0))
    <3>1. abortdesc + 1 \in Nat /\ abortdesc + 1 >= abortdesc /\ abortdesc + 1 > 0
      BY <1>3
    <3> QED BY <1>3, <1>10, <3>1 DEF Session!AbortWait
  <2>2. Session!At(t, "abort") /\ Session!Goes(t, <<>>)
    BY <1>10 DEF Session!AbortWait, Session!Does
  <2>3. EndEffect(t, "abort")
    BY <1>10, <2>1 DEF Session!AbortWait, EndEffect
  <2> QED BY <1>2, <2>2, <2>3, EndStep
<1>11. ASSUME Session!PollEnds(t) PROVE SessionIInv'
  <2>1. CASE ~running /\ Session!Does(t, "ended?") /\ UNCHANGED wrong
    <3>1. Session!At(t, "ended?") /\ Session!Goes(t, <<>>)
      BY <2>1 DEF Session!Does
    <3>2. EndEffect(t, "ended?")
      BY <1>3, <1>11, <2>1 DEF Session!PollEnds, EndEffect
    <3> QED BY <1>2, <3>1, <3>2, EndStep
  <2>2. CASE running /\ Session!Sleeps /\ Session!At(t, "ended?") /\ wrong' = "killed" /\ UNCHANGED <<todo, stop>>
    <3>1. Has(todo[t], "ended?") /\ ~Has(todo[t], "abort")
      <4>1. 1 \in 1..Len(todo[t]) /\ todo[t][1].do = "ended?" /\ todo[t] # <<>>
        BY <1>1, <1>3, <2>2, Heads
      <4> QED BY <4>1, PastAbort DEF Has
    <3>2. Has(todo["poll"], "select") /\ abortdesc = 0
      <4>1. todo["poll"] # <<>> /\ Head(todo["poll"]).do = "select" /\ abortdesc = 0
        BY <2>2 DEF Session!Sleeps, Session!At
      <4>2. 1 \in 1..Len(todo["poll"]) /\ todo["poll"][1].do = "select"
        BY <4>1, Heads, ThreadNames
      <4> QED BY <4>1, <4>2 DEF Has
    <3>3. missed
      <4>1. Ending(t)
        BY DEF SessionIInv
      <4>2. ~PollWoken
        BY <1>3, <3>2, SMT DEF PollWoken
      <4> QED BY <3>1, <4>1, <4>2 DEF Ending
    <3>4. UNCHANGED <<todo, holds, created, walking, running, stop, rtptrans, missed>>
          /\ UNCHANGED <<waitingfordata, abortdesc, aborted>>
      BY <1>11, <2>2 DEF Session!PollEnds
    <3> QED BY <2>2, <3>3, <3>4
        DEF SessionIInv, SessionTypes, Shapes, PollWaiting, Begun, SourcesHeld, Ending, PollWoken, Deleted,
            Clearing, Session!EndsCleanly
  <2> QED BY <1>11, <2>1, <2>2 DEF Session!PollEnds
<1>12. ASSUME Session!SendsByes(t) PROVE SessionIInv'
  <2>1. PICK n \in 0..byepackets + (IF sentpackets THEN 1 ELSE 0) :
          Session!Goes(t, [i \in 1..n |-> Session!Within("main", "goodbye")])
    BY <1>12 DEF Session!SendsByes
  <2> DEFINE more == [i \in 1..n |-> Session!Within("main", "goodbye")]
  <2>2. n \in Nat
    <3>1. byepackets + (IF sentpackets THEN 1 ELSE 0) \in Int
      BY DEF Incoming
    <3> QED BY <3>1
  <2>3. more \in Seq(Item) /\ \A i \in 1..Len(more) : more[i].do = "goodbye"
    BY <2>2, Goodbyes
  <2> HIDE DEF more
  <2>4. Session!Goes(t, more) /\ Session!At(t, "bye")
    BY <1>12, <2>1 DEF Session!SendsByes, more
  <2>5. EndEffect(t, "bye")
    BY <1>3, <1>12 DEF Session!SendsByes, EndEffect
  <2> QED BY <2>3, <2>4, <2>5, EndStep
<1>13. ASSUME Session!DeletesTransmitter(t) PROVE SessionIInv'
  <2>1. PICK d \in {"close", "free"} : Session!At(t, d) /\ Session!Goes(t, <<>>)
    BY <1>13 DEF Session!DeletesTransmitter, Session!Does
  <2>2. EndEffect(t, d)
    BY <1>3, <1>13, <2>1 DEF Session!DeletesTransmitter, EndEffect
  <2> QED BY <1>2, <2>1, <2>2, EndStep
<1> QED BY <1>4, <1>5, <1>6, <1>7, <1>8, <1>9, <1>10, <1>11, <1>12, <1>13 DEF Session!Step

\* What who creates and stops the session is at.
LEMMA EarlyHead ==
  ASSUME SessionIInv, EarlyShape(todo["control"]), todo["control"] # <<>>
  PROVE  /\ todo["control"][1].do \in EarlyDos /\ Head(todo["control"]) = todo["control"][1]
         /\ rtptrans # "created" => Session!Wants("control") = NULL
<1> DEFINE s == todo["control"]
<1>1. /\ 1 \in 1..Len(s) /\ Head(s) = s[1] /\ s[1] \in Item /\ s \in Seq(Item)
  BY Heads, ThreadNames
<1>2. s[1].do \in EarlyDos
  BY <1>1 DEF EarlyShape, DoesOnly
<1>3. rtptrans # "created" => s[1].do \in Bare
  BY <1>1 DEF SessionIInv, Deleted
<1>4. rtptrans # "created" => s[1].mutex = NULL
  BY <1>1, <1>3 DEF Item
<1> QED BY <1>1, <1>2, <1>4 DEF Session!Wants

\* Its steps that give nobody else work.
LEMMA EarlyStep ==
  ASSUME SessionIInv, EarlyShape(todo["control"]), NEW d, Session!At("control", d),
         d \notin {"start", "threads"}, d = "join" => todo["network"] = <<>>,
         NEW more \in Seq(Item), more = <<>> \/ (d = "AddDestination" /\ Len(more) = 1),
         \A i \in 1..Len(more) : more[i].do = "pass", Session!Goes("control", more),
         UNCHANGED <<holds, walking, running, stop, rtptrans, missed, wrong>>,
         UNCHANGED <<waitingfordata, abortdesc, aborted>>,
         created' <=> created \/ d = "created"
  PROVE  SessionIInv'
<1>1. todo["control"] # <<>> /\ Head(todo["control"]).do = d
  BY DEF Session!At
<1>2. d = todo["control"][1].do
  BY <1>1, EarlyHead
<1>3. todo' = [todo EXCEPT !["control"] = more \o Tail(@)]
  BY DEF Session!Goes
<1> HIDE DEF Session!At, Session!Goes
<1> QED BY <1>1, <1>2, <1>3, EarlyGoes

\* Who creates and stops the session, in calls of it.
LEMMA EarlyDoes ==
  ASSUME SessionIInv, EarlyShape(todo["control"]), Session!Step("control")
  PROVE  SessionIInv'
<1> USE DEF Session!sessionVars, Session!pollVars, Session!transVars
<1>1. \A d : Session!At("control", d) => d \in EarlyDos
  BY EarlyHead DEF Session!At
<1>2. <<>> \in Seq(Item) /\ \A i \in 1..Len(<<>>) : <<>>[i].do = "pass"
  BY NoItems
<1>3. ~(Session!Locks("control") \/ Session!Unlocks("control") \/ Session!Sends("control")
          \/ Session!NotesSent("control") \/ Session!SaysGoodbye("control") \/ Session!Clears("control")
          \/ Session!TellsStop("control") \/ Session!AbortWait("control") \/ Session!PollEnds("control")
          \/ Session!SendsByes("control") \/ Session!DeletesTransmitter("control"))
  BY <1>1 DEF Session!Locks, Session!Unlocks, Session!Sends, Session!NotesSent, Session!SaysGoodbye,
              Session!Clears, Session!TellsStop, Session!AbortWait, Session!PollEnds, Session!SendsByes,
              Session!DeletesTransmitter, Session!Does, EarlyDos
<1>4. ~Session!UsesDeleted("control")
  <2> SUFFICES ASSUME Session!UsesDeleted("control") PROVE FALSE
    OBVIOUS
  <2>1. todo["control"] # <<>> /\ Session!Wants("control") # NULL /\ rtptrans # "created"
    BY Names DEF Session!UsesDeleted, Session!Wants, Session!Mutexes
  <2> QED BY <2>1, EarlyHead
<1>5. ASSUME Session!Passes("control") PROVE SessionIInv'
  <2>1. /\ Session!At("control", "pass") /\ Session!Goes("control", <<>>)
        /\ UNCHANGED <<holds, created, walking, running, stop, rtptrans, missed, wrong>>
        /\ UNCHANGED <<waitingfordata, abortdesc, aborted>>
    BY <1>5 DEF Session!Passes, Session!Does
  <2>2. PICK d \in {"pass"} : d = "pass"
    OBVIOUS
  <2>3. d \notin {"start", "threads", "join"} /\ (created' <=> created \/ d = "created")
    BY <2>1, <2>2
  <2> QED BY <1>2, <2>1, <2>2, <2>3, EarlyStep
<1>6. ASSUME Session!Begins("control") PROVE SessionIInv'
  <2> DEFINE more == IF created THEN Session!Calls[Head(todo["control"]).do] ELSE <<>>
  <2>1. todo["control"] # <<>> /\ Head(todo["control"]).do \in DOMAIN Session!Calls /\ wrong = NULL
    BY <1>6 DEF Session!Begins
  <2>2. Head(todo["control"]).do = "AddDestination"
    BY <2>1, EarlyHead, CallsAre DEF EarlyDos
  <2>3. /\ Session!At("control", "AddDestination") /\ Session!Goes("control", more)
        /\ UNCHANGED <<created, holds, walking, running, stop, rtptrans, missed, wrong>>
        /\ UNCHANGED <<waitingfordata, abortdesc, aborted>>
    BY <1>6, <2>1, <2>2 DEF Session!Begins, Session!At
  <2>4. /\ more \in Seq(Item) /\ (more = <<>> \/ Len(more) = 1)
        /\ \A i \in 1..Len(more) : more[i].do = "pass"
    <3> DEFINE p == <<Session!Within("main", "pass")>>
    <3>1. Session!Within("main", "pass") \in Item /\ Session!Within("main", "pass").do = "pass"
      BY Items DEF Session!Within, Session!Mutexes, PollDos, Bare
    <3>2. p \in Seq(Item) /\ Len(p) = 1 /\ \A i \in 1..Len(p) : p[i] = Session!Within("main", "pass")
      BY <3>1, SMT
    <3>3. p \in Seq(Item) /\ Len(p) = 1 /\ \A i \in 1..Len(p) : p[i].do = "pass"
      BY <3>1, <3>2
    <3>4. more = p \/ more = <<>>
      BY <2>2, CallsAre
    <3> HIDE DEF p, more
    <3> QED BY <1>2, <3>3, <3>4
  <2> HIDE DEF more
  <2> QED BY <2>3, <2>4, EarlyStep
<1> QED BY <1>3, <1>4, <1>5, <1>6 DEF Session!Step

\* The end of InternalCreate, the threads, the stop, the join and the deletion.
LEMMA CreatorStep ==
  ASSUME SessionIInv, Incoming, Session!Creates \/ Session!StartsThreads \/ Session!StopsSession
  PROVE  SessionIInv'
<1> USE DEF Session!sessionVars, Session!pollVars, Session!transVars
<1> DEFINE s == todo["control"]
<1>1. \A d : Session!At("control", d) => s # <<>> /\ Head(s) = s[1] /\ s[1].do = d
  BY Heads, ThreadNames DEF Session!At
<1>2. \A d \in EarlyDos : Session!At("control", d) => EarlyShape(s)
  <2>1. \A d \in EarlyDos : d \notin EndDos
    BY DEF EarlyDos, EndDos
  <2>2. \A d : Session!At("control", d) /\ EndShape(s) => d \in EndDos
    BY <1>1, EndHead
  <2> QED BY <2>1, <2>2 DEF SessionIInv, Shapes
<1>3. <<>> \in Seq(Item) /\ \A i \in 1..Len(<<>>) : <<>>[i].do = "pass"
  BY NoItems
<1>4. ASSUME Session!Creates PROVE SessionIInv'
  <2>1. CASE Session!Does("control", "created")
    <3>1. /\ Session!At("control", "created") /\ Session!Goes("control", <<>>) /\ created'
          /\ UNCHANGED <<holds, walking, running, stop, rtptrans, missed, wrong>>
          /\ UNCHANGED <<waitingfordata, abortdesc, aborted>>
      BY <1>4, <2>1 DEF Session!Creates, Session!Does, Session!At
    <3>2. EarlyShape(s)
      BY <1>2, <3>1 DEF EarlyDos
    <3> QED BY <1>3, <3>1, <3>2, EarlyStep
  <2>2. CASE Session!At("control", "start")
    <3>1. s # <<>> /\ s[1].do = "start"
      BY <1>1, <2>2
    <3>2. /\ todo' = [todo EXCEPT !["control"] = Tail(@), !["poll"] = Session!PollRound] /\ running' = TRUE
          /\ UNCHANGED <<holds, created, walking, stop, rtptrans, missed, wrong>>
          /\ UNCHANGED <<waitingfordata, abortdesc, aborted>>
      BY <1>4, <2>2 DEF Session!Creates, Session!Does, Session!At
    <3> QED BY <3>1, <3>2, StartGoes
  <2> QED BY <1>4, <2>1, <2>2 DEF Session!Creates
<1>5. ASSUME Session!StartsThreads PROVE SessionIInv'
  <2>1. s # <<>> /\ s[1].do = "threads"
    BY <1>1, <1>5 DEF Session!StartsThreads
  <2> DEFINE w == (IF role = "receiver" THEN <<Session!Do("SendPacket")>> ELSE <<>>) \o <<Session!Do("begin")>>
             x == IF role = "receiver" THEN <<Session!Do("report")>> ELSE <<>>
  <2>2. /\ todo' = [todo EXCEPT !["control"] = Tail(@), !["network"] = w, !["sntp"] = x]
        /\ UNCHANGED <<holds, created, walking, running, stop, rtptrans, missed, wrong>>
        /\ UNCHANGED <<waitingfordata, abortdesc, aborted>>
    BY <1>5 DEF Session!StartsThreads
  <2>3. StreamShape(w)
    <3>1. <<>> \o <<Session!Do("begin")>> = <<Session!Do("begin")>>
      <4>1. <<Session!Do("begin")>> \in Seq(Item)
        BY BeginShapes DEF StreamShape, DoesOnly
      <4> QED BY <4>1, ConcatEmptySeq
    <3> QED BY <3>1, BeginShapes
  <2>4. SntpShape(x)
    BY BeginShapes
  <2> HIDE DEF w, x
  <2> QED BY <2>1, <2>2, <2>3, <2>4, ThreadsGo
<1>6. ASSUME Session!StopsSession PROVE SessionIInv'
  <2>1. CASE Session!At("control", "delete") /\ Session!Goes("control", <<Session!Do("Destroy")>>)
    <3>1. s # <<>> /\ s[1].do = "delete"
      BY <1>1, <2>1
    <3> DEFINE w == <<Session!Do("Destroy")>>
    <3>2. w \in Seq(Item) /\ Complete(w)
      BY CallComplete
    <3>3. \A i \in 1..Len(w) : w[i].do \in Bare
      <4>1. Session!Do("Destroy") \in Item
        BY Items DEF EndDos
      <4>2. \A i \in 1..Len(w) : w[i] = Session!Do("Destroy")
        BY <4>1, SMT
      <4> QED BY <4>2 DEF Session!Do, Bare
    <3> HIDE DEF w
    <3>4. /\ todo' = [todo EXCEPT !["control"] = w \o Tail(@)]
          /\ UNCHANGED <<holds, created, walking, running, stop, rtptrans, missed, wrong>>
          /\ UNCHANGED <<waitingfordata, abortdesc, aborted>>
      BY <1>6, <2>1 DEF Session!StopsSession, Session!Goes, w
    <3> QED BY <3>1, <3>2, <3>3, <3>4, ControlSets
  <2>2. CASE \/ Session!Does("control", "stopsession")
             \/ Session!Does("control", "join") /\ todo["network"] = <<>>
    <3>1. PICK d \in {"stopsession", "join"} :
            /\ Session!At("control", d) /\ Session!Goes("control", <<>>)
            /\ d = "join" => todo["network"] = <<>>
      BY <2>2 DEF Session!Does
    <3>2. EarlyShape(s)
      BY <1>2, <3>1 DEF EarlyDos
    <3>3. /\ UNCHANGED <<created, holds, walking, running, stop, rtptrans, missed, wrong>>
          /\ UNCHANGED <<waitingfordata, abortdesc, aborted>>
      BY <1>6 DEF Session!StopsSession
    <3> QED BY <1>3, <3>1, <3>2, <3>3, EarlyStep
  <2> QED BY <1>6, <2>1, <2>2 DEF Session!StopsSession
<1> QED BY <1>4, <1>5, <1>6

\* The rounds of the network thread.
LEMMA RoundShapes ==
  /\ StreamShape(<<Session!Do("round")>>)
  /\ StreamShape(Session!NetworkRound)
<1>1. /\ Session!Do("round") \in Item /\ Session!Do("SendPacket") \in Item
      /\ Session!Do("BeginDataAccess") \in Item /\ Session!Do("EndDataAccess") \in Item
      /\ Session!Do("round").do = "round" /\ Session!Do("SendPacket").do = "SendPacket"
      /\ Session!Do("BeginDataAccess").do = "BeginDataAccess"
      /\ Session!Do("EndDataAccess").do = "EndDataAccess"
  BY Items DEF StreamDos, Session!Do
<1>2. StreamShape(<<Session!Do("round")>>)
  <2> DEFINE s == <<Session!Do("round")>>
  <2>1. s \in Seq(Item) /\ Len(s) = 1 /\ s[1] = Session!Do("round")
    BY <1>1, SMT
  <2> HIDE DEF s
  <2>2. \A i \in 1..Len(s) : i = Len(s) /\ s[i].do = "round"
    BY <1>1, <2>1, SMT
  <2> QED BY <2>1, <2>2 DEF StreamShape, DoesOnly, GivesBack, Takes, StreamDos, s
<1>3. ASSUME NEW s \in Seq(Item), NEW n \in Nat, Len(s) = n + 3,
             \A i \in 1..n : s[i].do = "SendPacket",
             s[n + 1].do = "BeginDataAccess", s[n + 2].do = "EndDataAccess", s[n + 3].do = "round"
      PROVE  StreamShape(s)
  <2>1. ASSUME NEW i \in 1..Len(s)
        PROVE  \/ i \in 1..n /\ i # Len(s)
               \/ i = n + 1 /\ i # Len(s)
               \/ i = n + 2 /\ i # Len(s)
               \/ i = n + 3 /\ i = Len(s)
    BY <1>3, SMT
  <2>2. n + 2 \in n + 1 + 1..Len(s)
    BY <1>3, SMT
  <2>3. DoesOnly(s, StreamDos)
    BY <1>3, <2>1 DEF DoesOnly, StreamDos
  <2>4. GivesBack(s)
    <3>1. \A i \in 1..Len(s) : Takes(s[i]) => i = n + 1
      BY <1>3, <2>1 DEF Takes
    <3>2. Gives(s[n + 2])
      BY <1>3 DEF Gives
    <3> QED BY <2>2, <3>1, <3>2 DEF GivesBack
  <2>5. \A i \in 1..Len(s) : s[i].do \in {"begin", "round"} <=> i = Len(s)
    BY <1>3, <2>1
  <2> QED BY <2>3, <2>4, <2>5 DEF StreamShape
<1>4. StreamShape(Session!NetworkRound)
  <2> DEFINE s == Session!NetworkRound
  <2>1. CASE role = "sender"
    <3>1. /\ s \in Seq(Item) /\ Len(s) = 1 + 3 /\ s[1] = Session!Do("SendPacket")
          /\ s[1 + 1] = Session!Do("BeginDataAccess") /\ s[1 + 2] = Session!Do("EndDataAccess")
          /\ s[1 + 3] = Session!Do("round")
      BY <1>1, <2>1, SMT DEF Session!NetworkRound
    <3> HIDE DEF s
    <3>2. /\ s[1].do = "SendPacket" /\ s[1 + 1].do = "BeginDataAccess" /\ s[1 + 2].do = "EndDataAccess"
          /\ s[1 + 3].do = "round"
      BY <1>1, <3>1
    <3>3. \A i \in 1..1 : s[i].do = "SendPacket"
      BY <3>2, SMT
    <3> QED BY <1>3, <3>1, <3>2, <3>3, 1 \in Nat DEF s
  <2>2. CASE role # "sender"
    <3>1. s = <<Session!Do("BeginDataAccess"), Session!Do("EndDataAccess"), Session!Do("round")>>
      <4> DEFINE w == <<Session!Do("BeginDataAccess"), Session!Do("EndDataAccess"), Session!Do("round")>>
      <4>1. w \in Seq(Item)
        BY <1>1, SMT
      <4>2. s = <<>> \o w
        BY <2>2 DEF Session!NetworkRound
      <4> HIDE DEF w, s
      <4>3. s = w
        BY <4>1, <4>2, ConcatEmptySeq
      <4> QED BY <4>3 DEF w
    <3> HIDE DEF s
    <3>2. /\ s \in Seq(Item) /\ Len(s) = 0 + 3
          /\ s[0 + 1] = Session!Do("BeginDataAccess") /\ s[0 + 2] = Session!Do("EndDataAccess")
          /\ s[0 + 3] = Session!Do("round")
      BY <1>1, <3>1, SMT
    <3>3. /\ s[0 + 1].do = "BeginDataAccess" /\ s[0 + 2].do = "EndDataAccess"
          /\ s[0 + 3].do = "round"
      BY <1>1, <3>2
    <3>4. \A i \in 1..0 : s[i].do = "SendPacket"
      BY SMT
    <3> QED BY <1>3, <3>2, <3>3, <3>4, 0 \in Nat DEF s
  <2> QED BY <2>1, <2>2
<1> QED BY <1>2, <1>4

\* The network thread between its calls.
LEMMA NetworkStep ==
  ASSUME SessionIInv, Session!NetworkBegins \/ Session!NetworkRepeats
  PROVE  SessionIInv'
<1> USE DEF Session!sessionVars, Session!pollVars, Session!transVars
<1> DEFINE s == todo["network"]
<1>1. PICK d \in {"begin", "round"} : Session!At("network", d)
  BY DEF Session!NetworkBegins, Session!NetworkRepeats
<1>2. s # <<>> /\ s[1].do = d
  BY <1>1, Heads, ThreadNames DEF Session!At
<1>3. created
  <2>1. StreamShape(s)
    <3>1. EndShape(s) => d \in EndDos
      BY <1>2, EndHead
    <3> QED BY <3>1 DEF SessionIInv, Shapes, EndDos
  <2> QED BY <1>2, <2>1, StreamHead
<1>4. PICK w \in {<<>>, <<Session!Do("round")>>, Session!NetworkRound, <<Session!Do("BYEDestroy")>>} :
        Session!Goes("network", w)
  BY DEF Session!NetworkBegins, Session!NetworkRepeats
<1>5. w \in Seq(Item) /\ (Complete(w) \/ (StreamShape(w) /\ created))
  <2>1. StreamShape(w) => w \in Seq(Item)
    BY DEF StreamShape, DoesOnly
  <2> QED BY <1>3, <1>4, <2>1, EmptyComplete, CallComplete, RoundShapes, NoItems
<1>6. /\ todo' = [todo EXCEPT !["network"] = w \o Tail(@)]
      /\ UNCHANGED <<holds, created, walking, running, stop, rtptrans, missed, wrong>>
      /\ UNCHANGED <<waitingfordata, abortdesc, aborted>>
  BY <1>4 DEF Session!NetworkBegins, Session!NetworkRepeats, Session!Goes
<1> QED BY <1>2, <1>5, <1>6, NetSets

\* What the SNTP thread is at.
LEMMA SntpHead ==
  ASSUME SessionIInv, todo["sntp"] # <<>>
  PROVE  /\ todo["sntp"][1].do \in SntpDos /\ Head(todo["sntp"]) = todo["sntp"][1]
         /\ todo["sntp"] \in Seq(Item) /\ SntpShape(todo["sntp"])
<1>1. /\ 1 \in 1..Len(todo["sntp"]) /\ Head(todo["sntp"]) = todo["sntp"][1] /\ todo["sntp"] \in Seq(Item)
  BY Heads, ThreadNames
<1>2. SntpShape(todo["sntp"])
  BY DEF SessionIInv, Shapes
<1> QED BY <1>1, <1>2 DEF SntpShape, DoesOnly

\* A step of the SNTP thread.
LEMMA SntpSets ==
  ASSUME SessionIInv, todo["sntp"] # <<>>, NEW w, SntpShape(w), todo' = [todo EXCEPT !["sntp"] = w],
         UNCHANGED <<holds, walking, created, running, stop, rtptrans, missed, wrong>>,
         UNCHANGED <<waitingfordata, abortdesc, aborted>>
  PROVE  SessionIInv'
<1>1. w \in Seq(Item) /\ todo \in [Session!Threads -> Seq(Item)]
  BY DEF SntpShape, DoesOnly, SessionIInv, SessionTypes
<1>2. /\ todo' \in [Session!Threads -> Seq(Item)] /\ todo'["sntp"] = w
      /\ \A u \in Session!Threads \ {"sntp"} : todo'[u] = todo[u]
  BY <1>1, ThreadNames
<1>3. SntpShape(todo'["sntp"]) /\ StatsShape(todo'["stats"])
  BY <1>2, ThreadNames DEF SessionIInv, Shapes
<1>4. /\ holds' \in [Session!Mutexes -> Session!Threads \cup {NULL}]
      /\ holds'["sources"] = holds["sources"] /\ walking' \ {"stats"} = walking \ {"stats"}
  BY DEF SessionIInv, SessionTypes
<1> QED BY <1>2, <1>3, <1>4, OthersGo

\* The same, by what it gets more to do.
LEMMA SntpStep ==
  ASSUME SessionIInv, NEW d, Session!At("sntp", d), NEW more \in Seq(Item), Session!Goes("sntp", more),
         \A i \in 1..Len(more) : more[i].do \in SntpDos,
         d = "report" /\ more # <<>> => more[Len(more)].do = "report",
         UNCHANGED <<holds, walking, created, running, stop, rtptrans, missed, wrong>>,
         UNCHANGED <<waitingfordata, abortdesc, aborted>>
  PROVE  SessionIInv'
<1> DEFINE s == todo["sntp"]
           w == more \o Tail(s)
<1>1. s # <<>> /\ s[1].do = d /\ s \in Seq(Item) /\ SntpShape(s)
  BY SntpHead DEF Session!At
<1>2. SntpShape(w)
  BY <1>1, SntpPushes
<1>3. todo' = [todo EXCEPT !["sntp"] = w]
  BY DEF Session!Goes
<1> HIDE DEF w
<1> QED BY <1>1, <1>2, <1>3, SntpSets

\* The SNTP thread may use the transmitter after its deletion, and nobody else.
LEMMA SntpDoes ==
  ASSUME SessionIInv, Session!Step("sntp") \/ Session!Reports
  PROVE  SessionIInv'
<1> USE DEF Session!sessionVars, Session!pollVars, Session!transVars
<1> DEFINE s == todo["sntp"]
<1>1. \A d : Session!At("sntp", d) => d \in SntpDos /\ s # <<>> /\ s[1].do = d /\ Head(s) = s[1]
  BY SntpHead DEF Session!At
<1>2. <<>> \in Seq(Item) /\ \A i \in 1..Len(<<>>) : <<>>[i].do \in SntpDos
  BY NoItems
<1>3. ~(Session!Locks("sntp") \/ Session!Unlocks("sntp")
          \/ Session!SaysGoodbye("sntp") \/ Session!Clears("sntp")
          \/ Session!TellsStop("sntp") \/ Session!AbortWait("sntp") \/ Session!PollEnds("sntp")
          \/ Session!SendsByes("sntp") \/ Session!DeletesTransmitter("sntp"))
  BY <1>1 DEF Session!Locks, Session!Unlocks, Session!SaysGoodbye,
              Session!Clears, Session!TellsStop, Session!AbortWait, Session!PollEnds, Session!SendsByes,
              Session!DeletesTransmitter, Session!Does, SntpDos
<1>4. ASSUME Session!UsesDeleted("sntp") PROVE SessionIInv'
  <2>1. /\ UNCHANGED <<todo, holds, created, walking, running, stop, rtptrans, missed>>
        /\ UNCHANGED <<waitingfordata, abortdesc, aborted>> /\ wrong' = "sntp"
    BY <1>4 DEF Session!UsesDeleted
  <2> QED BY <2>1
      DEF SessionIInv, SessionTypes, Shapes, PollWaiting, Begun, SourcesHeld, Ending, PollWoken, Deleted,
          Clearing, Session!EndsCleanly
<1>5. ASSUME Session!Passes("sntp") \/ Session!NotesSent("sntp") PROVE SessionIInv'
  <2>1. PICK d \in {"pass", "sent"} : Session!At("sntp", d) /\ Session!Goes("sntp", <<>>)
    BY <1>5 DEF Session!Passes, Session!NotesSent, Session!Does
  <2>2. /\ UNCHANGED <<holds, walking, created, running, stop, rtptrans, missed, wrong>>
        /\ UNCHANGED <<waitingfordata, abortdesc, aborted>>
    BY <1>5 DEF Session!Passes, Session!NotesSent
  <2> QED BY <1>2, <2>1, <2>2, SntpStep
<1>6. ASSUME Session!Sends("sntp") PROVE SessionIInv'
  <2>1. /\ Session!At("sntp", "send")
        /\ todo' = [todo EXCEPT !["sntp"] = IF rtptrans = "created" THEN Tail(@) ELSE Tail(Tail(@))]
        /\ UNCHANGED <<holds, walking, created, running, stop, rtptrans, missed, wrong>>
        /\ UNCHANGED <<waitingfordata, abortdesc, aborted>>
    BY <1>6 DEF Session!Sends
  <2>2. s # <<>> /\ s[1].do = "send" /\ s \in Seq(Item) /\ SntpShape(s)
    BY <1>1, <2>1, SntpHead
  <2> HIDE DEF s
  <2>3. SntpShape(Tail(s)) /\ Tail(s) \in Seq(Item)
    <3>1. SntpShape(<<>> \o Tail(s)) /\ <<>> \o Tail(s) = Tail(s)
      BY <1>2, <2>2, SntpPushes, NothingPushed
    <3> QED BY <3>1 DEF SntpShape, DoesOnly
  <2>4. Tail(s) # <<>>
    <3>1. Len(s) \in Nat \ {0} /\ Len(Tail(s)) = Len(s) - 1
      BY <2>2, NothingPushed, HeadTailProperties
    <3>2. Len(s) > 0
      BY <3>1
    <3>3. s[Len(s)].do = "report"
      BY <2>2, <3>2 DEF SntpShape
    <3>4. Len(s) # 1
      BY <2>2, <3>3
    <3>5. Len(Tail(s)) # 0
      BY <3>1, <3>4
    <3> QED BY <2>3, <3>5, EmptySeq
  <2>5. SntpShape(Tail(Tail(s)))
    <3> DEFINE r == Tail(s)
    <3> HIDE DEF r
    <3>2. r \in Seq(Item) /\ r # <<>> /\ SntpShape(r)
      BY <2>3, <2>4 DEF r
    <3>3. SntpShape(<<>> \o Tail(r)) /\ <<>> \o Tail(r) = Tail(r)
      BY <1>2, <3>2, SntpPushes, NothingPushed
    <3> QED BY <3>3 DEF r
  <2>6. todo' = [todo EXCEPT !["sntp"] = Tail(s)] \/ todo' = [todo EXCEPT !["sntp"] = Tail(Tail(s))]
    BY <2>1 DEF s
  <2> QED BY <2>1, <2>2, <2>3, <2>5, <2>6, SntpSets DEF s
<1>7. ASSUME Session!Begins("sntp") PROVE SessionIInv'
  <2> DEFINE more == IF created THEN Session!Calls[Head(s).do] ELSE <<>>
  <2>1. s # <<>> /\ Head(s).do \in DOMAIN Session!Calls /\ wrong = NULL
    BY <1>7 DEF Session!Begins
  <2>2. Head(s).do = "SendRTCPAPPPacket"
    BY <2>1, SntpHead, CallsAre DEF SntpDos
  <2>3. /\ Session!At("sntp", "SendRTCPAPPPacket") /\ Session!Goes("sntp", more)
        /\ UNCHANGED <<created, holds, walking, running, stop, rtptrans, missed, wrong>>
        /\ UNCHANGED <<waitingfordata, abortdesc, aborted>>
    BY <1>7, <2>1, <2>2 DEF Session!Begins, Session!At
  <2>4. more \in Seq(Item) /\ \A i \in 1..Len(more) : more[i].do \in SntpDos
    <3> DEFINE p == Session!SendRTCPAPPPacket
    <3>1. /\ Session!Within("builder", "pass") \in Item /\ Session!Within("main", "send") \in Item
          /\ Session!Within("packsent", "sent") \in Item
      BY Items DEF Session!Mutexes, SntpDos, Bare
    <3>2. /\ p \in Seq(Item) /\ Len(p) = 3 /\ p[1] = Session!Within("builder", "pass")
          /\ p[2] = Session!Within("main", "send") /\ p[3] = Session!Within("packsent", "sent")
      BY <3>1, SMT DEF Session!SendRTCPAPPPacket
    <3> HIDE DEF p
    <3>3. \A i \in 1..Len(p) : i = 1 \/ i = 2 \/ i = 3
      BY <3>2, SMT
    <3>4. \A i \in 1..Len(p) : p[i].do \in SntpDos
      BY <3>2, <3>3 DEF SntpDos, Session!Within
    <3>5. more = p \/ more = <<>>
      BY <2>2, CallsAre DEF p
    <3> HIDE DEF more
    <3> QED BY <1>2, <3>2, <3>4, <3>5
  <2> HIDE DEF more
  <2> QED BY <2>3, <2>4, SntpStep
<1>8. ASSUME Session!Reports PROVE SessionIInv'
  <2> DEFINE p == <<Session!Do("SendRTCPAPPPacket"), Session!Do("report")>>
             more == IF runs THEN p ELSE <<>>
  <2>1. /\ Session!At("sntp", "report") /\ Session!Goes("sntp", more)
        /\ UNCHANGED <<created, holds, walking, running, stop, rtptrans, missed, wrong>>
        /\ UNCHANGED <<waitingfordata, abortdesc, aborted>>
    BY <1>8 DEF Session!Reports
  <2>2. /\ more \in Seq(Item) /\ \A i \in 1..Len(more) : more[i].do \in SntpDos
        /\ more # <<>> => more[Len(more)].do = "report"
    <3>1. /\ Session!Do("SendRTCPAPPPacket") \in Item /\ Session!Do("report") \in Item
          /\ Session!Do("SendRTCPAPPPacket").do = "SendRTCPAPPPacket" /\ Session!Do("report").do = "report"
      BY Items DEF SntpDos, Session!Do
    <3>2. /\ p \in Seq(Item) /\ Len(p) = 2 /\ p[1] = Session!Do("SendRTCPAPPPacket")
          /\ p[2] = Session!Do("report")
      BY <3>1, SMT
    <3> HIDE DEF p
    <3>3. \A i \in 1..Len(p) : i = 1 \/ i = 2
      BY <3>2, SMT
    <3>4. (\A i \in 1..Len(p) : p[i].do \in SntpDos) /\ p[Len(p)].do = "report"
      BY <3>1, <3>2, <3>3 DEF SntpDos
    <3>5. more = p \/ more = <<>>
      OBVIOUS
    <3> HIDE DEF more
    <3> QED BY <1>2, <3>2, <3>4, <3>5
  <2> HIDE DEF more
  <2> QED BY <2>1, <2>2, SntpStep
<1> QED BY <1>3, <1>4, <1>5, <1>6, <1>7, <1>8 DEF Session!Step

\* What the thread that shows statistics is at: nothing that a mutex guards.
LEMMA StatsHead ==
  ASSUME SessionIInv, todo["stats"] # <<>>
  PROVE  /\ todo["stats"][1].do \in StatsDos /\ Head(todo["stats"]) = todo["stats"][1]
         /\ todo["stats"][1].mutex = NULL /\ todo["stats"] \in Seq(Item) /\ StatsShape(todo["stats"])
<1> DEFINE s == todo["stats"]
<1>1. /\ 1 \in 1..Len(s) /\ Head(s) = s[1] /\ s[1] \in Item /\ s \in Seq(Item)
  BY Heads, ThreadNames
<1>2. StatsShape(s)
  BY DEF SessionIInv, Shapes
<1>3. s[1].do \in StatsDos
  BY <1>1, <1>2 DEF StatsShape, DoesOnly
<1>4. s[1].mutex = NULL
  BY <1>1, <1>3 DEF Item, Bare, StatsDos
<1> QED BY <1>1, <1>2, <1>3, <1>4

\* The thread that shows statistics.
LEMMA StatsDoes ==
  ASSUME SessionIInv, Session!Step("stats") \/ Session!Walks
  PROVE  SessionIInv'
<1> USE DEF Session!sessionVars, Session!pollVars, Session!transVars
<1> DEFINE s == todo["stats"]
<1>1. \A d : Session!At("stats", d) => d \in StatsDos /\ s # <<>> /\ s[1].do = d /\ Head(s) = s[1]
  BY StatsHead DEF Session!At
<1>2. ~(Session!Locks("stats") \/ Session!Unlocks("stats") \/ Session!Passes("stats")
          \/ Session!Sends("stats") \/ Session!NotesSent("stats")
          \/ Session!SaysGoodbye("stats") \/ Session!Clears("stats")
          \/ Session!TellsStop("stats") \/ Session!AbortWait("stats") \/ Session!PollEnds("stats")
          \/ Session!SendsByes("stats") \/ Session!DeletesTransmitter("stats"))
  BY <1>1 DEF Session!Locks, Session!Unlocks, Session!Passes, Session!Sends, Session!NotesSent,
              Session!SaysGoodbye,
              Session!Clears, Session!TellsStop, Session!AbortWait, Session!PollEnds, Session!SendsByes,
              Session!DeletesTransmitter, Session!Does, StatsDos
<1>3. ~Session!UsesDeleted("stats")
  BY StatsHead, Names DEF Session!UsesDeleted, Session!Wants, Session!Mutexes
<1>4. ~Session!Begins("stats")
  BY StatsHead, CallsAre DEF Session!Begins, StatsDos
<1>5. ASSUME Session!Walks PROVE SessionIInv'
  <2> DEFINE p == <<Session!Do("walked"), Session!Do("look")>>
  <2>1. PICK more \in {<<>>, p} : Session!Goes("stats", more)
    BY <1>5 DEF Session!Walks, Session!Does
  <2>2. s # <<>> /\ s \in Seq(Item) /\ StatsShape(s)
    BY <1>1, <1>5, StatsHead DEF Session!Walks, Session!Does
  <2>3. more \in Seq(Item) /\ \A i \in 1..Len(more) : more[i].do \in StatsDos
    <3>1. /\ Session!Do("walked") \in Item /\ Session!Do("look") \in Item
          /\ Session!Do("walked").do = "walked" /\ Session!Do("look").do = "look"
      BY Items DEF StatsDos, Session!Do
    <3>2. p \in Seq(Item) /\ \A i \in 1..Len(p) : p[i] \in {Session!Do("walked"), Session!Do("look")}
      BY <3>1, SMT
    <3>3. \A i \in 1..Len(p) : p[i].do \in StatsDos
      BY <3>1, <3>2 DEF StatsDos
    <3> HIDE DEF p
    <3> QED BY <2>1, <3>2, <3>3, NoItems
  <2> DEFINE w == more \o Tail(s)
  <2>4. StatsShape(w)
    <3>1. /\ w \in Seq(Item) /\ \A i \in 1..Len(more) : w[i] = more[i]
          /\ \A k \in 1..Len(w) : \/ k \in 1..Len(more)
                                  \/ /\ k > Len(more) /\ k - Len(more) + 1 \in 2..Len(s)
                                     /\ w[k] = s[k - Len(more) + 1]
      BY <2>2, <2>3, Pushes
    <3> HIDE DEF w
    <3>2. \A i \in 2..Len(s) : s[i].do \in StatsDos
      <4>1. \A i \in 2..Len(s) : i \in 1..Len(s)
        BY <2>2, SMT
      <4> QED BY <2>2, <4>1 DEF StatsShape, DoesOnly
    <3> QED BY <2>3, <3>1, <3>2 DEF StatsShape, DoesOnly
  <2>5. todo' = [todo EXCEPT !["stats"] = w] /\ w \in Seq(Item) /\ todo \in [Session!Threads -> Seq(Item)]
    BY <2>1, <2>4 DEF Session!Goes, StatsShape, DoesOnly, SessionIInv, SessionTypes
  <2> HIDE DEF w
  <2>6. /\ todo' \in [Session!Threads -> Seq(Item)] /\ todo'["stats"] = w
        /\ \A u \in Session!Threads \ {"stats"} : todo'[u] = todo[u]
    BY <2>5, ThreadNames
  <2>7. SntpShape(todo'["sntp"]) /\ StatsShape(todo'["stats"])
    BY <2>4, <2>6, ThreadNames DEF SessionIInv, Shapes
  <2>8. /\ holds' \in [Session!Mutexes -> Session!Threads \cup {NULL}]
        /\ holds'["sources"] = holds["sources"] /\ walking' \ {"stats"} = walking \ {"stats"}
        /\ UNCHANGED <<created, running, stop, rtptrans, missed, wrong>>
        /\ UNCHANGED <<waitingfordata, abortdesc, aborted>>
    BY <1>5 DEF Session!Walks, SessionIInv, SessionTypes
  <2> QED BY <2>6, <2>7, <2>8, OthersGo
<1> QED BY <1>2, <1>3, <1>4, <1>5 DEF Session!Step
-----------------------------------------------------------------------------
(* The invariant.                                                          *)

\* What arrives, waits and is read is of the kinds that can arrive.
LEMMA IncomingKept ==
  ASSUME Incoming, Session!Next
  PROVE  Incoming'
<1> USE DEF Session!sessionVars, Session!pollVars, Session!transVars, Incoming
<1>1. ASSUME NEW kind \in coming, Session!Arrives(kind) PROVE Incoming'
  <2>1. kind \in Kinds
    OBVIOUS
  <2>2. Append(socket, kind) \in Seq(Kinds)
    BY <2>1, AppendProperties
  <2> QED BY <1>1, <2>2 DEF Session!Arrives
<1>2. ASSUME NEW t \in Session!Threads, Session!Step(t) PROVE Incoming'
  <2>1. ASSUME Session!SaysGoodbye(t) PROVE Incoming'
    <3>1. byepackets - 1 \in Int
      OBVIOUS
    <3> QED BY <2>1, <3>1 DEF Session!SaysGoodbye
  <2>2. ASSUME Session!SendsByes(t) PROVE Incoming'
    <3>1. \A n \in 0..byepackets + (IF sentpackets THEN 1 ELSE 0) : n \in Int
      OBVIOUS
    <3> QED BY <2>2, <3>1 DEF Session!SendsByes
  <2>3. ASSUME Session!DeletesTransmitter(t) PROVE Incoming'
    <3>1. <<>> \in Seq(Kinds)
      BY SMT
    <3> QED BY <2>3, <3>1 DEF Session!DeletesTransmitter
  <2>4. ASSUME \/ Session!Locks(t) \/ Session!Unlocks(t) \/ Session!Passes(t) \/ Session!UsesDeleted(t)
               \/ Session!Begins(t) \/ Session!Sends(t) \/ Session!NotesSent(t) \/ Session!Clears(t)
               \/ Session!TellsStop(t) \/ Session!AbortWait(t) \/ Session!PollEnds(t)
        PROVE Incoming'
    <3>1. UNCHANGED <<coming, socket, rawpacketlist, byepackets>>
      BY <2>4 DEF Session!Locks, Session!Unlocks, Session!Passes, Session!UsesDeleted, Session!Begins,
                  Session!Sends, Session!NotesSent, Session!Clears, Session!TellsStop, Session!AbortWait,
                  Session!PollEnds
    <3> QED BY <3>1
  <2> QED BY <1>2, <2>1, <2>2, <2>3, <2>4 DEF Session!Step
<1>3. ASSUME Session!PollStep PROVE Incoming'
  <2>1. ASSUME Session!Poll PROVE Incoming'
    <3>1. rawpacketlist \o socket \in Seq(Kinds) /\ <<>> \in Seq(Kinds)
      BY ConcatProperties, SMT
    <3> QED BY <2>1, <3>1 DEF Session!Poll
  <2>2. ASSUME Session!GetNextPacket PROVE Incoming'
    <3>1. rawpacketlist # <<>> => Tail(rawpacketlist) \in Seq(Kinds)
      BY HeadTailProperties
    <3> QED BY <2>2, <3>1 DEF Session!GetNextPacket
  <2>3. ASSUME Session!Collides PROVE Incoming'
    <3>1. byepackets + 1 \in Int
      OBVIOUS
    <3> QED BY <2>3, <3>1 DEF Session!Collides
  <2>4. ASSUME \/ Session!PollDelay \/ Session!PollWaits \/ Session!CountsSources \/ Session!TimesOut
               \/ Session!IsTime \/ Session!PollRepeats
        PROVE Incoming'
    <3>1. UNCHANGED <<coming, socket, rawpacketlist, byepackets>>
      BY <2>4 DEF Session!PollDelay, Session!PollWaits, Session!CountsSources, Session!TimesOut,
                  Session!IsTime, Session!PollRepeats
    <3> QED BY <3>1
  <2> QED BY <1>3, <2>1, <2>2, <2>3, <2>4 DEF Session!PollStep
<1>4. ASSUME \/ Session!Creates \/ Session!StartsThreads \/ Session!StopsSession \/ Session!NetworkBegins
             \/ Session!NetworkRepeats \/ Session!Reports \/ Session!Walks
      PROVE Incoming'
  <2>1. UNCHANGED <<coming, socket, rawpacketlist, byepackets>>
    BY <1>4 DEF Session!Creates, Session!StartsThreads, Session!StopsSession, Session!NetworkBegins,
                Session!NetworkRepeats, Session!Reports, Session!Walks
  <2> QED BY <2>1
<1> QED BY <1>1, <1>2, <1>3, <1>4 DEF Session!Next

\* Every step keeps the invariant.
LEMMA SessionKept ==
  ASSUME SessionIInv, Incoming, Session!Next
  PROVE  SessionIInv'
<1>1. ASSUME NEW kind \in coming, Session!Arrives(kind) PROVE SessionIInv'
  <2>1. /\ UNCHANGED <<todo, holds, created, walking, running, stop, rtptrans, missed, wrong>>
        /\ UNCHANGED <<waitingfordata, abortdesc, aborted>>
    BY <1>1 DEF Session!Arrives, Session!sessionVars, Session!pollVars
  <2> QED BY <2>1
      DEF SessionIInv, SessionTypes, Shapes, PollWaiting, Begun, SourcesHeld, Ending, PollWoken, Deleted,
          Clearing, Session!EndsCleanly
<1>2. ASSUME NEW t \in Session!Threads, Session!Step(t) PROVE SessionIInv'
  <2>1. CASE t = "poll"
    BY <1>2, <2>1, PollCalls
  <2>2. CASE t = "network"
    BY <1>2, <2>2, NetworkStreams, EndDoes DEF SessionIInv, Shapes
  <2>3. CASE t = "control"
    BY <1>2, <2>3, EarlyDoes, EndDoes DEF SessionIInv, Shapes
  <2>4. CASE t = "sntp"
    BY <1>2, <2>4, SntpDoes
  <2>5. CASE t = "stats"
    BY <1>2, <2>5, StatsDoes
  <2> QED BY <2>1, <2>2, <2>3, <2>4, <2>5 DEF Session!Threads
<1> QED BY <1>1, <1>2, PollRounds, CreatorStep, NetworkStep, SntpDoes, StatsDoes DEF Session!Next

\* The program of who creates the session, of a sender or a receiver.
LEMMA CreationShape ==
  ASSUME NEW x \in {<<>>, <<Session!Do("AddDestination")>>}
  PROVE  LET s == <<Session!Do("start"), Session!Do("created")>> \o x
                    \o <<Session!Do("threads"), Session!Do("stopsession"), Session!Do("join"), Session!Do("delete")>>
         IN  EarlyShape(s) /\ Has(s, "created")
<1> DEFINE s == <<Session!Do("start"), Session!Do("created")>> \o x
                  \o <<Session!Do("threads"), Session!Do("stopsession"), Session!Do("join"), Session!Do("delete")>>
<1>1. /\ Session!Do("start") \in Item /\ Session!Do("created") \in Item /\ Session!Do("AddDestination") \in Item
      /\ Session!Do("threads") \in Item /\ Session!Do("stopsession") \in Item /\ Session!Do("join") \in Item
      /\ Session!Do("delete") \in Item
  BY Items DEF EarlyDos
<1>2. \A d : Session!Do(d).do = d
  BY DEF Session!Do
<1>3. x \in Seq(Item) /\ Len(x) \in {0, 1} /\ \A i \in 1..Len(x) : x[i] = Session!Do("AddDestination")
  <2>1. CASE x = <<>>
    <3>1. Len(<<>>) = 0
      BY SMT
    <3> QED BY <2>1, <3>1, NoItems
  <2>2. CASE x = <<Session!Do("AddDestination")>>
    BY <1>1, <2>2, SMT
  <2> QED BY <2>1, <2>2
<1> DEFINE n == Len(x)
<1>4. /\ s \in Seq(Item) /\ Len(s) = n + 6
      /\ s[1] = Session!Do("start") /\ s[2] = Session!Do("created")
      /\ \A i \in 1..n : s[i + 2] = x[i]
      /\ s[n + 3] = Session!Do("threads") /\ s[n + 4] = Session!Do("stopsession")
      /\ s[n + 5] = Session!Do("join") /\ s[n + 6] = Session!Do("delete")
  BY <1>1, <1>3, SMT
<1> HIDE DEF s, n
<1>5. n = 0 \/ n = 1
  BY <1>3 DEF n
<1>6. n = 1 => s[3] = Session!Do("AddDestination")
  <2> SUFFICES ASSUME n = 1 PROVE s[3] = Session!Do("AddDestination")
    OBVIOUS
  <2>1. 1 \in 1..n /\ 1 + 2 = 3
    OBVIOUS
  <2>2. s[1 + 2] = x[1] /\ x[1] = Session!Do("AddDestination")
    BY <1>3, <1>4, <2>1 DEF n
  <2> QED BY <2>1, <2>2
<1>7. /\ s[1].do = "start" /\ s[2].do = "created" /\ (n = 1 => s[3].do = "AddDestination")
      /\ s[n + 3].do = "threads" /\ s[n + 4].do = "stopsession" /\ s[n + 5].do = "join"
      /\ s[n + 6].do = "delete"
  BY <1>2, <1>4, <1>6
<1>8. \A i \in 1..Len(s) : \/ i = 1 \/ i = 2 \/ (i = 3 /\ n = 1) \/ i = n + 3 \/ i = n + 4 \/ i = n + 5
                           \/ i = n + 6
  BY <1>4, <1>5, SMT
<1>9. 1 \in 1..Len(s) /\ 2 \in 1..Len(s) /\ n + 3 \in 1..Len(s) /\ n + 5 \in 1..Len(s)
  BY <1>4, <1>5, SMT
<1>10. \A i \in 1..Len(s) : s[i].do \in EarlyDos
  BY <1>7, <1>8 DEF EarlyDos
<1>11. DoesOnly(s, EarlyDos)
  BY <1>4, <1>10 DEF DoesOnly
<1>12. Has(s, "threads") /\ Has(s, "join") /\ Has(s, "created")
  BY <1>7, <1>9 DEF Has
<1>13. /\ Rank(s[1].do) = 1 /\ Rank(s[2].do) = 2 /\ (n = 1 => Rank(s[3].do) = 4)
       /\ Rank(s[n + 3].do) = 5 /\ Rank(s[n + 4].do) = 6 /\ Rank(s[n + 5].do) = 7 /\ Rank(s[n + 6].do) = 8
  BY <1>7, Ranks
<1>14. \A i, j \in 1..Len(s) : i < j => Rank(s[i].do) < Rank(s[j].do)
  <2> DEFINE r(i) == Rank(s[i].do)
  <2>1. /\ r(1) = 1 /\ r(2) = 2 /\ (n = 1 => r(3) = 4)
        /\ r(n + 3) = 5 /\ r(n + 4) = 6 /\ r(n + 5) = 7 /\ r(n + 6) = 8
    BY <1>13
  <2> HIDE DEF r
  <2>2. \A i, j \in 1..Len(s) : i < j => r(i) < r(j)
    <3>1. CASE n = 0
      BY <1>8, <2>1, <3>1, SMT
    <3>2. CASE n = 1
      BY <1>8, <2>1, <3>2, SMT
    <3> QED BY <1>5, <3>1, <3>2
  <2> QED BY <2>2 DEF r
<1>15. EarlyShape(s)
  BY <1>11, <1>12, <1>14 DEF EarlyShape, Sorted
<1> QED BY <1>12, <1>15 DEF s

\* The invariant at the end of Create.
LEMMA SessionInit ==
  ASSUME Session!Init
  PROVE  SessionIInv /\ Incoming
<1>1. /\ todo["poll"] = <<>> /\ todo["network"] = <<>> /\ todo["sntp"] = <<>>
      /\ todo["stats"] = <<Session!Do("look")>>
  BY DEF Session!Init, Session!Threads
<1>2. EarlyShape(todo["control"]) /\ Has(todo["control"], "created")
  <2> DEFINE x == IF role = "receiver" THEN <<Session!Do("AddDestination")>> ELSE <<>>
  <2>1. x \in {<<>>, <<Session!Do("AddDestination")>>}
    OBVIOUS
  <2>2. todo["control"] =
          <<Session!Do("start"), Session!Do("created")>> \o x
            \o <<Session!Do("threads"), Session!Do("stopsession"), Session!Do("join"), Session!Do("delete")>>
    BY DEF Session!Init, Session!Threads
  <2> HIDE DEF x
  <2> QED BY <2>1, <2>2, CreationShape
<1>3. todo["stats"] \in Seq(Item) /\ StatsShape(todo["stats"])
  <2>1. Session!Do("look") \in Item /\ Session!Do("look").do = "look"
    BY Items DEF StatsDos, Session!Do
  <2> DEFINE p == <<Session!Do("look")>>
  <2>2. p \in Seq(Item) /\ \A i \in 1..Len(p) : p[i] = Session!Do("look")
    BY <2>1, SMT
  <2> HIDE DEF p
  <2>3. StatsShape(p) /\ p \in Seq(Item)
    BY <2>1, <2>2 DEF StatsShape, DoesOnly, StatsDos
  <2> QED BY <1>1, <2>3 DEF p
<1>5. PollShape(<<>>) /\ SntpShape(<<>>) /\ EndShape(<<>>)
  <2>1. <<>> \in Seq(Item) /\ \A i : i \notin 1..Len(<<>>)
    BY NoItems
  <2> QED BY <2>1, EmptyComplete, BeginShapes DEF PollShape, DoesOnly, GivesBack
<1>6. Shapes
  BY <1>1, <1>2, <1>3, <1>5 DEF Shapes
<1>7. SessionTypes
  <2>1. todo["control"] \in Seq(Item)
    BY <1>2 DEF EarlyShape, DoesOnly
  <2>2. DOMAIN todo = Session!Threads /\ \A t \in Session!Threads : todo[t] \in Seq(Item)
    BY <1>1, <1>3, <2>1, NoItems DEF Session!Init, Session!Threads
  <2>3. todo = [t \in Session!Threads |-> todo[t]]
    BY DEF Session!Init
  <2>4. todo \in [Session!Threads -> Seq(Item)]
    BY <2>2, <2>3
  <2>5. holds \in [Session!Mutexes -> Session!Threads \cup {NULL}] /\ abortdesc \in Nat
    BY DEF Session!Init
  <2> QED BY <2>4, <2>5 DEF SessionTypes
<1>8. PollWaiting
  BY <1>1 DEF PollWaiting, Session!Init
<1>9. Begun
  BY <1>1, <1>2, EmptyHas DEF Begun, Session!Init
<1>10. SourcesHeld
  <2>1. holds["sources"] = NULL
    BY ThreadNames DEF Session!Init
  <2> QED BY <2>1, Names, ThreadNames DEF SourcesHeld
<1>11. Ending("network") /\ Ending("control")
  <2>1. \A d \in {"ended?", "stop", "abort", "cleared"} : ~Has(todo["control"], d)
    <3>1. \A d \in {"ended?", "stop", "abort", "cleared"} : d \notin EarlyDos
      BY DEF EarlyDos
    <3> QED BY <1>2, <3>1 DEF EarlyShape, DoesOnly, Has
  <2> QED BY <1>1, <2>1, EmptyHas DEF Ending
<1>12. Deleted /\ Clearing /\ Session!EndsCleanly
  BY DEF Deleted, Clearing, Session!EndsCleanly, Session!Init
<1>13. Incoming
  <2>1. <<>> \in Seq(Kinds)
    BY SMT
  <2> QED BY <2>1 DEF Incoming, Session!Init, Kinds
<1> QED BY <1>6, <1>7, <1>8, <1>9, <1>10, <1>11, <1>12, <1>13 DEF SessionIInv

\* Who clears the source table is alone in it, but for the statistics.
LEMMA NobodyElse ==
  ASSUME SessionIInv
  PROVE  Session!OnlyStatisticsIntrude
<1>1. ASSUME NEW t \in walking \ {"stats"}
      PROVE  /\ t \in {"network", "control"} /\ walking \ {"stats"} = {t}
             /\ holds["sources"] \in {NULL, t}
  <2>1. /\ t \in {"network", "control"} /\ Has(todo[t], "cleared") /\ ~Has(todo[t], "ended?")
        /\ Ending(t)
    BY <1>1 DEF SessionIInv, Clearing
  <2>2. todo["poll"] = <<>>
    BY <2>1 DEF Ending
  <2>3. holds["sources"] # "poll"
    BY <2>2, NoItems DEF SessionIInv, SourcesHeld
  <2>4. EndShape(todo[t]) /\ todo[t] # <<>>
    <3>1. "cleared" \notin StreamDos \cup EarlyDos
      BY DEF StreamDos, EarlyDos
    <3>2. ~StreamShape(todo[t]) /\ ~EarlyShape(todo[t])
      BY <2>1, <3>1 DEF StreamShape, EarlyShape, DoesOnly, Has
    <3>3. todo[t] # <<>>
      BY <2>1, EmptyHas
    <3> QED BY <2>1, <3>2, <3>3 DEF SessionIInv, Shapes
  <2>5. holds["sources"] # "network"
    BY <2>1, <2>4, OneEnds
  <2>6. \A u \in walking \ {"stats"} : u = t
    <3> SUFFICES ASSUME NEW u \in walking \ {"stats"} PROVE u = t
      OBVIOUS
    <3>1. u \in {"network", "control"} /\ Has(todo[u], "cleared")
      BY DEF SessionIInv, Clearing
    <3>2. CASE t = "network"
      <4>1. ~Has(todo["control"], "cleared")
        BY <2>4, <3>2, OneEnds DEF EndDos
      <4> QED BY <3>1, <3>2, <4>1
    <3>3. CASE t = "control"
      <4>1. todo["network"] = <<>>
        BY <2>4, <3>3, OneEnds
      <4> QED BY <3>1, <3>3, <4>1, EmptyHas
    <3> QED BY <2>1, <3>2, <3>3
  <2> QED BY <1>1, <2>1, <2>3, <2>5, <2>6 DEF SessionIInv, SourcesHeld
<1>2. ASSUME NEW t \in Session!Users \ {"stats"}, NEW u \in Session!Users \ {"stats"}
      PROVE  t = u
  <2>1. /\ t \in walking \ {"stats"} \/ holds["sources"] = t
        /\ u \in walking \ {"stats"} \/ holds["sources"] = u
        /\ t # NULL \/ t \in walking \ {"stats"}
        /\ u # NULL \/ u \in walking \ {"stats"}
    BY Names DEF Session!Users
  <2>2. CASE t \in walking \ {"stats"}
    BY <1>1, <2>1, <2>2
  <2>3. CASE u \in walking \ {"stats"}
    BY <1>1, <2>1, <2>3
  <2>4. CASE holds["sources"] = t /\ holds["sources"] = u
    BY <2>4
  <2> QED BY <2>1, <2>2, <2>3, <2>4
<1> QED BY <1>2 DEF Session!OnlyStatisticsIntrude

\* RtpSession: the network thread, and who stops and deletes the session, get by with the poll
\* thread in every behaviour: only the SNTP thread uses the transmitter after its deletion
\* (RTPUDPv4Transmitter::SendRTCPData), a poll thread is only killed when the AbortWait of
\* RTPPollThread::Stop was missed, and nobody but the statistics is in the source table with another.
THEOREM SessionIsShared == ThreadsSpec => []SharesSafely
<1>1. ThreadsInit => SessionIInv /\ Incoming
  BY SessionInit DEF ThreadsInit
<1>2. ASSUME SessionIInv, Incoming, [ThreadsNext]_allVars
      PROVE  SessionIInv' /\ Incoming'
  <2>1. CASE Session!Next
    BY <1>2, <2>1, SessionKept, IncomingKept
  <2>2. CASE UNCHANGED sessionVars
    <3>1. /\ UNCHANGED <<todo, holds, created, walking, running, stop, rtptrans, missed, wrong>>
          /\ UNCHANGED <<waitingfordata, abortdesc, aborted, coming, socket, rawpacketlist, byepackets>>
      BY <2>2 DEF sessionVars
    <3> QED BY <1>2, <3>1
      DEF SessionIInv, SessionTypes, Shapes, PollWaiting, Begun, SourcesHeld, Ending, PollWoken, Deleted,
          Clearing, Session!EndsCleanly, Incoming
  <2> QED BY <1>2, <2>1, <2>2 DEF ThreadsNext, CodecWorks, SessionWorks, allVars
<1>3. SessionIInv => SharesSafely
  BY NobodyElse DEF SharesSafely, Session!SharesSafely, SessionIInv
<1> QED BY <1>1, <1>2, <1>3, PTL DEF ThreadsSpec

-----------------------------------------------------------------------------
(* The hash table of the sources.  Elements have places, in the order they *)
(* were added; the links of the list go to the neighbours among all, those *)
(* of a chain to the neighbours in the same bucket.                        *)

NextIn(S, place, e, f) ==
  \/ f = 0 /\ \A d \in S : place[d] <= place[e]
  \/ f \in S /\ place[e] < place[f] /\ \A d \in S : place[d] <= place[e] \/ place[f] <= place[d]

PreviousIn(S, place, e, f) ==
  \/ f = 0 /\ \A d \in S : place[e] <= place[d]
  \/ f \in S /\ place[f] < place[e] /\ \A d \in S : place[d] <= place[f] \/ place[e] <= place[d]

FirstIn(S, place, f) ==
  \/ f = 0 /\ S = {}
  \/ f \in S /\ \A d \in S : place[f] <= place[d]

LastIn(S, place, f) ==
  \/ f = 0 /\ S = {}
  \/ f \in S /\ \A d \in S : place[d] <= place[f]

Places(S, place) ==
  /\ S \subseteq Nat \ {0}
  /\ \A d \in S : place[d] \in Nat
  /\ \A d, e \in S : place[d] = place[e] => d = e

LEMMA NextWithout ==
  ASSUME NEW S, NEW place, Places(S, place), NEW x \in S, NEW p, NEW n,
         PreviousIn(S, place, x, p), NextIn(S, place, x, n), NEW e \in S, e # x, NEW f, NextIn(S, place, e, f)
  PROVE  NextIn(S \ {x}, place, e, IF e = p THEN n ELSE f)
<1>1. x \in Nat /\ x # 0 /\ e \in Nat /\ e # 0 /\ \A d \in S : place[d] \in Nat /\ d # 0
  BY DEF Places
<1>2. \A d \in S : place[d] = place[e] \/ place[d] = place[x] => d = e \/ d = x
  BY DEF Places
<1>3. CASE e = p
  <2>1. place[p] < place[x] /\ \A d \in S : place[d] <= place[p] \/ place[x] <= place[d]
    BY <1>1, <1>3 DEF PreviousIn
  <2>2. CASE n = 0
    <3>1. \A d \in S : place[d] <= place[x]
      BY <1>1, <2>2 DEF NextIn
    <3>2. \A d \in S \ {x} : place[d] <= place[p]
      BY <1>1, <1>2, <1>3, <2>1, <3>1
    <3> QED BY <1>3, <2>2, <3>2 DEF NextIn
  <2>3. CASE n # 0
    <3>1. n \in S /\ place[x] < place[n] /\ \A d \in S : place[d] <= place[x] \/ place[n] <= place[d]
      BY <2>3 DEF NextIn
    <3>2. \A d \in S \ {x} : place[d] <= place[p] \/ place[n] <= place[d]
      BY <1>1, <1>2, <1>3, <2>1, <3>1
    <3>3. n \in S \ {x} /\ place[p] < place[n]
      BY <1>1, <1>3, <2>1, <3>1
    <3> QED BY <1>3, <3>2, <3>3 DEF NextIn
  <2> QED BY <2>2, <2>3
<1>4. CASE e # p
  <2>1. ASSUME f = x PROVE FALSE
    <3>1. place[e] < place[x] /\ \A d \in S : place[d] <= place[e] \/ place[x] <= place[d]
      BY <1>1, <2>1 DEF NextIn
    <3>2. p \in S /\ place[p] < place[x] /\ (place[e] <= place[p] \/ place[x] <= place[e])
      BY <1>1, <3>1 DEF PreviousIn
    <3>3. place[e] = place[p]
      BY <1>1, <3>1, <3>2
    <3> QED BY <1>4, <3>2, <3>3 DEF Places
  <2> QED BY <1>1, <1>4, <2>1 DEF NextIn
<1> QED BY <1>3, <1>4

LEMMA PreviousWithout ==
  ASSUME NEW S, NEW place, Places(S, place), NEW x \in S, NEW p, NEW n,
         PreviousIn(S, place, x, p), NextIn(S, place, x, n), NEW e \in S, e # x, NEW f, PreviousIn(S, place, e, f)
  PROVE  PreviousIn(S \ {x}, place, e, IF e = n THEN p ELSE f)
<1>1. x \in Nat /\ x # 0 /\ e \in Nat /\ e # 0 /\ \A d \in S : place[d] \in Nat /\ d # 0
  BY DEF Places
<1>2. \A d \in S : place[d] = place[e] \/ place[d] = place[x] => d = e \/ d = x
  BY DEF Places
<1>3. CASE e = n
  <2>1. place[x] < place[n] /\ \A d \in S : place[d] <= place[x] \/ place[n] <= place[d]
    BY <1>1, <1>3 DEF NextIn
  <2>2. CASE p = 0
    <3>1. \A d \in S : place[x] <= place[d]
      BY <1>1, <2>2 DEF PreviousIn
    <3>2. \A d \in S \ {x} : place[n] <= place[d]
      BY <1>1, <1>2, <1>3, <2>1, <3>1
    <3> QED BY <1>3, <2>2, <3>2 DEF PreviousIn
  <2>3. CASE p # 0
    <3>1. p \in S /\ place[p] < place[x] /\ \A d \in S : place[d] <= place[p] \/ place[x] <= place[d]
      BY <2>3 DEF PreviousIn
    <3>2. \A d \in S \ {x} : place[d] <= place[p] \/ place[n] <= place[d]
      BY <1>1, <1>2, <1>3, <2>1, <3>1
    <3>3. p \in S \ {x} /\ place[p] < place[n]
      BY <1>1, <1>3, <2>1, <3>1
    <3> QED BY <1>3, <3>2, <3>3 DEF PreviousIn
  <2> QED BY <2>2, <2>3
<1>4. CASE e # n
  <2>1. ASSUME f = x PROVE FALSE
    <3>1. place[x] < place[e] /\ \A d \in S : place[d] <= place[x] \/ place[e] <= place[d]
      BY <1>1, <2>1 DEF PreviousIn
    <3>2. n \in S /\ place[x] < place[n] /\ (place[e] <= place[x] \/ place[n] <= place[e])
      BY <1>1, <3>1 DEF NextIn
    <3>3. place[e] = place[n]
      BY <1>1, <3>1, <3>2
    <3> QED BY <1>4, <3>2, <3>3 DEF Places
  <2> QED BY <1>1, <1>4, <2>1 DEF PreviousIn
<1> QED BY <1>3, <1>4

LEMMA LastWithout ==
  ASSUME NEW S, NEW place, Places(S, place), NEW x \in S, NEW p, NEW n,
         PreviousIn(S, place, x, p), NextIn(S, place, x, n), NEW l, LastIn(S, place, l)
  PROVE  /\ n = 0 <=> l = x
         /\ LastIn(S \ {x}, place, IF n = 0 THEN p ELSE l)
<1>1. x \in Nat /\ x # 0 /\ l \in S /\ \A d \in S : place[d] \in Nat /\ d # 0
  BY DEF Places, LastIn
<1>2. \A d \in S : place[d] = place[x] => d = x
  BY DEF Places
<1>3. n = 0 <=> l = x
  <2>1. \A d \in S : place[d] <= place[l]
    BY <1>1 DEF LastIn
  <2>2. ASSUME n = 0 PROVE l = x
    <3>1. place[l] <= place[x] /\ place[x] <= place[l]
      BY <1>1, <2>1, <2>2 DEF NextIn
    <3> QED BY <1>1, <1>2, <3>1
  <2>3. ASSUME n # 0 PROVE l # x
    <3>1. n \in S /\ place[x] < place[n] /\ place[n] <= place[l]
      BY <2>1, <2>3 DEF NextIn
    <3> QED BY <1>1, <3>1
  <2> QED BY <2>2, <2>3
<1>4. CASE n = 0
  <2>1. \A d \in S : place[d] <= place[x]
    BY <1>3, <1>4 DEF LastIn
  <2>2. CASE p = 0
    <3>1. S \ {x} = {}
      BY <1>1, <1>2, <2>1, <2>2 DEF PreviousIn
    <3> QED BY <1>4, <2>2, <3>1 DEF LastIn
  <2>3. CASE p # 0
    <3>1. p \in S /\ place[p] < place[x] /\ \A d \in S : place[d] <= place[p] \/ place[x] <= place[d]
      BY <2>3 DEF PreviousIn
    <3>2. \A d \in S \ {x} : place[d] <= place[p]
      BY <1>1, <1>2, <2>1, <3>1
    <3> QED BY <1>1, <1>4, <3>1, <3>2 DEF LastIn
  <2> QED BY <2>2, <2>3
<1>5. CASE n # 0
  BY <1>1, <1>3, <1>5 DEF LastIn
<1> QED BY <1>3, <1>4, <1>5

LEMMA FirstWithout ==
  ASSUME NEW S, NEW place, Places(S, place), NEW x \in S, NEW p, NEW n,
         PreviousIn(S, place, x, p), NextIn(S, place, x, n), NEW l, FirstIn(S, place, l)
  PROVE  /\ p = 0 <=> l = x
         /\ FirstIn(S \ {x}, place, IF p = 0 THEN n ELSE l)
<1>1. x \in Nat /\ x # 0 /\ l \in S /\ \A d \in S : place[d] \in Nat /\ d # 0
  BY DEF Places, FirstIn
<1>2. \A d \in S : place[d] = place[x] => d = x
  BY DEF Places
<1>3. p = 0 <=> l = x
  <2>1. \A d \in S : place[l] <= place[d]
    BY <1>1 DEF FirstIn
  <2>2. ASSUME p = 0 PROVE l = x
    <3>1. place[l] <= place[x] /\ place[x] <= place[l]
      BY <1>1, <2>1, <2>2 DEF PreviousIn
    <3> QED BY <1>1, <1>2, <3>1
  <2>3. ASSUME p # 0 PROVE l # x
    <3>1. p \in S /\ place[p] < place[x] /\ place[l] <= place[p]
      BY <2>1, <2>3 DEF PreviousIn
    <3> QED BY <1>1, <3>1
  <2> QED BY <2>2, <2>3
<1>4. CASE p = 0
  <2>1. \A d \in S : place[x] <= place[d]
    BY <1>3, <1>4 DEF FirstIn
  <2>2. CASE n = 0
    <3>1. S \ {x} = {}
      BY <1>1, <1>2, <2>1, <2>2 DEF NextIn
    <3> QED BY <1>4, <2>2, <3>1 DEF FirstIn
  <2>3. CASE n # 0
    <3>1. n \in S /\ place[x] < place[n] /\ \A d \in S : place[d] <= place[x] \/ place[n] <= place[d]
      BY <2>3 DEF NextIn
    <3>2. \A d \in S \ {x} : place[n] <= place[d]
      BY <1>1, <1>2, <2>1, <3>1
    <3> QED BY <1>1, <1>4, <3>1, <3>2 DEF FirstIn
  <2> QED BY <2>2, <2>3
<1>5. CASE p # 0
  BY <1>1, <1>3, <1>5 DEF FirstIn
<1> QED BY <1>4, <1>5

\* One that comes after all others.
ComesLast(S, place, n, later) ==
  /\ n \in Nat \ {0} /\ n \notin S /\ later[n] \in Nat
  /\ \A d \in S : later[d] = place[d] /\ place[d] < later[n]

LEMMA PlacesWith ==
  ASSUME NEW S, NEW place, Places(S, place), NEW n, NEW later, ComesLast(S, place, n, later)
  PROVE  Places(S \cup {n}, later)
<1>1. \A d \in S \cup {n} : later[d] \in Nat
  BY DEF Places, ComesLast
<1>2. \A d, e \in S : later[d] = later[e] => d = e
  BY DEF Places, ComesLast
<1>3. \A d \in S : later[d] < later[n]
  BY DEF ComesLast
<1>4. \A d \in S : later[d] # later[n]
  BY <1>1, <1>3
<1>5. S \cup {n} \subseteq Nat \ {0}
  BY DEF Places, ComesLast
<1> QED BY <1>1, <1>2, <1>4, <1>5 DEF Places

LEMMA LinksWith ==
  ASSUME NEW S, NEW place, Places(S, place), NEW n, NEW later, ComesLast(S, place, n, later),
         NEW l, LastIn(S, place, l)
  PROVE  /\ \A e \in S : \A f : NextIn(S, place, e, f) => NextIn(S \cup {n}, later, e, IF e = l THEN n ELSE f)
         /\ \A e \in S : \A f : PreviousIn(S, place, e, f) => PreviousIn(S \cup {n}, later, e, f)
         /\ NextIn(S \cup {n}, later, n, 0) /\ PreviousIn(S \cup {n}, later, n, l)
         /\ LastIn(S \cup {n}, later, n)
         /\ \A f : FirstIn(S, place, f) => FirstIn(S \cup {n}, later, IF f = 0 THEN n ELSE f)
<1>1. /\ n \in Nat /\ n # 0 /\ n \notin S /\ later[n] \in Nat
      /\ \A d \in S : d # 0 /\ place[d] \in Nat /\ later[d] = place[d] /\ later[d] < later[n] /\ d # n
  BY DEF Places, ComesLast
<1>2. \A d, e \in S : place[d] = place[e] => d = e
  BY DEF Places
<1>3. ASSUME NEW e \in S, NEW f, NextIn(S, place, e, f)
      PROVE  NextIn(S \cup {n}, later, e, IF e = l THEN n ELSE f)
  <2>1. CASE e = l
    <3>1. \A d \in S : place[d] <= place[e]
      BY <1>1, <2>1 DEF LastIn
    <3>2. \A d \in S \cup {n} : later[d] <= later[e] \/ later[n] <= later[d]
      BY <1>1, <3>1
    <3> QED BY <1>1, <2>1, <3>2 DEF NextIn
  <2>2. CASE e # l
    <3>1. l \in S /\ place[e] <= place[l] /\ place[e] # place[l]
      BY <1>1, <1>2, <2>2 DEF LastIn
    <3>2. f \in S /\ place[e] < place[f] /\ \A d \in S : place[d] <= place[e] \/ place[f] <= place[d]
      BY <1>1, <1>3, <3>1 DEF NextIn
    <3>3. \A d \in S \cup {n} : later[d] <= later[e] \/ later[f] <= later[d]
      BY <1>1, <3>2
    <3>4. f \in S \cup {n} /\ later[e] < later[f]
      BY <1>1, <3>2
    <3> QED BY <2>2, <3>3, <3>4 DEF NextIn
  <2> QED BY <2>1, <2>2
<1>4. ASSUME NEW e \in S, NEW f, PreviousIn(S, place, e, f)
      PROVE  PreviousIn(S \cup {n}, later, e, f)
  <2>1. later[e] <= later[n] /\ later[e] = place[e]
    BY <1>1
  <2>2. CASE f = 0
    <3>1. \A d \in S : place[e] <= place[d]
      BY <1>1, <1>4, <2>2 DEF PreviousIn
    <3>2. \A d \in S \cup {n} : later[e] <= later[d]
      BY <1>1, <2>1, <3>1
    <3> QED BY <2>2, <3>2 DEF PreviousIn
  <2>3. CASE f # 0
    <3>1. f \in S /\ place[f] < place[e] /\ \A d \in S : place[d] <= place[f] \/ place[e] <= place[d]
      BY <1>4, <2>3 DEF PreviousIn
    <3>2. \A d \in S \cup {n} : later[d] <= later[f] \/ later[e] <= later[d]
      BY <1>1, <2>1, <3>1
    <3>3. f \in S \cup {n} /\ later[f] < later[e]
      BY <1>1, <3>1
    <3> QED BY <3>2, <3>3 DEF PreviousIn
  <2> QED BY <2>2, <2>3
<1>5. \A d \in S \cup {n} : later[d] <= later[n]
  BY <1>1
<1>6. NextIn(S \cup {n}, later, n, 0) /\ LastIn(S \cup {n}, later, n)
  BY <1>5 DEF NextIn, LastIn
<1>7. PreviousIn(S \cup {n}, later, n, l)
  <2>1. CASE l = 0
    <3>1. S = {}
      BY <1>1, <2>1 DEF LastIn
    <3> QED BY <1>1, <2>1, <3>1 DEF PreviousIn
  <2>2. CASE l # 0
    <3>1. l \in S /\ \A d \in S : place[d] <= place[l]
      BY <2>2 DEF LastIn
    <3>2. \A d \in S \cup {n} : later[d] <= later[l] \/ later[n] <= later[d]
      BY <1>1, <3>1
    <3> QED BY <1>1, <3>1, <3>2 DEF PreviousIn
  <2> QED BY <2>1, <2>2
<1>8. ASSUME NEW f, FirstIn(S, place, f)
      PROVE  FirstIn(S \cup {n}, later, IF f = 0 THEN n ELSE f)
  <2>1. CASE f = 0
    <3>1. S = {}
      BY <1>1, <1>8, <2>1 DEF FirstIn
    <3> QED BY <1>1, <2>1, <3>1 DEF FirstIn
  <2>2. CASE f # 0
    <3>1. f \in S /\ \A d \in S : place[f] <= place[d]
      BY <1>8, <2>2 DEF FirstIn
    <3>2. \A d \in S \cup {n} : later[f] <= later[d]
      BY <1>1, <3>1
    <3> QED BY <2>2, <3>1, <3>2 DEF FirstIn
  <2> QED BY <2>1, <2>2
<1> QED BY <1>3, <1>4, <1>6, <1>7, <1>8

\* Only the places of the elements themselves count.
LEMMA LinksElsewhere ==
  ASSUME NEW S, NEW place, NEW later, \A d \in S : later[d] = place[d]
  PROVE  /\ \A e \in S : \A f : NextIn(S, place, e, f) => NextIn(S, later, e, f)
         /\ \A e \in S : \A f : PreviousIn(S, place, e, f) => PreviousIn(S, later, e, f)
         /\ \A f : LastIn(S, place, f) => LastIn(S, later, f)
<1>1. ASSUME NEW e \in S, NEW f, NextIn(S, place, e, f) PROVE NextIn(S, later, e, f)
  BY <1>1 DEF NextIn
<1>2. ASSUME NEW e \in S, NEW f, PreviousIn(S, place, e, f) PROVE PreviousIn(S, later, e, f)
  BY <1>2 DEF PreviousIn
<1>3. ASSUME NEW f, LastIn(S, place, f) PROVE LastIn(S, later, f)
  BY <1>3 DEF LastIn
<1> QED BY <1>1, <1>2, <1>3

-----------------------------------------------------------------------------
\* The elements in the order of their places, as the list goes through them.
Ordered(S, place, order) ==
  /\ order \in Seq(S)
  /\ \A i, j \in 1..Len(order) : i < j => place[order[i]] < place[order[j]]
  /\ \A d \in S : \E i \in 1..Len(order) : order[i] = d

LEMMA OrderedOnce ==
  ASSUME NEW S, NEW place, Places(S, place), NEW order, Ordered(S, place, order)
  PROVE  /\ Len(order) \in Nat /\ \A i \in 1..Len(order) : order[i] \in S /\ order[i] \in Nat /\ order[i] # 0
         /\ \A i, j \in 1..Len(order) : order[i] = order[j] => i = j
         /\ \A i, j \in 1..Len(order) : place[order[i]] < place[order[j]] => i < j
<1>1. order \in Seq(S) /\ Len(order) \in Nat
  BY DEF Ordered
<1>2. \A i \in 1..Len(order) : order[i] \in S
  BY <1>1
<1>3. \A i \in 1..Len(order) : order[i] \in Nat /\ order[i] # 0 /\ place[order[i]] \in Nat
  BY <1>2 DEF Places
<1>4. ASSUME NEW i \in 1..Len(order), NEW j \in 1..Len(order)
      PROVE  (order[i] = order[j] => i = j) /\ (place[order[i]] < place[order[j]] => i < j)
  <2>1. place[order[i]] \in Nat /\ place[order[j]] \in Nat
    BY <1>3
  <2>2. CASE i < j
    <3>1. place[order[i]] < place[order[j]]
      BY <2>2 DEF Ordered
    <3> QED BY <2>1, <2>2, <3>1
  <2>3. CASE j < i
    <3>1. place[order[j]] < place[order[i]]
      BY <2>3 DEF Ordered
    <3> QED BY <2>1, <3>1
  <2>4. CASE i = j
    BY <2>1, <2>4
  <2> QED BY <1>1, <2>2, <2>3, <2>4
<1> QED BY <1>1, <1>2, <1>3, <1>4

NextOf(order, i) == IF i = Len(order) THEN 0 ELSE order[i + 1]
PreviousOf(order, i) == IF i = 1 THEN 0 ELSE order[i - 1]
FirstOf(order) == IF Len(order) = 0 THEN 0 ELSE order[1]
LastOf(order) == IF Len(order) = 0 THEN 0 ELSE order[Len(order)]

LEMMA LinksFollowOrder ==
  ASSUME NEW S, NEW place, Places(S, place), NEW order, Ordered(S, place, order)
  PROVE  /\ \A i \in 1..Len(order) : \A f : NextIn(S, place, order[i], f) => f = NextOf(order, i)
         /\ \A i \in 1..Len(order) : \A f : PreviousIn(S, place, order[i], f) => f = PreviousOf(order, i)
         /\ \A f : FirstIn(S, place, f) => f = FirstOf(order)
         /\ \A f : LastIn(S, place, f) => f = LastOf(order)
<1> DEFINE n == Len(order)
<1>1. /\ n \in Nat /\ \A i \in 1..n : order[i] \in S
      /\ \A i, j \in 1..n : (order[i] = order[j] => i = j) /\ (place[order[i]] < place[order[j]] => i < j)
  BY OrderedOnce
<1>2. /\ \A i, j \in 1..n : i < j => place[order[i]] < place[order[j]]
      /\ \A d \in S : \E i \in 1..n : order[i] = d
  BY DEF Ordered
<1>3. \A i \in 1..n : place[order[i]] \in Nat /\ order[i] # 0
  BY <1>1 DEF Places
<1>4. ASSUME NEW i \in 1..n, NEW f, NextIn(S, place, order[i], f)
      PROVE  f = IF i = n THEN 0 ELSE order[i + 1]
  <2>1. CASE f = 0
    <3>1. ASSUME i # n PROVE FALSE
      <4>1. i + 1 \in 1..n /\ i < i + 1
        BY <1>1, <3>1
      <4>2. place[order[i]] < place[order[i + 1]] /\ order[i + 1] \in S
        BY <1>1, <1>2, <4>1
      <4>3. place[order[i + 1]] <= place[order[i]]
        BY <1>1, <1>3, <1>4, <2>1, <4>2 DEF NextIn, Places
      <4> QED BY <1>3, <4>1, <4>2, <4>3
    <3> QED BY <2>1, <3>1
  <2>2. CASE f # 0
    <3>1. f \in S /\ place[order[i]] < place[f] /\ \A d \in S : place[d] <= place[order[i]] \/ place[f] <= place[d]
      BY <1>4, <2>2 DEF NextIn
    <3>2. PICK j \in 1..n : order[j] = f
      BY <1>2, <3>1
    <3>3. i < j
      BY <1>1, <3>1, <3>2
    <3>4. i + 1 \in 1..n /\ i < i + 1
      BY <1>1, <3>3
    <3>5. place[order[i]] < place[order[i + 1]] /\ order[i + 1] \in S
      BY <1>1, <1>2, <3>4
    <3>6. ~(place[order[i + 1]] <= place[order[i]])
      BY <1>3, <3>4, <3>5
    <3>7. place[order[j]] <= place[order[i + 1]]
      BY <3>1, <3>2, <3>5, <3>6
    <3>8. ~(i + 1 < j)
      <4>1. ~(place[order[i + 1]] < place[order[j]])
        BY <1>3, <3>2, <3>4, <3>7
      <4> QED BY <1>2, <3>4, <4>1
    <3>9. j = i + 1 /\ i # n
      BY <1>1, <3>3, <3>8
    <3> QED BY <3>2, <3>9
  <2> QED BY <2>1, <2>2
<1>5. ASSUME NEW i \in 1..n, NEW f, PreviousIn(S, place, order[i], f)
      PROVE  f = IF i = 1 THEN 0 ELSE order[i - 1]
  <2>1. CASE f = 0
    <3>1. ASSUME i # 1 PROVE FALSE
      <4>1. i - 1 \in 1..n /\ i - 1 < i
        BY <1>1, <3>1
      <4>2. place[order[i - 1]] < place[order[i]] /\ order[i - 1] \in S
        BY <1>1, <1>2, <4>1
      <4>3. place[order[i]] <= place[order[i - 1]]
        BY <1>1, <1>3, <1>5, <2>1, <4>2 DEF PreviousIn, Places
      <4> QED BY <1>3, <4>1, <4>2, <4>3
    <3> QED BY <2>1, <3>1
  <2>2. CASE f # 0
    <3>1. f \in S /\ place[f] < place[order[i]] /\ \A d \in S : place[d] <= place[f] \/ place[order[i]] <= place[d]
      BY <1>5, <2>2 DEF PreviousIn
    <3>2. PICK j \in 1..n : order[j] = f
      BY <1>2, <3>1
    <3>3. j < i
      BY <1>1, <3>1, <3>2
    <3>4. i - 1 \in 1..n /\ i - 1 < i
      BY <1>1, <3>3
    <3>5. place[order[i - 1]] < place[order[i]] /\ order[i - 1] \in S
      BY <1>1, <1>2, <3>4
    <3>6. ~(place[order[i]] <= place[order[i - 1]])
      BY <1>3, <3>4, <3>5
    <3>7. place[order[i - 1]] <= place[order[j]]
      BY <3>1, <3>2, <3>5, <3>6
    <3>8. ~(j < i - 1)
      <4>1. ~(place[order[j]] < place[order[i - 1]])
        BY <1>3, <3>2, <3>4, <3>7
      <4> QED BY <1>2, <3>4, <4>1
    <3>9. j = i - 1 /\ i # 1
      BY <1>1, <3>3, <3>8
    <3> QED BY <3>2, <3>9
  <2> QED BY <2>1, <2>2
<1>6. ASSUME NEW f, FirstIn(S, place, f)
      PROVE  f = IF n = 0 THEN 0 ELSE order[1]
  <2>1. CASE n = 0
    <3>1. S = {}
      BY <1>2, <2>1
    <3> QED BY <1>6, <2>1, <3>1 DEF FirstIn
  <2>2. CASE n # 0
    <3>1. 1 \in 1..n /\ order[1] \in S
      BY <1>1, <2>2
    <3>2. f \in S /\ place[f] <= place[order[1]]
      BY <1>6, <3>1 DEF FirstIn
    <3>3. PICK j \in 1..n : order[j] = f
      BY <1>2, <3>2
    <3>4. ~(place[order[1]] < place[order[j]])
      BY <1>3, <3>1, <3>2, <3>3
    <3>5. j = 1
      BY <1>1, <1>2, <3>1, <3>4
    <3> QED BY <2>2, <3>3, <3>5
  <2> QED BY <2>1, <2>2
<1>7. ASSUME NEW f, LastIn(S, place, f)
      PROVE  f = IF n = 0 THEN 0 ELSE order[n]
  <2>1. CASE n = 0
    <3>1. S = {}
      BY <1>2, <2>1
    <3> QED BY <1>7, <2>1, <3>1 DEF LastIn
  <2>2. CASE n # 0
    <3>1. n \in 1..n /\ order[n] \in S
      BY <1>1, <2>2
    <3>2. f \in S /\ place[order[n]] <= place[f]
      BY <1>7, <3>1 DEF LastIn
    <3>3. PICK j \in 1..n : order[j] = f
      BY <1>2, <3>2
    <3>4. ~(place[order[j]] < place[order[n]])
      BY <1>3, <3>1, <3>2, <3>3
    <3>5. j = n
      BY <1>1, <1>2, <3>1, <3>4
    <3> QED BY <2>2, <3>3, <3>5
  <2> QED BY <2>1, <2>2
<1> QED BY <1>4, <1>5, <1>6, <1>7 DEF NextOf, PreviousOf, FirstOf, LastOf

-----------------------------------------------------------------------------
\* The natural numbers are well founded, which takes the place of induction.
LEMMA LeastNatural ==
  ASSUME NEW T \in SUBSET Nat, T # {}
  PROVE  \E x \in T : \A y \in T : x <= y
<1>1. PICK R : R = {ss \in Nat \X Nat : ss[1] < ss[2]}
  OBVIOUS
<1>2. IsWellFoundedOn(R, Nat)
  BY <1>1, NatLessThanWellFounded DEF OpToRel
<1>3. \A x, y \in Nat : y < x => <<y, x>> \in R
  BY <1>1
<1>4. PICK x \in T : \A y \in T : ~(<<y, x>> \in R)
  BY <1>2, WFMin
<1>5. \A y \in T : ~(y < x)
  BY <1>3, <1>4, Zenon
<1> QED BY <1>5

HashElements == [key : Keys, hashprev : Nat, hashnext : Nat, listprev : Nat, listnext : Nat]

Entries(els) ==
  /\ els \in [DOMAIN els -> HashElements] /\ DOMAIN els \subseteq Numbers
  /\ \A d, e \in DOMAIN els : els[d].key = els[e].key => d = e

InBucket(els, b) == {d \in DOMAIN els : Hash[els[d].key] = b}

\* The list through all elements.
Listed(els, place, first, last) ==
  /\ FirstIn(DOMAIN els, place, first) /\ LastIn(DOMAIN els, place, last)
  /\ \A e \in DOMAIN els :
       /\ NextIn(DOMAIN els, place, e, els[e].listnext)
       /\ PreviousIn(DOMAIN els, place, e, els[e].listprev)

\* The chain of each bucket, which begins with what was added last.
Chained(els, place, buckets) ==
  /\ buckets \in [Buckets -> Nat]
  /\ \A b \in Buckets : LastIn(InBucket(els, b), place, buckets[b])
  /\ \A e \in DOMAIN els :
       /\ PreviousIn(InBucket(els, Hash[els[e].key]), place, e, els[e].hashnext)
       /\ NextIn(InBucket(els, Hash[els[e].key]), place, e, els[e].hashprev)

WalkFrom(els, first) ==
  LET from[e \in {0} \cup Numbers] ==
        IF e \notin DOMAIN els THEN <<>> ELSE <<e>> \o from[els[e].listnext]
  IN from[first]

LEMMA NoNumber == 0 \notin Numbers /\ Numbers \subseteq Nat
  BY DEF Numbers

LEMMA FirstThenRest ==
  ASSUME NEW S, NEW s \in Seq(S), NEW i \in 1..Len(s)
  PROVE  SubSeq(s, i, Len(s)) = <<s[i]>> \o (IF i = Len(s) THEN <<>> ELSE SubSeq(s, i + 1, Len(s)))
<1>1. PICK n \in Nat : n = Len(s)
  OBVIOUS
<1>2. CASE i = n
  <2>1. PICK a : a = SubSeq(s, n, n)
    OBVIOUS
  <2>2. a \in Seq(S) /\ Len(a) = 1 /\ a[1] = s[n]
    BY <1>1, <1>2, <2>1
  <2>3. <<s[n]>> \in Seq(S) /\ Len(<<s[n]>>) = 1 /\ <<s[n]>>[1] = s[n]
    BY <1>1, <1>2
  <2>4. a = <<s[n]>>
    BY <2>2, <2>3, SeqEqual
  <2>5. SubSeq(s, i, n) = <<s[i]>>
    BY <1>2, <2>1, <2>4
  <2>6. <<s[i]>> \o <<>> = <<s[i]>>
    OBVIOUS
  <2> QED BY <1>1, <1>2, <2>5, <2>6
<1>3. CASE i # n
  <2>1. SubSeq(s, i, n) \in Seq(S) /\ Len(SubSeq(s, i, n)) = n - i + 1
    BY <1>1
  <2>2. SubSeq(s, i + 1, n) \in Seq(S) /\ Len(SubSeq(s, i + 1, n)) = n - i
    BY <1>1, <1>3
  <2>3. \A j \in 1..(n - i + 1) : SubSeq(s, i, n)[j] = s[i + j - 1]
    BY <1>1
  <2>4. \A j \in 1..(n - i) : SubSeq(s, i + 1, n)[j] = s[i + j]
    BY <1>1, <1>3
  <2>5. PICK r : r = SubSeq(s, i + 1, n)
    OBVIOUS
  <2>6. r \in Seq(S) /\ Len(r) = n - i /\ \A j \in 1..(n - i) : r[j] = s[i + j]
    BY <2>2, <2>4, <2>5
  <2>7. <<s[i]>> \o r \in Seq(S) /\ Len(<<s[i]>> \o r) = n - i + 1
    BY <1>1, <2>6
  <2>8. ASSUME NEW j \in 1..(n - i + 1) PROVE (<<s[i]>> \o r)[j] = s[i + j - 1]
    <3>1. CASE j = 1
      BY <1>1, <2>6, <3>1
    <3>2. CASE j # 1
      <4>1. j - 1 \in 1..(n - i) /\ i + (j - 1) = i + j - 1
        BY <1>1, <3>2
      <4>2. (<<s[i]>> \o r)[j] = r[j - 1]
        BY <1>1, <2>6, <3>2, <4>1
      <4> QED BY <2>6, <4>1, <4>2
    <3> QED BY <3>1, <3>2
  <2>9. SubSeq(s, i, n) = <<s[i]>> \o r
    <3>1. PICK a, c : a = SubSeq(s, i, n) /\ c = <<s[i]>> \o r
      OBVIOUS
    <3>2. a \in Seq(S) /\ Len(a) = n - i + 1 /\ \A j \in 1..(n - i + 1) : a[j] = s[i + j - 1]
      BY <2>1, <2>3, <3>1
    <3>3. c \in Seq(S) /\ Len(c) = n - i + 1 /\ \A j \in 1..(n - i + 1) : c[j] = s[i + j - 1]
      BY <2>7, <2>8, <3>1
    <3>4. a = c
      BY <3>2, <3>3, SeqEqual
    <3> QED BY <3>1, <3>4
  <2> QED BY <1>1, <1>3, <2>5, <2>9
<1> QED BY <1>2, <1>3

\* Who follows listnext from firsthashelem on comes past all elements, in order.
LEMMA WalkIsOrder ==
  ASSUME NEW els, Entries(els), NEW place, Places(DOMAIN els, place), NEW first, NEW last,
         Listed(els, place, first, last), NEW order, Ordered(DOMAIN els, place, order)
  PROVE  WalkFrom(els, first) = order
<1> DEFINE D == DOMAIN els
           n == Len(order)
           E == {0} \cup Numbers
           Follows(f) == f = [e \in E |-> IF e \notin D THEN <<>> ELSE <<e>> \o f[els[e].listnext]]
           suffix(i) == SubSeq(order, i, n)
<1>1. /\ n \in Nat /\ \A i \in 1..n : order[i] \in D
      /\ \A i, j \in 1..n : order[i] = order[j] => i = j
  BY OrderedOnce
<1>2. order \in Seq(D) /\ \A d \in D : \E i \in 1..n : order[i] = d
  BY DEF Ordered
<1>3. D \subseteq Numbers /\ 0 \notin D /\ \A e \in D : els[e].listnext \in E
  <2>1. D \subseteq Numbers /\ 0 \notin D
    BY NoNumber DEF Entries
  <2>2. \A e \in D : NextIn(D, place, e, els[e].listnext)
    BY DEF Listed
  <2>3. \A e \in D : els[e].listnext = 0 \/ els[e].listnext \in D
    BY <2>2 DEF NextIn
  <2> QED BY <2>1, <2>3
<1>4. \A i \in 1..n : els[order[i]].listnext = IF i = n THEN 0 ELSE order[i + 1]
  <2>1. \A i \in 1..n : NextIn(D, place, order[i], els[order[i]].listnext)
    BY <1>1 DEF Listed
  <2>2. \A i \in 1..n : els[order[i]].listnext = NextOf(order, i)
    BY <2>1, LinksFollowOrder, Zenon
  <2> QED BY <2>2 DEF NextOf
<1>5. first = IF n = 0 THEN 0 ELSE order[1]
  BY LinksFollowOrder DEF Listed, FirstOf
<1>6. \A i \in 1..n : suffix(i) = <<order[i]>> \o (IF i = n THEN <<>> ELSE suffix(i + 1))
  BY <1>2, FirstThenRest
<1> HIDE DEF suffix, E
<1>7. PICK at : at = [d \in D |-> CHOOSE i \in 1..n : order[i] = d]
  OBVIOUS
<1>8. \A i \in 1..n : at[order[i]] = i
  BY <1>1, <1>7
<1>9. \A d \in D : at[d] \in 1..n /\ order[at[d]] = d
  BY <1>2, <1>7
<1>10. \E f : Follows(f)
  <2>1. PICK g : g = [e \in E |-> IF e \in D THEN suffix(at[e]) ELSE <<>>]
    OBVIOUS
  <2>2. ASSUME NEW e \in E
        PROVE  g[e] = IF e \notin D THEN <<>> ELSE <<e>> \o g[els[e].listnext]
    <3>1. CASE e \notin D
      BY <2>1, <3>1
    <3>2. CASE e \in D
      <4>1. PICK i \in 1..n : e = order[i] /\ at[e] = i
        BY <1>8, <1>9, <3>2
      <4>2. g[e] = <<e>> \o (IF i = n THEN <<>> ELSE suffix(i + 1))
        BY <1>6, <2>1, <3>2, <4>1
      <4>3. CASE i = n
        <5>1. els[e].listnext = 0 /\ 0 \in E
          BY <1>4, <4>1, <4>3 DEF E
        <5>2. g[els[e].listnext] = <<>>
          BY <1>3, <2>1, <5>1
        <5> QED BY <3>2, <4>2, <4>3, <5>2
      <4>4. CASE i # n
        <5>1. i + 1 \in 1..n
          BY <1>1, <4>4
        <5>2. els[e].listnext = order[i + 1] /\ order[i + 1] \in D /\ at[order[i + 1]] = i + 1
          BY <1>1, <1>4, <1>8, <4>1, <4>4, <5>1
        <5>3. order[i + 1] \in E
          BY <1>3, <3>2, <5>2
        <5>4. g[els[e].listnext] = suffix(i + 1)
          BY <2>1, <5>2, <5>3
        <5> QED BY <3>2, <4>2, <4>4, <5>4
      <4> QED BY <4>3, <4>4
    <3> QED BY <3>1, <3>2
  <2>3. g = [e \in E |-> g[e]]
    BY <2>1
  <2> QED BY <2>2, <2>3
<1>11. PICK from : from = CHOOSE f : Follows(f)
  OBVIOUS
<1>12. Follows(from)
  <2> HIDE DEF Follows
  <2> QED BY <1>10, <1>11, Zenon
<1>13. \A e \in E : from[e] = IF e \notin D THEN <<>> ELSE <<e>> \o from[els[e].listnext]
  BY <1>12
<1>14. \A i \in 1..n : from[order[i]] = <<order[i]>> \o (IF i = n THEN <<>> ELSE from[order[i + 1]])
  <2> SUFFICES ASSUME NEW i \in 1..n
               PROVE  from[order[i]] = <<order[i]>> \o (IF i = n THEN <<>> ELSE from[order[i + 1]])
    OBVIOUS
  <2>1. order[i] \in E /\ order[i] \in D /\ 0 \in E
    BY <1>1, <1>3 DEF E
  <2>2. from[order[i]] = <<order[i]>> \o from[els[order[i]].listnext]
    BY <1>13, <2>1
  <2>3. from[0] = <<>>
    BY <1>3, <1>13, <2>1
  <2> QED BY <1>4, <2>2, <2>3
<1>15. n # 0 => from[order[1]] = suffix(1)
  <2> SUFFICES ASSUME n # 0, from[order[1]] # suffix(1) PROVE FALSE
    OBVIOUS
  <2> DEFINE Wrong == {m \in 0..(n - 1) : from[order[n - m]] # suffix(n - m)}
  <2>1. Wrong \in SUBSET Nat /\ Wrong # {}
    <3>1. PICK w \in 0..(n - 1) : n - w = 1
      <4>1. n - 1 \in 0..(n - 1) /\ n - (n - 1) = 1
        BY <1>1
      <4> QED BY <4>1
    <3>2. from[order[n - w]] # suffix(n - w)
      BY <3>1
    <3>3. w \in Wrong
      BY <3>2
    <3>4. Wrong \subseteq 0..(n - 1) /\ 0..(n - 1) \subseteq Nat
      <4>1. 0..(n - 1) \subseteq Nat
        OBVIOUS
      <4> QED BY <4>1
    <3> QED BY <3>3, <3>4
  <2>2. PICK m \in Wrong : \A k \in Wrong : m <= k
    BY <2>1, LeastNatural
  <2>3. m \in 0..(n - 1) /\ from[order[n - m]] # suffix(n - m) /\ n - m \in 1..n
    BY <1>1, <2>2
  <2>4. CASE m = 0
    <3>1. n \in 1..n /\ n - m = n
      BY <1>1, <2>3, <2>4
    <3>2. from[order[n]] = suffix(n)
      BY <1>6, <1>14, <3>1
    <3> QED BY <2>3, <3>1, <3>2
  <2>5. CASE m # 0
    <3>1. m - 1 \in 0..(n - 1) /\ ~(m <= m - 1) /\ n - (m - 1) = (n - m) + 1 /\ n - m # n
      BY <1>1, <2>3, <2>5
    <3>2. from[order[(n - m) + 1]] = suffix((n - m) + 1)
      BY <2>2, <3>1
    <3> QED BY <1>6, <1>14, <2>3, <3>1, <3>2
  <2> QED BY <2>4, <2>5
<1>16. from[first] = order
  <2>1. CASE n = 0
    <3>1. order = <<>> /\ first = 0 /\ 0 \in E
      BY <1>2, <1>5, <2>1 DEF E
    <3> QED BY <1>3, <1>13, <3>1
  <2>2. CASE n # 0
    <3>1. suffix(1) = order
      BY <1>1, <1>2 DEF suffix
    <3> QED BY <1>5, <1>15, <2>2, <3>1
  <2> QED BY <2>1, <2>2
<1> QED BY <1>11, <1>16 DEF WalkFrom, E

FindFrom(els, buckets, k) ==
  LET chain[e \in {0} \cup DOMAIN els] ==
        IF e = 0 THEN 0 ELSE IF els[e].key = k THEN e ELSE chain[els[e].hashnext]
  IN chain[buckets[Hash[k]]]

\* The element with a key, or 0.
HasKey(els, k, t) ==
  \/ t \in DOMAIN els /\ els[t].key = k
  \/ t = 0 /\ \A d \in DOMAIN els : els[d].key # k

\* Who follows hashnext through the chain of a key's bucket finds the element with this
\* key, if there is one.
LEMMA FindsKey ==
  ASSUME NEW els, Entries(els), NEW place, Places(DOMAIN els, place), NEW buckets,
         Chained(els, place, buckets), NEW k \in Keys, NEW t, HasKey(els, k, t)
  PROVE  FindFrom(els, buckets, k) = t
<1> DEFINE D == DOMAIN els
           E == {0} \cup D
           bucket(e) == Hash[els[e].key]
           Reaches(e) == e # 0 /\ t # 0 /\ bucket(e) = Hash[k] /\ place[t] <= place[e]
           Searches(f) ==
             f = [e \in E |-> IF e = 0 THEN 0 ELSE IF els[e].key = k THEN e ELSE f[els[e].hashnext]]
<1>1. /\ 0 \notin D /\ \A d \in D : d \in Nat /\ d # 0 /\ place[d] \in Nat
      /\ \A d, e \in D : place[d] = place[e] => d = e
      /\ \A d, e \in D : els[d].key = els[e].key => d = e
  BY DEF Places, Entries
<1>2. t # 0 => t \in D /\ els[t].key = k /\ bucket(t) = Hash[k]
  BY DEF HasKey
<1>3. \A e \in D : els[e].key = k <=> e = t
  BY <1>1 DEF HasKey
<1>4. ASSUME NEW e \in D
      PROVE  LET h == els[e].hashnext
             IN /\ h \in E /\ (h # 0 => bucket(h) = bucket(e) /\ place[h] < place[e])
                /\ \A d \in D : bucket(d) = bucket(e) /\ place[d] < place[e] =>
                     h # 0 /\ place[d] <= place[h]
  <2>1. PICK h : h = els[e].hashnext
    OBVIOUS
  <2>2. PreviousIn(InBucket(els, bucket(e)), place, e, h)
    BY <2>1 DEF Chained
  <2>3. h = 0 \/ (h \in D /\ bucket(h) = bucket(e) /\ place[h] < place[e])
    BY <2>2 DEF PreviousIn, InBucket
  <2>4. ASSUME NEW d \in D, bucket(d) = bucket(e), place[d] < place[e]
        PROVE  h # 0 /\ place[d] <= place[h]
    <3>1. d \in InBucket(els, bucket(e)) /\ ~(place[e] <= place[d])
      BY <1>1, <2>4 DEF InBucket
    <3>2. PICK S : S = InBucket(els, bucket(e))
      OBVIOUS
    <3>3. PreviousIn(S, place, e, h) /\ d \in S /\ ~(place[e] <= place[d])
      BY <2>2, <3>1, <3>2
    <3>4. 0 \notin S
      BY <1>1, <3>2 DEF InBucket
    <3> QED BY ONLY <3>3, <3>4 DEF PreviousIn
  <2> QED BY <1>1, <2>1, <2>3, <2>4
<1>5. ASSUME NEW e \in D, els[e].key # k
      PROVE  els[e].hashnext \in E /\ (Reaches(e) <=> Reaches(els[e].hashnext))
  <2>1. PICK h : h = els[e].hashnext
    OBVIOUS
  <2>2. /\ h \in E /\ (h # 0 => bucket(h) = bucket(e) /\ place[h] < place[e])
        /\ \A d \in D : bucket(d) = bucket(e) /\ place[d] < place[e] => h # 0 /\ place[d] <= place[h]
    BY <1>4, <2>1
  <2>3. ASSUME Reaches(e) PROVE Reaches(h)
    <3>1. t \in D /\ bucket(t) = bucket(e) /\ place[t] <= place[e] /\ t # e
      BY <1>2, <1>5, <2>3
    <3>2. place[t] < place[e]
      BY <1>1, <3>1
    <3>3. h # 0 /\ place[t] <= place[h] /\ bucket(h) = bucket(e)
      BY <2>2, <3>1, <3>2
    <3> QED BY <2>3, <3>3
  <2>4. ASSUME Reaches(h) PROVE Reaches(e)
    <3>1. t \in D /\ h \in D /\ bucket(h) = bucket(e) /\ place[h] < place[e] /\ place[t] <= place[h]
      BY <1>2, <2>2, <2>4
    <3>2. place[t] <= place[e] /\ e # 0
      BY <1>1, <3>1
    <3> QED BY <2>4, <3>1, <3>2
  <2> QED BY <2>1, <2>2, <2>3, <2>4
<1>6. Reaches(t) <=> t # 0
  BY <1>1, <1>2
<1>7. ~Reaches(0)
  OBVIOUS
<1> HIDE DEF Reaches
<1>8. \E f : Searches(f)
  <2>1. PICK g : g = [e \in E |-> IF Reaches(e) THEN t ELSE 0]
    OBVIOUS
  <2>2. ASSUME NEW e \in E
        PROVE  g[e] = IF e = 0 THEN 0 ELSE IF els[e].key = k THEN e ELSE g[els[e].hashnext]
    <3>1. CASE e = 0
      BY <1>7, <2>1, <3>1
    <3>2. CASE e # 0 /\ els[e].key = k
      BY <1>3, <1>6, <2>1, <3>2
    <3>3. CASE e # 0 /\ els[e].key # k
      BY <1>5, <2>1, <3>3
    <3> QED BY <3>1, <3>2, <3>3
  <2>3. g = [e \in E |-> g[e]]
    BY <2>1
  <2> QED BY <2>2, <2>3
<1>9. PICK chain : chain = CHOOSE f : Searches(f)
  OBVIOUS
<1>10. Searches(chain)
  <2> HIDE DEF Searches
  <2> QED BY <1>8, <1>9, Zenon
<1>11. \A e \in E : chain[e] = IF e = 0 THEN 0 ELSE IF els[e].key = k THEN e ELSE chain[els[e].hashnext]
  BY <1>10
<1>12. \A e \in D : Reaches(e) => chain[e] = t
  <2> SUFFICES ASSUME NEW x \in D, Reaches(x), chain[x] # t PROVE FALSE
    OBVIOUS
  <2> DEFINE Wrong == {place[d] : d \in {d \in D : Reaches(d) /\ chain[d] # t}}
  <2>1. Wrong \in SUBSET Nat /\ Wrong # {}
    BY <1>1
  <2>2. PICK p \in Wrong : \A q \in Wrong : p <= q
    BY <2>1, LeastNatural
  <2>3. PICK e \in D : p = place[e] /\ Reaches(e) /\ chain[e] # t
    BY <2>2
  <2>4. e # 0 /\ e \in E
    BY <1>1
  <2>5. els[e].key # k
    BY <1>3, <1>11, <2>3, <2>4
  <2>6. PICK h \in E : h = els[e].hashnext /\ Reaches(h) /\ chain[h] # t
    BY <1>5, <1>11, <2>3, <2>4, <2>5
  <2>7. h \in D /\ place[h] < place[e]
    BY <1>4, <1>7, <2>6
  <2>8. place[e] <= place[h]
    BY <2>2, <2>3, <2>6, <2>7
  <2> QED BY <1>1, <2>7, <2>8
<1>13. ASSUME t = 0 PROVE \A e \in E : chain[e] = 0
  <2>1. \A e \in D : els[e].key # k
    BY <1>1, <1>3, <1>13
  <2> SUFFICES ASSUME NEW x \in E, chain[x] # 0 PROVE FALSE
    OBVIOUS
  <2>2. chain[0] = 0
    BY <1>11
  <2> DEFINE Wrong == {place[d] : d \in {d \in D : chain[d] # 0}}
  <2>3. Wrong \in SUBSET Nat /\ Wrong # {}
    BY <1>1, <2>2
  <2>4. PICK p \in Wrong : \A q \in Wrong : p <= q
    BY <2>3, LeastNatural
  <2>5. PICK e \in D : p = place[e] /\ chain[e] # 0
    BY <2>4
  <2>6. PICK h : h = els[e].hashnext
    OBVIOUS
  <2>7. chain[h] # 0 /\ h \in E
    BY <1>1, <1>4, <1>11, <2>1, <2>5, <2>6
  <2>8. h \in D /\ place[h] < place[e]
    BY <1>4, <2>2, <2>6, <2>7
  <2>9. place[e] <= place[h]
    BY <2>4, <2>5, <2>7, <2>8
  <2> QED BY <1>1, <2>8, <2>9
<1>14. chain[buckets[Hash[k]]] = t
  <2>1. PICK l : l = buckets[Hash[k]]
    OBVIOUS
  <2>2. LastIn(InBucket(els, Hash[k]), place, l)
    BY <2>1 DEF Chained, Buckets
  <2>3. l \in E /\ (l # 0 => bucket(l) = Hash[k])
    BY <2>2 DEF LastIn, InBucket
  <2>4. CASE t = 0
    BY <1>13, <2>1, <2>3, <2>4
  <2>5. CASE t # 0
    <3>1. t \in InBucket(els, Hash[k])
      BY <1>2, <2>5 DEF InBucket
    <3>2. l \in InBucket(els, Hash[k]) /\ place[t] <= place[l]
      BY <2>2, <3>1 DEF LastIn
    <3>3. l \in D /\ Reaches(l)
      BY <1>1, <2>5, <3>2 DEF InBucket, Reaches
    <3> QED BY <1>12, <2>1, <3>3
  <2> QED BY <2>4, <2>5
<1> QED BY <1>9, <1>14 DEF FindFrom
-----------------------------------------------------------------------------
(* What the operations do to list and chains.                              *)

Stands(els, buckets, first, last, place, order) ==
  /\ Entries(els) /\ Places(DOMAIN els, place) /\ Ordered(DOMAIN els, place, order)
  /\ Listed(els, place, first, last) /\ Chained(els, place, buckets)

\* What an element that is added changes.
IsAdded(els, buckets, last, n, k, later) ==
  /\ later \in [DOMAIN els \cup {n} -> HashElements]
  /\ later[n].key = k /\ later[n].hashprev = 0 /\ later[n].hashnext = buckets[Hash[k]]
  /\ later[n].listprev = last /\ later[n].listnext = 0
  /\ \A e \in DOMAIN els :
       /\ later[e].key = els[e].key /\ later[e].hashnext = els[e].hashnext /\ later[e].listprev = els[e].listprev
       /\ later[e].hashprev = IF e = buckets[Hash[k]] THEN n ELSE els[e].hashprev
       /\ later[e].listnext = IF e = last THEN n ELSE els[e].listnext

LEMMA OrderedWith ==
  ASSUME NEW S, NEW place, Places(S, place), NEW order, Ordered(S, place, order),
         NEW n, NEW later, ComesLast(S, place, n, later)
  PROVE  Ordered(S \cup {n}, later, Append(order, n))
<1>1. PICK size, longer : size = Len(order) /\ longer = Append(order, n)
  OBVIOUS
<1>2. /\ size \in Nat /\ order \in Seq(S) /\ \A i \in 1..size : order[i] \in S
      /\ \A i, j \in 1..size : i < j => place[order[i]] < place[order[j]]
      /\ \A d \in S : \E i \in 1..size : order[i] = d
  BY <1>1, OrderedOnce DEF Ordered
<1>3. longer \in Seq(S \cup {n}) /\ Len(longer) = size + 1 /\ longer[size + 1] = n
      /\ \A i \in 1..size : longer[i] = order[i]
  BY <1>1, <1>2
<1>4. \A d \in S : later[d] = place[d] /\ later[d] < later[n]
  BY DEF ComesLast
<1>5. ASSUME NEW i \in 1..(size + 1), NEW j \in 1..(size + 1), i < j
      PROVE  later[longer[i]] < later[longer[j]]
  <2>1. i \in 1..size
    BY <1>2, <1>5
  <2>2. CASE j = size + 1
    BY <1>2, <1>3, <1>4, <2>1, <2>2
  <2>3. CASE j # size + 1
    <3>1. j \in 1..size
      BY <1>2, <2>3
    <3>2. longer[i] = order[i] /\ longer[j] = order[j] /\ order[i] \in S /\ order[j] \in S
      BY <1>2, <1>3, <2>1, <3>1
    <3>3. place[order[i]] < place[order[j]]
      BY <1>2, <1>5, <2>1, <3>1
    <3> QED BY <1>4, <3>2, <3>3
  <2> QED BY <2>2, <2>3
<1>6. ASSUME NEW d \in S \cup {n} PROVE \E i \in 1..(size + 1) : longer[i] = d
  <2>1. CASE d = n
    BY <1>2, <1>3, <2>1
  <2>2. CASE d # n
    <3>1. PICK i \in 1..size : order[i] = d
      BY <1>2, <2>2
    <3> QED BY <1>2, <1>3, <3>1
  <2> QED BY <2>1, <2>2
<1> QED BY <1>1, <1>3, <1>5, <1>6 DEF Ordered

LEMMA AddedStands ==
  ASSUME NEW els, NEW buckets, NEW first, NEW last, NEW place, NEW order,
         Stands(els, buckets, first, last, place, order),
         NEW k \in Keys, \A d \in DOMAIN els : els[d].key # k,
         NEW n \in Numbers, n \notin DOMAIN els, NEW later, IsAdded(els, buckets, last, n, k, later)
  PROVE  \E ways : Stands(later, [buckets EXCEPT ![Hash[k]] = n], IF first = 0 THEN n ELSE first, n, ways,
                          Append(order, n))
<1>1. PICK S, h : S = DOMAIN els /\ h = Hash[k]
  OBVIOUS
<1>2. /\ Places(S, place) /\ Ordered(S, place, order)
      /\ S \subseteq Nat \ {0} /\ n \in Nat \ {0} /\ n \notin S
      /\ \A d \in S : place[d] \in Nat
  BY <1>1, NoNumber DEF Stands, Places
<1>3. PICK p \in Nat : \A d \in S : place[d] < p
  <2>1. LastIn(S, place, last)
    BY <1>1 DEF Stands, Listed
  <2>2. CASE S = {}
    BY <2>2
  <2>3. CASE S # {}
    <3>1. last \in S /\ \A d \in S : place[d] <= place[last]
      BY <2>1, <2>3 DEF LastIn
    <3>2. place[last] + 1 \in Nat /\ \A d \in S : place[d] < place[last] + 1
      BY <1>2, <3>1
    <3> QED BY <3>2
  <2> QED BY <2>2, <2>3
<1>4. PICK ways : ways = [d \in S \cup {n} |-> IF d = n THEN p ELSE place[d]]
  OBVIOUS
<1>5. ComesLast(S, place, n, ways)
  BY <1>2, <1>3, <1>4 DEF ComesLast
<1>6. Places(S \cup {n}, ways) /\ Ordered(S \cup {n}, ways, Append(order, n))
  BY <1>2, <1>5, PlacesWith, OrderedWith
<1>7. DOMAIN later = S \cup {n}
  BY <1>1 DEF IsAdded
<1>8. Entries(later)
  <2>1. \A d, e \in S : els[d].key = els[e].key => d = e
    BY <1>1 DEF Stands, Entries
  <2>2. /\ \A d \in S : later[d].key = els[d].key /\ els[d].key # k
        /\ later[n].key = k
    BY <1>1 DEF IsAdded
  <2>3. \A d, e \in S \cup {n} : later[d].key = later[e].key => d = e
    BY <2>1, <2>2
  <2>4. later \in [S \cup {n} -> HashElements] /\ S \cup {n} \subseteq Numbers
    BY <1>1 DEF IsAdded, Stands, Entries
  <2> QED BY <1>7, <2>3, <2>4 DEF Entries
<1>9. Listed(later, ways, IF first = 0 THEN n ELSE first, n)
  <2>1. FirstIn(S, place, first) /\ LastIn(S, place, last)
    BY <1>1 DEF Stands, Listed
  <2>2. \A e \in S : NextIn(S, place, e, els[e].listnext) /\ PreviousIn(S, place, e, els[e].listprev)
    BY <1>1 DEF Stands, Listed
  <2>3. /\ \A e \in S : NextIn(S \cup {n}, ways, e, IF e = last THEN n ELSE els[e].listnext)
        /\ \A e \in S : PreviousIn(S \cup {n}, ways, e, els[e].listprev)
        /\ NextIn(S \cup {n}, ways, n, 0) /\ PreviousIn(S \cup {n}, ways, n, last)
        /\ LastIn(S \cup {n}, ways, n)
        /\ FirstIn(S \cup {n}, ways, IF first = 0 THEN n ELSE first)
    BY <1>2, <1>5, <2>1, <2>2, LinksWith
  <2>4. \A e \in S : /\ later[e].listnext = IF e = last THEN n ELSE els[e].listnext
                     /\ later[e].listprev = els[e].listprev
    BY <1>1 DEF IsAdded
  <2>5. later[n].listprev = last /\ later[n].listnext = 0
    BY DEF IsAdded
  <2> QED BY <1>7, <2>3, <2>4, <2>5 DEF Listed
<1>10. \A b : b # h => InBucket(later, b) = InBucket(els, b)
  BY <1>1, <1>2, <1>7 DEF InBucket, IsAdded
<1>11. InBucket(later, h) = InBucket(els, h) \cup {n}
  BY <1>1, <1>2, <1>7 DEF InBucket, IsAdded
<1>12. h \in Buckets /\ buckets \in [Buckets -> Nat]
  BY <1>1 DEF Buckets, Stands, Chained
<1>13. \A b : InBucket(els, b) \subseteq S
  BY <1>1 DEF InBucket
<1>14. PICK C, l : C = InBucket(els, h) /\ l = buckets[h]
  OBVIOUS
<1>15. /\ \A e \in C : NextIn(C \cup {n}, ways, e, IF e = l THEN n ELSE els[e].hashprev)
       /\ \A e \in C : PreviousIn(C \cup {n}, ways, e, els[e].hashnext)
       /\ NextIn(C \cup {n}, ways, n, 0) /\ PreviousIn(C \cup {n}, ways, n, l)
       /\ LastIn(C \cup {n}, ways, n)
  <2>1. LastIn(C, place, l)
    BY <1>12, <1>14 DEF Stands, Chained
  <2>2. ComesLast(C, place, n, ways) /\ Places(C, place)
    BY <1>2, <1>5, <1>13, <1>14 DEF ComesLast, Places
  <2>3. \A e \in C : NextIn(C, place, e, els[e].hashprev) /\ PreviousIn(C, place, e, els[e].hashnext)
    <3>1. \A e \in C : e \in S /\ Hash[els[e].key] = h
      BY <1>1, <1>14 DEF InBucket
    <3> QED BY <1>1, <1>14, <3>1 DEF Stands, Chained
  <2> QED BY <2>1, <2>2, <2>3, LinksWith
<1>16. \A e \in S : e = l => e \in C
  <2>1. LastIn(C, place, l)
    BY <1>12, <1>14 DEF Stands, Chained
  <2> QED BY <1>2, <2>1 DEF LastIn
<1>17. Chained(later, ways, [buckets EXCEPT ![h] = n])
  <2>1. [buckets EXCEPT ![h] = n] \in [Buckets -> Nat]
    BY <1>2, <1>12
  <2>2. ASSUME NEW b \in Buckets PROVE LastIn(InBucket(later, b), ways, [buckets EXCEPT ![h] = n][b])
    <3>1. CASE b = h
      BY <1>11, <1>12, <1>14, <1>15, <3>1
    <3>2. CASE b # h
      <4>1. LastIn(InBucket(els, b), place, buckets[b])
        BY DEF Stands, Chained
      <4>2. \A d \in InBucket(els, b) : ways[d] = place[d]
        BY <1>2, <1>4, <1>13
      <4>3. LastIn(InBucket(els, b), ways, buckets[b])
        BY <4>1, <4>2, LinksElsewhere
      <4> QED BY <1>10, <1>12, <3>2, <4>3
    <3> QED BY <3>1, <3>2
  <2>3. ASSUME NEW e \in S
        PROVE  /\ PreviousIn(InBucket(later, Hash[later[e].key]), ways, e, later[e].hashnext)
               /\ NextIn(InBucket(later, Hash[later[e].key]), ways, e, later[e].hashprev)
    <3>1. /\ later[e].key = els[e].key /\ later[e].hashnext = els[e].hashnext
          /\ later[e].hashprev = IF e = l THEN n ELSE els[e].hashprev
      BY <1>1, <1>14 DEF IsAdded
    <3>2. CASE Hash[els[e].key] = h
      <4>1. e \in C
        BY <1>1, <1>14, <3>2 DEF InBucket
      <4> QED BY <1>11, <1>14, <1>15, <3>1, <3>2, <4>1
    <3>3. CASE Hash[els[e].key] # h
      <4>1. PICK B : B = InBucket(els, Hash[els[e].key])
        OBVIOUS
      <4>2. e \notin C /\ e \in B
        BY <1>1, <1>14, <3>3, <4>1 DEF InBucket
      <4>3. PreviousIn(B, place, e, els[e].hashnext) /\ NextIn(B, place, e, els[e].hashprev)
        BY <1>1, <4>1 DEF Stands, Chained
      <4>4. \A d \in B : ways[d] = place[d]
        BY <1>2, <1>4, <1>13, <4>1
      <4>5. PreviousIn(B, ways, e, els[e].hashnext) /\ NextIn(B, ways, e, els[e].hashprev)
        BY <4>2, <4>3, <4>4, LinksElsewhere
      <4>6. later[e].hashprev = els[e].hashprev /\ InBucket(later, Hash[later[e].key]) = B
        BY <1>10, <1>16, <3>1, <3>3, <4>1, <4>2
      <4> QED BY <3>1, <4>5, <4>6
    <3> QED BY <3>2, <3>3
  <2>4. /\ PreviousIn(InBucket(later, Hash[later[n].key]), ways, n, later[n].hashnext)
        /\ NextIn(InBucket(later, Hash[later[n].key]), ways, n, later[n].hashprev)
    <3>1. later[n].key = k /\ later[n].hashprev = 0 /\ later[n].hashnext = l
      BY <1>1, <1>14 DEF IsAdded
    <3> QED BY <1>1, <1>11, <1>14, <1>15, <3>1
  <2>5. ASSUME NEW e \in DOMAIN later
        PROVE  /\ PreviousIn(InBucket(later, Hash[later[e].key]), ways, e, later[e].hashnext)
               /\ NextIn(InBucket(later, Hash[later[e].key]), ways, e, later[e].hashprev)
    BY <1>7, <2>3, <2>4
  <2> QED BY <2>1, <2>2, <2>5 DEF Chained
<1> QED BY <1>1, <1>6, <1>7, <1>8, <1>9, <1>17 DEF Stands

\* What an element that is deleted changes in those that stay.
IsDeleted(els, x, later) ==
  /\ later \in [DOMAIN els \ {x} -> HashElements]
  /\ \A e \in DOMAIN els \ {x} :
       /\ later[e].key = els[e].key
       /\ later[e].listnext = IF e = els[x].listprev THEN els[x].listnext ELSE els[e].listnext
       /\ later[e].listprev = IF e = els[x].listnext THEN els[x].listprev ELSE els[e].listprev
       /\ later[e].hashnext = IF e = els[x].hashprev THEN els[x].hashnext ELSE els[e].hashnext
       /\ later[e].hashprev = IF e = els[x].hashnext THEN els[x].hashprev ELSE els[e].hashprev

Without(s, i) == SubSeq(s, 1, i - 1) \o SubSeq(s, i + 1, Len(s))

\* The element that is at place j afterwards.
Closed(s, i, j) == IF j < i THEN s[j] ELSE s[j + 1]

LEMMA WithoutOne ==
  ASSUME NEW S, NEW s \in Seq(S), NEW i \in 1..Len(s)
  PROVE  /\ Without(s, i) \in Seq(S) /\ Len(Without(s, i)) = Len(s) - 1
         /\ \A j \in 1..(Len(s) - 1) : Without(s, i)[j] = Closed(s, i, j)
<1>1. PICK n, a, b : n = Len(s) /\ a = SubSeq(s, 1, i - 1) /\ b = SubSeq(s, i + 1, n)
  OBVIOUS
<1>2. n \in Nat /\ i \in 1..n /\ \A j \in 1..n : s[j] \in S
  BY <1>1
<1>3. a \in Seq(S) /\ Len(a) = i - 1 /\ \A j \in 1..(i - 1) : a[j] = s[j]
  BY <1>1, <1>2
<1>4. b \in Seq(S) /\ Len(b) = n - i /\ \A j \in 1..(n - i) : b[j] = s[i + j]
  BY <1>1, <1>2
<1>5. PICK c : c = a \o b
  OBVIOUS
<1>6. c \in Seq(S) /\ Len(c) = n - 1
  BY <1>2, <1>3, <1>4, <1>5
<1>7. ASSUME NEW j \in 1..(n - 1) PROVE c[j] = Closed(s, i, j)
  <2>1. CASE j < i
    <3>1. j \in 1..Len(a) /\ j \in 1..(i - 1)
      BY <1>2, <1>3, <2>1
    <3>2. c[j] = a[j]
      BY <1>3, <1>4, <1>5, <3>1
    <3> QED BY <1>3, <2>1, <3>1, <3>2 DEF Closed
  <2>2. CASE ~(j < i)
    <3>1. j - (i - 1) \in 1..(n - i) /\ i + (j - (i - 1)) = j + 1 /\ j = Len(a) + (j - (i - 1))
      BY <1>2, <1>3, <2>2
    <3>2. c[j] = b[j - (i - 1)]
      BY <1>2, <1>3, <1>4, <1>5, <2>2, <3>1
    <3>3. b[j - (i - 1)] = s[j + 1]
      BY <1>4, <3>1
    <3> QED BY <2>2, <3>2, <3>3 DEF Closed
  <2> QED BY <2>1, <2>2
<1> QED BY <1>1, <1>5, <1>6, <1>7 DEF Without

LEMMA OrderedWithout ==
  ASSUME NEW S, NEW place, Places(S, place), NEW order, Ordered(S, place, order),
         NEW i \in 1..Len(order), NEW x, x = order[i]
  PROVE  Ordered(S \ {x}, place, Without(order, i))
<1>1. PICK n, shorter : n = Len(order) /\ shorter = Without(order, i)
  OBVIOUS
<1>2. /\ n \in Nat /\ order \in Seq(S) /\ \A j \in 1..n : order[j] \in S
      /\ \A j, m \in 1..n : order[j] = order[m] => j = m
      /\ \A j, m \in 1..n : j < m => place[order[j]] < place[order[m]]
      /\ \A d \in S : \E j \in 1..n : order[j] = d
  BY <1>1, OrderedOnce DEF Ordered
<1>3. shorter \in Seq(S) /\ Len(shorter) = n - 1
      /\ \A j \in 1..(n - 1) : shorter[j] = Closed(order, i, j)
  <2>1. order \in Seq(S)
    BY <1>2
  <2>2. /\ Without(order, i) \in Seq(S) /\ Len(Without(order, i)) = Len(order) - 1
        /\ \A j \in 1..(Len(order) - 1) : Without(order, i)[j] = Closed(order, i, j)
    BY ONLY i \in 1..Len(order), <2>1, WithoutOne
  <2> QED BY <1>1, <2>2
<1>4. PICK from : from = [j \in 1..(n - 1) |-> IF j < i THEN j ELSE j + 1]
  OBVIOUS
<1>5. /\ \A j \in 1..(n - 1) : from[j] \in 1..n /\ from[j] # i /\ shorter[j] = order[from[j]]
      /\ \A j, m \in 1..(n - 1) : j < m => from[j] < from[m]
  <2>1. \A j \in 1..(n - 1) : from[j] \in 1..n /\ from[j] # i
    BY <1>1, <1>2, <1>4
  <2>2. \A j \in 1..(n - 1) : shorter[j] = order[from[j]]
    BY <1>3, <1>4 DEF Closed
  <2>3. \A j, m \in 1..(n - 1) : j < m => from[j] < from[m]
    BY <1>1, <1>2, <1>4
  <2> QED BY <2>1, <2>2, <2>3
<1>6. \A j \in 1..(n - 1) : shorter[j] \in S \ {x}
  BY <1>1, <1>2, <1>5
<1>7. shorter \in Seq(S \ {x})
  <2>1. shorter = [j \in 1..(n - 1) |-> shorter[j]] /\ n - 1 \in Nat
    BY <1>1, <1>2, <1>3
  <2> QED BY <1>6, <2>1
<1>8. ASSUME NEW j \in 1..(n - 1), NEW m \in 1..(n - 1), j < m
      PROVE  place[shorter[j]] < place[shorter[m]]
  <2>1. from[j] \in 1..n /\ from[m] \in 1..n /\ from[j] < from[m]
    BY <1>5, <1>8
  <2>2. place[order[from[j]]] < place[order[from[m]]]
    BY <1>2, <2>1
  <2> QED BY <1>5, <2>2
<1>9. ASSUME NEW d \in S \ {x} PROVE \E j \in 1..(n - 1) : shorter[j] = d
  <2>1. PICK m \in 1..n : order[m] = d
    BY <1>2
  <2>2. m # i
    BY <2>1
  <2>3. CASE m < i
    <3>1. m \in 1..(n - 1)
      BY <1>1, <1>2, <2>3
    <3> QED BY <1>3, <2>1, <2>3, <3>1 DEF Closed
  <2>4. CASE ~(m < i)
    <3>1. m - 1 \in 1..(n - 1) /\ ~(m - 1 < i) /\ (m - 1) + 1 = m
      BY <1>1, <1>2, <2>2, <2>4
    <3> QED BY <1>3, <2>1, <3>1 DEF Closed
  <2> QED BY <2>3, <2>4
<1> QED BY <1>1, <1>3, <1>7, <1>8, <1>9 DEF Ordered

LEMMA DeletedStands ==
  ASSUME NEW els, NEW buckets, NEW first, NEW last, NEW place, NEW order,
         Stands(els, buckets, first, last, place, order),
         NEW i \in 1..Len(order), NEW x, x = order[i], NEW later, IsDeleted(els, x, later)
  PROVE  Stands(later,
                IF els[x].hashprev = 0 THEN [buckets EXCEPT ![Hash[els[x].key]] = els[x].hashnext] ELSE buckets,
                IF els[x].listprev = 0 THEN els[x].listnext ELSE first,
                IF els[x].listnext = 0 THEN els[x].listprev ELSE last, place, Without(order, i))
<1>1. PICK S, h : S = DOMAIN els /\ h = Hash[els[x].key]
  OBVIOUS
<1>2. PICK hn, hp, ln, lp :
        hn = els[x].hashnext /\ hp = els[x].hashprev /\ ln = els[x].listnext /\ lp = els[x].listprev
  OBVIOUS
<1>3. /\ Places(S, place) /\ Ordered(S, place, order) /\ x \in S /\ 0 \notin S
      /\ \A d \in S : place[d] \in Nat
  <2>1. Places(S, place) /\ Ordered(S, place, order)
    BY <1>1 DEF Stands
  <2> QED BY <2>1, OrderedOnce DEF Places
<1>4. DOMAIN later = S \ {x} /\ Places(S \ {x}, place) /\ Ordered(S \ {x}, place, Without(order, i))
  <2>1. DOMAIN later = S \ {x}
    BY <1>1 DEF IsDeleted
  <2>2. Places(S \ {x}, place)
    BY <1>3 DEF Places
  <2> QED BY <1>3, <2>1, <2>2, OrderedWithout
<1>5. Entries(later)
  <2>1. \A d, e \in S : els[d].key = els[e].key => d = e
    BY <1>1 DEF Stands, Entries
  <2>2. \A d \in S \ {x} : later[d].key = els[d].key
    BY <1>1 DEF IsDeleted
  <2>3. later \in [S \ {x} -> HashElements] /\ S \subseteq Numbers
    BY <1>1 DEF IsDeleted, Stands, Entries
  <2> QED BY <1>4, <2>1, <2>2, <2>3 DEF Entries
<1>6. Listed(later, place, IF lp = 0 THEN ln ELSE first, IF ln = 0 THEN lp ELSE last)
  <2>1. FirstIn(S, place, first) /\ LastIn(S, place, last)
    BY <1>1 DEF Stands, Listed
  <2>2. \A e \in S : NextIn(S, place, e, els[e].listnext) /\ PreviousIn(S, place, e, els[e].listprev)
    BY <1>1 DEF Stands, Listed
  <2>3. NextIn(S, place, x, ln) /\ PreviousIn(S, place, x, lp)
    BY <1>2, <1>3, <2>2
  <2>4. FirstIn(S \ {x}, place, IF lp = 0 THEN ln ELSE first)
    BY <1>3, <2>1, <2>3, FirstWithout
  <2>5. LastIn(S \ {x}, place, IF ln = 0 THEN lp ELSE last)
    BY <1>3, <2>1, <2>3, LastWithout
  <2>6. ASSUME NEW e \in S \ {x}
        PROVE  NextIn(S \ {x}, place, e, later[e].listnext) /\ PreviousIn(S \ {x}, place, e, later[e].listprev)
    <3>1. NextIn(S \ {x}, place, e, IF e = lp THEN ln ELSE els[e].listnext)
      BY <1>3, <2>2, <2>3, NextWithout
    <3>2. PreviousIn(S \ {x}, place, e, IF e = ln THEN lp ELSE els[e].listprev)
      BY <1>3, <2>2, <2>3, PreviousWithout
    <3>3. /\ later[e].listnext = IF e = lp THEN ln ELSE els[e].listnext
          /\ later[e].listprev = IF e = ln THEN lp ELSE els[e].listprev
      BY <1>1, <1>2 DEF IsDeleted
    <3> QED BY <3>1, <3>2, <3>3
  <2> QED BY <1>4, <2>4, <2>5, <2>6 DEF Listed
<1>7. PICK C : C = InBucket(els, h)
  OBVIOUS
<1>8. x \in C /\ C \subseteq S /\ \A e \in S : Hash[els[e].key] = h <=> e \in C
  BY <1>1, <1>3, <1>7 DEF InBucket
<1>9. \A b : b # h => InBucket(later, b) = InBucket(els, b)
  BY <1>1, <1>4 DEF InBucket, IsDeleted
<1>10. InBucket(later, h) = C \ {x}
  BY <1>1, <1>4, <1>7 DEF InBucket, IsDeleted
<1>11. h \in Buckets /\ buckets \in [Buckets -> Nat]
  <2>1. els[x].key \in Keys
    BY <1>1, <1>3 DEF Stands, Entries, HashElements
  <2> QED BY <1>1, <2>1 DEF Buckets, Stands, Chained
<1>12. Places(C, place)
  BY <1>3, <1>8 DEF Places
<1>13. PICK l : l = buckets[h]
  OBVIOUS
<1>14. LastIn(C, place, l)
  BY <1>7, <1>11, <1>13 DEF Stands, Chained
<1>15. \A e \in C : NextIn(C, place, e, els[e].hashprev) /\ PreviousIn(C, place, e, els[e].hashnext)
  BY <1>1, <1>7, <1>8 DEF Stands, Chained
<1>16. NextIn(C, place, x, hp) /\ PreviousIn(C, place, x, hn)
  BY <1>2, <1>8, <1>15
<1>17. (hp = 0 \/ hp \in C) /\ (hn = 0 \/ hn \in C)
  BY <1>16 DEF NextIn, PreviousIn
<1>18. PICK shorter : shorter = IF hp = 0 THEN [buckets EXCEPT ![h] = hn] ELSE buckets
  OBVIOUS
<1>19. LastIn(C \ {x}, place, IF hp = 0 THEN hn ELSE l)
  BY <1>8, <1>12, <1>14, <1>16, LastWithout
<1>20. ASSUME NEW e \in C \ {x}
       PROVE  /\ NextIn(C \ {x}, place, e, IF e = hn THEN hp ELSE els[e].hashprev)
              /\ PreviousIn(C \ {x}, place, e, IF e = hp THEN hn ELSE els[e].hashnext)
  <2>1. NextIn(C \ {x}, place, e, IF e = hn THEN hp ELSE els[e].hashprev)
    BY <1>8, <1>12, <1>15, <1>16, NextWithout
  <2>2. PreviousIn(C \ {x}, place, e, IF e = hp THEN hn ELSE els[e].hashnext)
    BY <1>8, <1>12, <1>15, <1>16, PreviousWithout
  <2> QED BY <2>1, <2>2
<1>21. Chained(later, place, shorter)
  <2>1. shorter \in [Buckets -> Nat] /\ shorter[h] = IF hp = 0 THEN hn ELSE l
    <3>1. hn \in Nat
      <4>1. els[x] \in HashElements
        BY <1>1, <1>3 DEF Stands, Entries
      <4> QED BY <1>2, <4>1 DEF HashElements
    <3> QED BY <1>11, <1>13, <1>18, <3>1
  <2>2. ASSUME NEW b \in Buckets PROVE LastIn(InBucket(later, b), place, shorter[b])
    <3>1. CASE b = h
      BY <1>10, <1>19, <2>1, <3>1
    <3>2. CASE b # h
      <4>1. shorter[b] = buckets[b]
        BY <1>11, <1>18, <3>2
      <4>2. LastIn(InBucket(els, b), place, buckets[b])
        BY DEF Stands, Chained
      <4> QED BY <1>9, <3>2, <4>1, <4>2
    <3> QED BY <3>1, <3>2
  <2>3. ASSUME NEW e \in S \ {x}
        PROVE  /\ PreviousIn(InBucket(later, Hash[later[e].key]), place, e, later[e].hashnext)
               /\ NextIn(InBucket(later, Hash[later[e].key]), place, e, later[e].hashprev)
    <3>1. /\ later[e].key = els[e].key
          /\ later[e].hashnext = IF e = hp THEN hn ELSE els[e].hashnext
          /\ later[e].hashprev = IF e = hn THEN hp ELSE els[e].hashprev
      BY <1>1, <1>2 DEF IsDeleted
    <3>2. CASE e \in C
      <4>1. Hash[later[e].key] = h
        BY <1>8, <3>1, <3>2
      <4> QED BY <1>10, <1>20, <3>1, <3>2, <4>1
    <3>3. CASE e \notin C
      <4>1. PICK B, g : g = Hash[els[e].key] /\ B = InBucket(els, g)
        OBVIOUS
      <4>2. g # h /\ e # hp /\ e # hn
        BY <1>3, <1>8, <1>17, <3>3, <4>1
      <4>3. PreviousIn(B, place, e, els[e].hashnext) /\ NextIn(B, place, e, els[e].hashprev)
        BY <1>1, <4>1 DEF Stands, Chained
      <4>4. InBucket(later, Hash[later[e].key]) = B
        BY <1>9, <3>1, <4>1, <4>2
      <4> QED BY <3>1, <4>2, <4>3, <4>4
    <3> QED BY <3>2, <3>3
  <2> QED BY <1>4, <2>1, <2>2, <2>3 DEF Chained
<1> QED BY <1>1, <1>2, <1>4, <1>5, <1>6, <1>18, <1>21 DEF Stands

-----------------------------------------------------------------------------
(* What the steps of the code write is that.                               *)

\* Equal but for one link.
SameBut(r, q, name) ==
  /\ name # "key" => r.key = q.key
  /\ name # "hashprev" => r.hashprev = q.hashprev
  /\ name # "hashnext" => r.hashnext = q.hashnext
  /\ name # "listprev" => r.listprev = q.listprev
  /\ name # "listnext" => r.listnext = q.listnext

HashprevSet(S, links, e, to, new) ==
  /\ new \in [S -> HashElements]
  /\ \A m \in S : SameBut(new[m], links[m], "hashprev") /\ new[m].hashprev = IF m = e THEN to ELSE links[m].hashprev

HashnextSet(S, links, e, to, new) ==
  /\ new \in [S -> HashElements]
  /\ \A m \in S : SameBut(new[m], links[m], "hashnext") /\ new[m].hashnext = IF m = e THEN to ELSE links[m].hashnext

ListprevSet(S, links, e, to, new) ==
  /\ new \in [S -> HashElements]
  /\ \A m \in S : SameBut(new[m], links[m], "listprev") /\ new[m].listprev = IF m = e THEN to ELSE links[m].listprev

ListnextSet(S, links, e, to, new) ==
  /\ new \in [S -> HashElements]
  /\ \A m \in S : SameBut(new[m], links[m], "listnext") /\ new[m].listnext = IF m = e THEN to ELSE links[m].listnext

LEMMA LinkSet ==
  ASSUME NEW S, 0 \notin S, NEW links \in [S -> HashElements], NEW e, e = 0 \/ e \in S, NEW to \in Nat
  PROVE  /\ HashprevSet(S, links, e, to, SetLink(links, e, "hashprev", to))
         /\ HashnextSet(S, links, e, to, SetLink(links, e, "hashnext", to))
         /\ ListprevSet(S, links, e, to, SetLink(links, e, "listprev", to))
         /\ ListnextSet(S, links, e, to, SetLink(links, e, "listnext", to))
<1>1. \A m \in S : links[m] \in HashElements
  OBVIOUS
<1>2. CASE e = 0
  <2>1. \A m \in S : m # e
    BY <1>2
  <2>2. \A r, name : SameBut(r, r, name)
    BY DEF SameBut
  <2> QED BY <1>1, <1>2, <2>1, <2>2 DEF SetLink, HashprevSet, HashnextSet, ListprevSet, ListnextSet
<1>3. CASE e \in S
  <2>1. e # 0 /\ links[e] \in HashElements
    BY <1>3
  <2>2. \A r, name : SameBut(r, r, name)
    BY DEF SameBut
  <2>3. PICK r : r = [links[e] EXCEPT !.hashprev = to]
    OBVIOUS
  <2>4. r \in HashElements /\ r.hashprev = to /\ SameBut(r, links[e], "hashprev")
    BY <2>1, <2>3 DEF HashElements, SameBut
  <2>5. SetLink(links, e, "hashprev", to) = [links EXCEPT ![e] = r]
    BY <2>1, <2>3 DEF SetLink
  <2>6. HashprevSet(S, links, e, to, SetLink(links, e, "hashprev", to))
    BY <1>1, <2>2, <2>4, <2>5 DEF HashprevSet
  <2>7. PICK s : s = [links[e] EXCEPT !.hashnext = to]
    OBVIOUS
  <2>8. s \in HashElements /\ s.hashnext = to /\ SameBut(s, links[e], "hashnext")
    BY <2>1, <2>7 DEF HashElements, SameBut
  <2>9. SetLink(links, e, "hashnext", to) = [links EXCEPT ![e] = s]
    BY <2>1, <2>7 DEF SetLink
  <2>10. HashnextSet(S, links, e, to, SetLink(links, e, "hashnext", to))
    BY <1>1, <2>2, <2>8, <2>9 DEF HashnextSet
  <2>11. PICK t : t = [links[e] EXCEPT !.listprev = to]
    OBVIOUS
  <2>12. t \in HashElements /\ t.listprev = to /\ SameBut(t, links[e], "listprev")
    BY <2>1, <2>11 DEF HashElements, SameBut
  <2>13. SetLink(links, e, "listprev", to) = [links EXCEPT ![e] = t]
    BY <2>1, <2>11 DEF SetLink
  <2>14. ListprevSet(S, links, e, to, SetLink(links, e, "listprev", to))
    BY <1>1, <2>2, <2>12, <2>13 DEF ListprevSet
  <2>15. PICK u : u = [links[e] EXCEPT !.listnext = to]
    OBVIOUS
  <2>16. u \in HashElements /\ u.listnext = to /\ SameBut(u, links[e], "listnext")
    BY <2>1, <2>15 DEF HashElements, SameBut
  <2>17. SetLink(links, e, "listnext", to) = [links EXCEPT ![e] = u]
    BY <2>1, <2>15 DEF SetLink
  <2>18. ListnextSet(S, links, e, to, SetLink(links, e, "listnext", to))
    BY <1>1, <2>2, <2>16, <2>17 DEF ListnextSet
  <2> QED BY <2>6, <2>10, <2>14, <2>18
<1> QED BY <1>2, <1>3

TableStands(place, order) == Stands(elements, table, firsthashelem, lasthashelem, place, order)

\* The elements at the ends and beside each other are elements, or none.
LEMMA LinksInTable ==
  ASSUME NEW place, NEW order, TableStands(place, order)
  PROVE  LET D == DOMAIN elements
         IN /\ 0 \notin D /\ D \subseteq Numbers /\ elements \in [D -> HashElements]
            /\ table \in [Buckets -> Nat] /\ \A b \in Buckets : table[b] = 0 \/ table[b] \in D
            /\ {firsthashelem, lasthashelem} \subseteq {0} \cup D
            /\ \A e \in D : /\ {elements[e].hashprev, elements[e].hashnext, elements[e].listprev,
                                elements[e].listnext} \subseteq {0} \cup D
                            /\ e \notin {elements[e].hashprev, elements[e].hashnext, elements[e].listprev,
                                         elements[e].listnext}
<1> DEFINE D == DOMAIN elements
<1>1. 0 \notin D /\ D \subseteq Numbers /\ elements \in [D -> HashElements] /\ \A d \in D : place[d] \in Nat
  BY DEF TableStands, Stands, Entries, Places
<1>2. table \in [Buckets -> Nat] /\ \A b \in Buckets : table[b] = 0 \/ table[b] \in D
  <2>1. \A b \in Buckets : LastIn(InBucket(elements, b), place, table[b])
    BY DEF TableStands, Stands, Chained
  <2>2. \A b \in Buckets : table[b] = 0 \/ table[b] \in InBucket(elements, b)
    BY <2>1 DEF LastIn
  <2>3. table \in [Buckets -> Nat]
    BY DEF TableStands, Stands, Chained
  <2> QED BY <2>2, <2>3 DEF InBucket
<1>3. (firsthashelem = 0 \/ firsthashelem \in D) /\ (lasthashelem = 0 \/ lasthashelem \in D)
  BY DEF TableStands, Stands, Listed, FirstIn, LastIn
<1>4. ASSUME NEW e \in D
      PROVE  /\ elements[e].listnext = 0 \/ (elements[e].listnext \in D /\ elements[e].listnext # e)
             /\ elements[e].listprev = 0 \/ (elements[e].listprev \in D /\ elements[e].listprev # e)
             /\ elements[e].hashnext = 0 \/ (elements[e].hashnext \in D /\ elements[e].hashnext # e)
             /\ elements[e].hashprev = 0 \/ (elements[e].hashprev \in D /\ elements[e].hashprev # e)
  <2>1. PICK C : C = InBucket(elements, Hash[elements[e].key])
    OBVIOUS
  <2>2. /\ NextIn(D, place, e, elements[e].listnext) /\ PreviousIn(D, place, e, elements[e].listprev)
        /\ PreviousIn(C, place, e, elements[e].hashnext) /\ NextIn(C, place, e, elements[e].hashprev)
    BY <2>1 DEF TableStands, Stands, Listed, Chained
  <2>3. C \subseteq D
    BY <2>1 DEF InBucket
  <2>4. \A d \in D : place[d] < place[e] \/ place[e] < place[d] => d # e
    BY <1>1
  <2>5. elements[e].listnext = 0 \/ (elements[e].listnext \in D /\ elements[e].listnext # e)
    BY <2>2, <2>4 DEF NextIn
  <2>6. elements[e].listprev = 0 \/ (elements[e].listprev \in D /\ elements[e].listprev # e)
    BY <2>2, <2>4 DEF PreviousIn
  <2>7. elements[e].hashnext = 0 \/ (elements[e].hashnext \in D /\ elements[e].hashnext # e)
    BY <2>2, <2>3, <2>4 DEF PreviousIn
  <2>8. elements[e].hashprev = 0 \/ (elements[e].hashprev \in D /\ elements[e].hashprev # e)
    BY <2>2, <2>3, <2>4 DEF NextIn
  <2> QED BY <2>5, <2>6, <2>7, <2>8
<1>5. \A e \in D : e # 0
  BY <1>1
<1> QED BY <1>1, <1>2, <1>3, <1>4, <1>5

\* There is always a number for a new element.
LEMMA OneIsFree ==
  ASSUME NEW place, NEW order, TableStands(place, order), NEW k \in Keys, \A d \in DOMAIN elements : elements[d].key # k
  PROVE  Free \in Numbers /\ Free \notin DOMAIN elements
<1> DEFINE D == DOMAIN elements
<1>1. D \subseteq Numbers /\ \A d \in D : elements[d].key \in Keys
  BY LinksInTable DEF HashElements
<1>2. Cardinality(Keys) \in Nat /\ IsFiniteSet(Keys)
  BY HashAssumption, FS_CardinalityType
<1>3. D # Numbers
  <2> SUFFICES ASSUME D = Numbers PROVE FALSE
    OBVIOUS
  <2>1. PICK f : f = [d \in D |-> elements[d].key]
    OBVIOUS
  <2>2. f \in Injection(D, Keys)
    <3>1. \A d, e \in D : elements[d].key = elements[e].key => d = e
      BY DEF TableStands, Stands, Entries
    <3> QED BY <1>1, <2>1, <3>1 DEF Injection, IsInjective
  <2>3. Cardinality(D) = Cardinality(Keys)
    <3>1. PICK c \in Nat : c = Cardinality(Keys)
      BY <1>2
    <3>2. Cardinality(1..c) = IF 1 > c THEN 0 ELSE c - 1 + 1
      BY FS_Interval
    <3>3. Cardinality(1..c) = c
      BY <3>2
    <3> QED BY <3>1, <3>3 DEF Numbers
  <2>4. f \in Surjection(D, Keys)
    BY <1>2, <2>2, <2>3, FS_Injection
  <2> QED BY <2>1, <2>4 DEF Surjection
<1>4. PICK n \in Numbers \ D : \A m \in Numbers \ D : n <= m
  <2>1. Numbers \ D \in SUBSET Nat /\ Numbers \ D # {}
    BY <1>1, <1>3, NoNumber
  <2> QED BY <2>1, LeastNatural
<1>5. n \notin D /\ \A m \in 1..(n - 1) : m \in D
  <2>1. \A m \in 1..(n - 1) : m \in Numbers /\ ~(n <= m)
    BY <1>2 DEF Numbers
  <2> QED BY <1>4, <2>1
<1> QED BY <1>4, <1>5 DEF Free

LEMMA AddsOne ==
  ASSUME NEW place, NEW order, TableStands(place, order), NEW k \in Keys, Find(k) = 0,
         \A d \in DOMAIN elements : elements[d].key # k, AddElement(k)
  PROVE  /\ found' = TRUE /\ curhashelem' = curhashelem
         /\ \E ways : Stands(elements', table', firsthashelem', lasthashelem', ways, Append(order, Free))
         /\ Free \notin DOMAIN elements /\ DOMAIN elements' = DOMAIN elements \cup {Free}
         /\ \A e \in DOMAIN elements : elements'[e].key = elements[e].key
         /\ elements'[Free].key = k
<1>1. PICK n, D, T : n = Free /\ D = DOMAIN elements /\ T = D \cup {n}
  OBVIOUS
<1>2. n \in Numbers /\ n \notin D /\ n \in Nat /\ n # 0 /\ k \in Keys
  BY <1>1, OneIsFree, NoNumber
<1>3. PICK h, l, added : h = table[Hash[k]] /\ l = lasthashelem /\ added = Added(n, k)
  OBVIOUS
<1>4. /\ 0 \notin D /\ elements \in [D -> HashElements] /\ h \in Nat /\ l \in Nat
      /\ (h = 0 \/ h \in D) /\ (l = 0 \/ l \in D)
  <2>1. 0 \notin D /\ D \subseteq Nat /\ elements \in [D -> HashElements]
    BY <1>1, LinksInTable, NoNumber
  <2>2. (h = 0 \/ h \in D) /\ (l = 0 \/ l \in D)
    BY <1>1, <1>3, LinksInTable DEF Buckets
  <2>3. h \in Nat
    <3>1. CASE h = 0
      BY <3>1
    <3>2. CASE h \in D
      BY <2>1, <3>2
    <3> QED BY <2>2, <3>1, <3>2
  <2>4. l \in Nat
    <3>1. CASE l = 0
      BY <3>1
    <3>2. CASE l \in D
      BY <2>1, <3>2
    <3> QED BY <2>2, <3>1, <3>2
  <2> QED BY <2>1, <2>2, <2>3, <2>4
<1>5. PICK own : own = [key |-> k, hashprev |-> 0, hashnext |-> h, listprev |-> l, listnext |-> 0]
  OBVIOUS
<1>6. own \in HashElements
  BY <1>2, <1>4, <1>5 DEF HashElements
<1>7. /\ added \in [T -> HashElements] /\ added[n] = own /\ \A e \in D : added[e] = elements[e]
  <2>1. HashElement(k) = own
    BY <1>3, <1>5 DEF HashElement
  <2>2. added = [m \in T |-> IF m = n THEN own ELSE elements[m]]
    BY <1>1, <1>3, <2>1 DEF Added
  <2> QED BY <1>1, <1>2, <1>4, <1>6, <2>2
<1>8. PICK linked : linked = SetLink(added, h, "hashprev", n)
  OBVIOUS
<1>9. PICK later : later = SetLink(linked, l, "listnext", n)
  OBVIOUS
<1>10. 0 \notin T /\ (h = 0 \/ h \in T) /\ (l = 0 \/ l \in T)
  BY <1>1, <1>2, <1>4
<1>11. HashprevSet(T, added, h, n, linked)
  BY <1>2, <1>7, <1>8, <1>10, LinkSet
<1>12. ListnextSet(T, linked, l, n, later)
  <2>1. linked \in [T -> HashElements]
    BY <1>11 DEF HashprevSet
  <2> QED BY <1>2, <1>9, <1>10, <2>1, LinkSet
<1>13. /\ elements' = later /\ table' = [table EXCEPT ![Hash[k]] = n] /\ lasthashelem' = n
       /\ firsthashelem' = (IF firsthashelem = 0 THEN n ELSE firsthashelem)
       /\ curhashelem' = curhashelem /\ found' = TRUE
  BY <1>1, <1>3, <1>8, <1>9 DEF AddElement
<1>14. IsAdded(elements, table, lasthashelem, n, k, later)
  <2>1. n # h /\ n # l
    BY <1>2, <1>4
  <2>2. ASSUME NEW m \in T
        PROVE  /\ later[m].key = added[m].key /\ later[m].hashnext = added[m].hashnext
               /\ later[m].listprev = added[m].listprev
               /\ later[m].hashprev = IF m = h THEN n ELSE added[m].hashprev
               /\ later[m].listnext = IF m = l THEN n ELSE added[m].listnext
    BY <1>11, <1>12 DEF HashprevSet, ListnextSet, SameBut
  <2>3. /\ later[n].key = k /\ later[n].hashprev = 0 /\ later[n].hashnext = h
        /\ later[n].listprev = l /\ later[n].listnext = 0
    BY <1>1, <1>5, <1>7, <2>1, <2>2
  <2>4. ASSUME NEW e \in D
        PROVE  /\ later[e].key = elements[e].key /\ later[e].hashnext = elements[e].hashnext
               /\ later[e].listprev = elements[e].listprev
               /\ later[e].hashprev = IF e = h THEN n ELSE elements[e].hashprev
               /\ later[e].listnext = IF e = l THEN n ELSE elements[e].listnext
    BY <1>1, <1>7, <2>2
  <2> QED BY <1>1, <1>3, <1>12, <2>3, <2>4 DEF IsAdded, ListnextSet
<1>15. \E ways : Stands(later, [table EXCEPT ![Hash[k]] = n], IF firsthashelem = 0 THEN n ELSE firsthashelem, n,
                        ways, Append(order, n))
  BY <1>1, <1>2, <1>14, AddedStands DEF TableStands
<1>17. \E ways : Stands(elements', table', firsthashelem', lasthashelem', ways, Append(order, n))
  BY <1>13, <1>15
<1>18. /\ DOMAIN later = T /\ later[n].key = k /\ \A e \in D : later[e].key = elements[e].key
  BY <1>1, <1>14 DEF IsAdded
<1> QED BY <1>1, <1>2, <1>13, <1>17, <1>18 DEF TableStands

LEMMA DeletesOne ==
  ASSUME NEW place, NEW order, TableStands(place, order), NEW i \in 1..Len(order), Delete(order[i])
  PROVE  /\ found' = TRUE /\ curhashelem' = elements[order[i]].listnext
         /\ Stands(elements', table', firsthashelem', lasthashelem', place, Without(order, i))
         /\ DOMAIN elements' = DOMAIN elements \ {order[i]}
         /\ \A e \in DOMAIN elements' : elements'[e].key = elements[e].key
<1>1. PICK x, D : x = order[i] /\ D = DOMAIN elements
  OBVIOUS
<1>2. x \in D /\ x # 0 /\ 0 \notin D /\ elements \in [D -> HashElements] /\ D \subseteq Nat
  <2>1. Places(D, place) /\ Ordered(D, place, order)
    BY <1>1 DEF TableStands, Stands
  <2>2. x \in D
    BY <1>1, <2>1, OrderedOnce
  <2>3. 0 \notin D /\ elements \in [D -> HashElements] /\ D \subseteq Nat
    BY <1>1, LinksInTable, NoNumber
  <2> QED BY <2>2, <2>3
<1>3. PICK hn, hp, ln, lp : /\ hn = elements[x].hashnext /\ hp = elements[x].hashprev
                            /\ ln = elements[x].listnext /\ lp = elements[x].listprev
  OBVIOUS
<1>4. /\ hn = 0 \/ hn \in D \ {x}
      /\ hp = 0 \/ hp \in D \ {x}
      /\ ln = 0 \/ ln \in D \ {x}
      /\ lp = 0 \/ lp \in D \ {x}
      /\ hn \in Nat /\ hp \in Nat /\ ln \in Nat /\ lp \in Nat
  <2>1. elements[x] \in HashElements
    BY <1>2
  <2>2. hn \in Nat /\ hp \in Nat /\ ln \in Nat /\ lp \in Nat
    BY <1>3, <2>1 DEF HashElements
  <2>3. /\ {hp, hn, lp, ln} \subseteq {0} \cup D /\ x \notin {hp, hn, lp, ln}
    BY <1>1, <1>2, <1>3, LinksInTable
  <2> QED BY <2>2, <2>3
<1>5. PICK a, b, c, left :
        /\ a = SetLink(elements, hp, "hashnext", hn) /\ b = SetLink(a, hn, "hashprev", hp)
        /\ c = SetLink(b, lp, "listnext", ln) /\ left = SetLink(c, ln, "listprev", lp)
  OBVIOUS
<1> DEFINE None(e) == e = 0 \/ e \in D
<1>17. None(hn) /\ None(hp) /\ None(ln) /\ None(lp)
  BY <1>4
<1>18. 0 \notin D /\ elements \in [D -> HashElements]
  BY <1>2
<1>19. hn \in Nat /\ hp \in Nat /\ ln \in Nat /\ lp \in Nat
  BY <1>4
<1>6. HashnextSet(D, elements, hp, hn, a)
  BY <1>5, <1>17, <1>18, <1>19, LinkSet
<1>7. HashprevSet(D, a, hn, hp, b)
  <2>1. a \in [D -> HashElements]
    BY <1>6 DEF HashnextSet
  <2> QED BY <1>5, <1>17, <1>18, <1>19, <2>1, LinkSet
<1>8. ListnextSet(D, b, lp, ln, c)
  <2>1. b \in [D -> HashElements]
    BY <1>7 DEF HashprevSet
  <2> QED BY <1>5, <1>17, <1>18, <1>19, <2>1, LinkSet
<1>9. ListprevSet(D, c, ln, lp, left)
  <2>1. c \in [D -> HashElements]
    BY <1>8 DEF ListnextSet
  <2> QED BY <1>5, <1>17, <1>18, <1>19, <2>1, LinkSet
<1>10. ASSUME NEW m \in D
       PROVE  /\ left[m].key = elements[m].key
              /\ left[m].listnext = IF m = lp THEN ln ELSE elements[m].listnext
              /\ left[m].listprev = IF m = ln THEN lp ELSE elements[m].listprev
              /\ left[m].hashnext = IF m = hp THEN hn ELSE elements[m].hashnext
              /\ left[m].hashprev = IF m = hn THEN hp ELSE elements[m].hashprev
  <2>1. /\ a[m].key = elements[m].key /\ a[m].hashprev = elements[m].hashprev
        /\ a[m].listprev = elements[m].listprev /\ a[m].listnext = elements[m].listnext
        /\ a[m].hashnext = IF m = hp THEN hn ELSE elements[m].hashnext
    BY <1>6 DEF HashnextSet, SameBut
  <2>2. /\ b[m].key = a[m].key /\ b[m].hashnext = a[m].hashnext
        /\ b[m].listprev = a[m].listprev /\ b[m].listnext = a[m].listnext
        /\ b[m].hashprev = IF m = hn THEN hp ELSE a[m].hashprev
    BY <1>7 DEF HashprevSet, SameBut
  <2>3. /\ c[m].key = b[m].key /\ c[m].hashnext = b[m].hashnext
        /\ c[m].hashprev = b[m].hashprev /\ c[m].listprev = b[m].listprev
        /\ c[m].listnext = IF m = lp THEN ln ELSE b[m].listnext
    BY <1>8 DEF ListnextSet, SameBut
  <2>4. /\ left[m].key = c[m].key /\ left[m].hashnext = c[m].hashnext
        /\ left[m].hashprev = c[m].hashprev /\ left[m].listnext = c[m].listnext
        /\ left[m].listprev = IF m = ln THEN lp ELSE c[m].listprev
    BY <1>9 DEF ListprevSet, SameBut
  <2> QED BY <2>1, <2>2, <2>3, <2>4
<1>11. PICK later : later = [m \in D \ {x} |-> left[m]]
  OBVIOUS
<1>12. IsDeleted(elements, x, later)
  <2>1. later \in [D \ {x} -> HashElements]
    BY <1>9, <1>11 DEF ListprevSet
  <2>2. \A e \in D \ {x} : later[e] = left[e]
    BY <1>11
  <2> QED BY <1>1, <1>3, <1>10, <2>1, <2>2 DEF IsDeleted
<1>13. Unlink(x) = left
  BY <1>3, <1>5 DEF Unlink
<1>14. /\ found' = TRUE /\ elements' = later
       /\ table' = (IF hp = 0 THEN [table EXCEPT ![Hash[elements[x].key]] = hn] ELSE table)
       /\ firsthashelem' = (IF lp = 0 THEN ln ELSE firsthashelem)
       /\ lasthashelem' = (IF ln = 0 THEN lp ELSE lasthashelem)
       /\ curhashelem' = ln
  BY <1>1, <1>2, <1>3, <1>11, <1>13 DEF Delete
<1>15. Stands(later, IF elements[x].hashprev = 0
                     THEN [table EXCEPT ![Hash[elements[x].key]] = elements[x].hashnext] ELSE table,
              IF elements[x].listprev = 0 THEN elements[x].listnext ELSE firsthashelem,
              IF elements[x].listnext = 0 THEN elements[x].listprev ELSE lasthashelem, place, Without(order, i))
  BY <1>1, <1>12, DeletedStands DEF TableStands
<1>16. DOMAIN later = D \ {x} /\ \A e \in D \ {x} : later[e].key = elements[e].key
  BY <1>1, <1>12 DEF IsDeleted
<1> QED BY <1>1, <1>3, <1>14, <1>15, <1>16

-----------------------------------------------------------------------------
(* What is seen of it: the keys in the order of their elements, and where  *)
(* the cursor is among them.                                               *)

KeysOf(els, order) == [i \in 1..Len(order) |-> els[order[i]].key]

CursorAt(order, cur, c) ==
  \/ cur = 0 /\ c = 0
  \/ cur = LOST /\ c = LOST
  \/ \E i \in 1..Len(order) : cur = order[i] /\ c = i

KeylistFrom(els, first) ==
  [i \in DOMAIN WalkFrom(els, first) |-> els[WalkFrom(els, first)[i]].key]

CursorFrom(els, first, cur) ==
  IF cur = 0 THEN 0
  ELSE IF cur \notin DOMAIN els THEN LOST
  ELSE CHOOSE i \in DOMAIN WalkFrom(els, first) : WalkFrom(els, first)[i] = cur

HashInv ==
  /\ curhashelem \in {0, LOST} \cup DOMAIN elements
  /\ \E place, order : TableStands(place, order)

LEMMA Shown ==
  ASSUME NEW els, NEW buckets, NEW first, NEW last, NEW place, NEW order,
         Stands(els, buckets, first, last, place, order), NEW cur, NEW c, CursorAt(order, cur, c)
  PROVE  /\ KeylistFrom(els, first) = KeysOf(els, order) /\ CursorFrom(els, first, cur) = c
         /\ KeysOf(els, order) \in Seq(Keys) /\ Len(KeysOf(els, order)) = Len(order)
         /\ cur \in {0, LOST} \cup DOMAIN els
<1>1. WalkFrom(els, first) = order
  BY WalkIsOrder DEF Stands
<1>2. PICK D, n : D = DOMAIN els /\ n = Len(order)
  OBVIOUS
<1>3. /\ n \in Nat /\ \A i \in 1..n : order[i] \in D /\ order[i] \in Nat /\ order[i] # 0
      /\ \A i, j \in 1..n : order[i] = order[j] => i = j
      /\ DOMAIN order = 1..n
  <2>1. Places(D, place) /\ Ordered(D, place, order)
    BY <1>2 DEF Stands
  <2>2. DOMAIN order = 1..n
    BY <1>2, <2>1 DEF Ordered
  <2> QED BY <1>2, <2>1, <2>2, OrderedOnce
<1>4. \A d \in D : d \in Nat /\ d # 0 /\ els[d].key \in Keys
  BY <1>2 DEF Stands, Entries, Places, HashElements
<1>5. KeylistFrom(els, first) = KeysOf(els, order)
  BY <1>1, <1>2, <1>3 DEF KeylistFrom, KeysOf
<1>6. KeysOf(els, order) \in Seq(Keys) /\ Len(KeysOf(els, order)) = Len(order)
  BY <1>2, <1>3, <1>4 DEF KeysOf
<1>7. CASE cur = 0 /\ c = 0
  BY <1>5, <1>6, <1>7 DEF CursorFrom
<1>8. CASE cur = LOST /\ c = LOST
  <2>1. LOST # 0 /\ LOST \notin D
    BY <1>4, HashAssumption
  <2> QED BY <1>2, <1>5, <1>6, <1>8, <2>1 DEF CursorFrom
<1>9. CASE \E i \in 1..Len(order) : cur = order[i] /\ c = i
  <2>1. PICK i \in 1..n : cur = order[i] /\ c = i
    BY <1>2, <1>9
  <2>2. cur # 0 /\ cur \in D
    BY <1>3, <2>1
  <2>3. CursorFrom(els, first, cur) = CHOOSE j \in 1..n : order[j] = cur
    BY <1>1, <1>2, <1>3, <2>2 DEF CursorFrom
  <2>4. \A j \in 1..n : order[j] = cur <=> j = i
    BY <1>3, <2>1
  <2>5. (CHOOSE j \in 1..n : order[j] = cur) = i
    BY <2>4
  <2> QED BY <1>2, <1>5, <1>6, <2>1, <2>2, <2>3, <2>5
<1> QED BY <1>7, <1>8, <1>9 DEF CursorAt

LEMMA ShownNow ==
  ASSUME NEW place, NEW order, TableStands(place, order), NEW c, CursorAt(order, curhashelem, c)
  PROVE  /\ Keylist = KeysOf(elements, order) /\ Cursor = c
         /\ Keylist \in Seq(Keys) /\ Len(Keylist) = Len(order)
<1>1. Walk = WalkFrom(elements, firsthashelem)
  BY DEF Walk, WalkFrom
<1>2. Keylist = KeylistFrom(elements, firsthashelem) /\ Cursor = CursorFrom(elements, firsthashelem, curhashelem)
  BY <1>1 DEF Keylist, Cursor, KeylistFrom, CursorFrom
<1>3. Stands(elements, table, firsthashelem, lasthashelem, place, order)
  BY DEF TableStands
<1> QED BY <1>2, <1>3, Shown

LEMMA ShownNext ==
  ASSUME NEW place, NEW order, Stands(elements', table', firsthashelem', lasthashelem', place, order),
         NEW c, CursorAt(order, curhashelem', c)
  PROVE  /\ Keylist' = KeysOf(elements', order) /\ Cursor' = c
         /\ HashInv'
<1>1. Walk' = WalkFrom(elements', firsthashelem')
  BY DEF Walk, WalkFrom
<1>2. /\ Keylist' = KeylistFrom(elements', firsthashelem')
      /\ Cursor' = CursorFrom(elements', firsthashelem', curhashelem')
  BY <1>1 DEF Keylist, Cursor, KeylistFrom, CursorFrom
<1>3. /\ KeylistFrom(elements', firsthashelem') = KeysOf(elements', order)
      /\ CursorFrom(elements', firsthashelem', curhashelem') = c
      /\ curhashelem' \in {0, LOST} \cup DOMAIN elements'
  BY Shown
<1>4. \E p, o : Stands(elements', table', firsthashelem', lasthashelem', p, o)
  OBVIOUS
<1> QED BY <1>2, <1>3, <1>4 DEF HashInv, TableStands

LEMMA CursorIsSomewhere ==
  ASSUME NEW place, NEW order, TableStands(place, order), curhashelem \in {0, LOST} \cup DOMAIN elements
  PROVE  \E c : CursorAt(order, curhashelem, c)
<1>1. \A d \in DOMAIN elements : \E i \in 1..Len(order) : order[i] = d
  BY DEF TableStands, Stands, Ordered
<1>2. CASE curhashelem \in {0, LOST}
  BY <1>2 DEF CursorAt
<1>3. CASE curhashelem \in DOMAIN elements
  <2>1. PICK i \in 1..Len(order) : order[i] = curhashelem
    BY <1>1, <1>3
  <2> QED BY <2>1 DEF CursorAt
<1> QED BY <1>2, <1>3

\* Finding a key in its chain is finding it in the list.
LEMMA FindIsPosition ==
  ASSUME NEW place, NEW order, TableStands(place, order), NEW k \in Keys,
         Keylist = KeysOf(elements, order)
  PROVE  \/ \E i \in 1..Len(order) :
              Find(k) = order[i] /\ Find(k) # 0 /\ List!Position(k) = i /\ elements[order[i]].key = k
         \/ Find(k) = 0 /\ List!Position(k) = 0 /\ \A d \in DOMAIN elements : elements[d].key # k
<1>1. PICK D, n : D = DOMAIN elements /\ n = Len(order)
  OBVIOUS
<1>2. /\ n \in Nat /\ \A i \in 1..n : order[i] \in D /\ order[i] # 0
      /\ \A i, j \in 1..n : order[i] = order[j] => i = j
      /\ \A d \in D : \E i \in 1..n : order[i] = d
  <2>1. Places(D, place) /\ Ordered(D, place, order)
    BY <1>1 DEF TableStands, Stands
  <2> QED BY <1>1, <2>1, OrderedOnce DEF Ordered
<1>3. \A d, e \in D : elements[d].key = elements[e].key => d = e
  BY <1>1 DEF TableStands, Stands, Entries
<1>4. \A t : HasKey(elements, k, t) => Find(k) = t
  <2>1. Find(k) = FindFrom(elements, table, k)
    BY DEF Find, FindFrom
  <2>2. \A t : HasKey(elements, k, t) => FindFrom(elements, table, k) = t
    BY FindsKey DEF TableStands, Stands
  <2> QED BY <2>1, <2>2
<1>5. /\ DOMAIN Keylist = 1..n /\ \A i \in 1..n : Keylist[i] = elements[order[i]].key
  BY <1>1, <1>2 DEF KeysOf
<1>6. List!Position(k) = IF k \in {Keylist[i] : i \in 1..n} THEN CHOOSE i \in 1..n : Keylist[i] = k ELSE 0
  BY <1>5 DEF List!Position, List!ToSet
<1>7. CASE \E d \in D : elements[d].key = k
  <2>1. PICK i \in 1..n : elements[order[i]].key = k
    BY <1>2, <1>7
  <2>2. Find(k) = order[i]
    BY <1>1, <1>2, <1>4, <2>1 DEF HasKey
  <2>3. \A j \in 1..n : Keylist[j] = k <=> j = i
    BY <1>2, <1>3, <1>5, <2>1
  <2>4. (CHOOSE j \in 1..n : Keylist[j] = k) = i
    BY <2>3
  <2>5. k \in {Keylist[j] : j \in 1..n}
    BY <2>3
  <2> QED BY <1>1, <1>2, <1>6, <2>1, <2>2, <2>4, <2>5
<1>8. CASE \A d \in D : elements[d].key # k
  <2>1. Find(k) = 0
    BY <1>1, <1>4, <1>8 DEF HasKey
  <2>2. k \notin {Keylist[j] : j \in 1..n}
    BY <1>2, <1>5, <1>8
  <2> QED BY <1>1, <1>6, <1>8, <2>1, <2>2
<1> QED BY <1>7, <1>8

LEMMA OrderOfElements ==
  ASSUME NEW place, NEW order, TableStands(place, order)
  PROVE  /\ Len(order) \in Nat /\ DOMAIN order = 1..Len(order)
         /\ \A i \in 1..Len(order) : /\ order[i] \in DOMAIN elements /\ order[i] # 0 /\ order[i] # LOST
                                     /\ elements[order[i]].key \in Keys
         /\ \A i, j \in 1..Len(order) : order[i] = order[j] => i = j
         /\ \A d \in DOMAIN elements : \E i \in 1..Len(order) : order[i] = d
<1>1. PICK D, n : D = DOMAIN elements /\ n = Len(order)
  OBVIOUS
<1>2. Places(D, place) /\ Ordered(D, place, order) /\ DOMAIN order = 1..n
  BY <1>1 DEF TableStands, Stands, Ordered
<1>3. /\ n \in Nat /\ \A i \in 1..n : order[i] \in D /\ order[i] \in Nat /\ order[i] # 0
      /\ \A i, j \in 1..n : order[i] = order[j] => i = j
  BY <1>1, <1>2, OrderedOnce
<1>4. \A d \in D : \E i \in 1..n : order[i] = d
  BY <1>1, <1>2 DEF Ordered
<1>5. \A d \in D : elements[d].key \in Keys
  BY <1>1, LinksInTable DEF HashElements
<1> QED BY <1>1, <1>2, <1>3, <1>4, <1>5, HashAssumption

LEMMA KeylistNow ==
  ASSUME HashInv
  PROVE  \E place, order, c : /\ TableStands(place, order) /\ CursorAt(order, curhashelem, c)
                              /\ Keylist = KeysOf(elements, order) /\ Cursor = c
                              /\ Keylist \in Seq(Keys) /\ Len(Keylist) = Len(order)
<1>1. PICK place, order : TableStands(place, order)
  BY DEF HashInv
<1>2. PICK c : CursorAt(order, curhashelem, c)
  BY <1>1, CursorIsSomewhere DEF HashInv
<1> QED BY <1>1, <1>2, ShownNow

\* A call that changes no element moves the cursor at most.
LEMMA OnlyCursor ==
  ASSUME NEW place, NEW order, TableStands(place, order), Keylist = KeysOf(elements, order),
         UNCHANGED <<elements, table, firsthashelem, lasthashelem>>,
         NEW c, CursorAt(order, curhashelem', c)
  PROVE  Keylist' = Keylist /\ Cursor' = c /\ HashInv'
<1>1. Stands(elements', table', firsthashelem', lasthashelem', place, order)
  BY DEF TableStands
<1>2. Keylist' = KeysOf(elements', order) /\ Cursor' = c /\ HashInv'
  BY <1>1, ShownNext
<1> QED BY <1>2 DEF KeysOf

LEMMA EndsOfList ==
  ASSUME NEW place, NEW order, TableStands(place, order)
  PROVE  /\ firsthashelem = FirstOf(order) /\ lasthashelem = LastOf(order)
         /\ \A i \in 1..Len(order) : /\ elements[order[i]].listnext = NextOf(order, i)
                                     /\ elements[order[i]].listprev = PreviousOf(order, i)
<1>1. PICK D : D = DOMAIN elements
  OBVIOUS
<1>2. Places(D, place) /\ Ordered(D, place, order)
  BY <1>1 DEF TableStands, Stands
<1>3. /\ FirstIn(D, place, firsthashelem) /\ LastIn(D, place, lasthashelem)
      /\ \A e \in D : /\ NextIn(D, place, e, elements[e].listnext)
                      /\ PreviousIn(D, place, e, elements[e].listprev)
  BY <1>1 DEF TableStands, Stands, Listed
<1>4. \A i \in 1..Len(order) : order[i] \in D
  BY <1>1, OrderOfElements
<1> QED BY <1>2, <1>3, <1>4, LinksFollowOrder

-----------------------------------------------------------------------------
(* Each call of the table is a call of the list.                           *)

LEMMA AddIsAdd ==
  ASSUME HashInv, NEW k \in Keys, AddElement(k)
  PROVE  HashInv' /\ List!Add(k)
<1>1. PICK place, order, c : /\ TableStands(place, order) /\ CursorAt(order, curhashelem, c)
                             /\ Keylist = KeysOf(elements, order) /\ Cursor = c
                             /\ Keylist \in Seq(Keys) /\ Len(Keylist) = Len(order)
  BY KeylistNow
<1>2. curhashelem' = curhashelem /\ found' = (Find(k) = 0)
  BY DEF AddElement
<1>3. CASE Find(k) # 0
  <2>1. UNCHANGED <<elements, table, firsthashelem, lasthashelem>>
    BY <1>3 DEF AddElement
  <2>2. Keylist' = Keylist /\ Cursor' = c /\ HashInv'
    BY <1>1, <1>2, <2>1, OnlyCursor
  <2>3. List!Position(k) # 0
    <3>1. \A i \in 1..Len(order) : i # 0
      OBVIOUS
    <3> QED BY <1>1, <1>3, <3>1, FindIsPosition
  <2> QED BY <1>1, <1>2, <1>3, <2>2, <2>3 DEF List!Add
<1>4. CASE Find(k) = 0
  <2>1. List!Position(k) = 0 /\ \A d \in DOMAIN elements : elements[d].key # k
    BY <1>1, <1>4, FindIsPosition
  <2>2. PICK n : n = Free
    OBVIOUS
  <2>3. /\ \E ways : Stands(elements', table', firsthashelem', lasthashelem', ways, Append(order, n))
        /\ \A e \in DOMAIN elements : elements'[e].key = elements[e].key
        /\ elements'[n].key = k
    BY <1>1, <1>4, <2>1, <2>2, AddsOne
  <2>4. PICK ways : Stands(elements', table', firsthashelem', lasthashelem', ways, Append(order, n))
    BY <2>3
  <2>5. PICK m : m = Len(order)
    OBVIOUS
  <2>6. /\ m \in Nat /\ order \in Seq(DOMAIN elements)
        /\ \A i \in 1..m : order[i] \in DOMAIN elements
    <3>1. order \in Seq(DOMAIN elements)
      BY <1>1 DEF TableStands, Stands, Ordered
    <3> QED BY <1>1, <2>5, <3>1, OrderOfElements
  <2>7. /\ Len(Append(order, n)) = m + 1 /\ Append(order, n)[m + 1] = n
        /\ \A i \in 1..m : Append(order, n)[i] = order[i]
    BY <2>5, <2>6
  <2>8. CursorAt(Append(order, n), curhashelem', c)
    BY <1>1, <1>2, <2>5, <2>6, <2>7 DEF CursorAt
  <2>9. Keylist' = KeysOf(elements', Append(order, n)) /\ Cursor' = c /\ HashInv'
    BY <2>4, <2>8, ShownNext
  <2>10. KeysOf(elements', Append(order, n)) = Append(Keylist, k)
    <3>1. PICK a, b : a = KeysOf(elements', Append(order, n)) /\ b = Append(Keylist, k)
      OBVIOUS
    <3>2. b \in Seq(Keys) /\ Len(b) = m + 1 /\ b[m + 1] = k /\ \A i \in 1..m : b[i] = Keylist[i]
      BY <1>1, <2>5, <3>1
    <3>3. \A i \in 1..m : Keylist[i] = elements[order[i]].key
      BY <1>1, <2>5 DEF KeysOf
    <3>4. a = [i \in 1..(m + 1) |-> elements'[Append(order, n)[i]].key]
      BY <2>7, <3>1 DEF KeysOf
    <3>5. \A i \in 1..(m + 1) : a[i] = b[i]
      <4>1. TAKE i \in 1..(m + 1)
      <4>2. CASE i = m + 1
        BY <2>3, <2>7, <3>2, <3>4, <4>2
      <4>3. CASE i \in 1..m
        BY <2>3, <2>6, <2>7, <3>2, <3>3, <3>4, <4>3
      <4> QED BY <2>6, <4>2, <4>3
    <3>6. b = [i \in 1..(m + 1) |-> b[i]]
      BY <3>2
    <3> QED BY <3>1, <3>4, <3>5, <3>6
  <2> QED BY <1>1, <1>2, <1>4, <2>1, <2>9, <2>10 DEF List!Add
<1> QED BY <1>3, <1>4

LEMMA KeysWithout ==
  ASSUME NEW place, NEW order, TableStands(place, order), NEW i \in 1..Len(order), NEW later,
         \A d \in DOMAIN elements \ {order[i]} : later[d].key = elements[d].key
  PROVE  KeysOf(later, Without(order, i)) = Without(KeysOf(elements, order), i)
<1>1. PICK n, s, shorter : n = Len(order) /\ s = KeysOf(elements, order) /\ shorter = Without(order, i)
  OBVIOUS
<1>2. /\ n \in Nat /\ order \in Seq(DOMAIN elements)
      /\ \A j \in 1..n : order[j] \in DOMAIN elements /\ elements[order[j]].key \in Keys
      /\ \A j, m \in 1..n : order[j] = order[m] => j = m
  <2>1. order \in Seq(DOMAIN elements)
    BY DEF TableStands, Stands, Ordered
  <2>2. /\ Len(order) \in Nat
        /\ \A j \in 1..Len(order) : order[j] \in DOMAIN elements /\ elements[order[j]].key \in Keys
        /\ \A j, m \in 1..Len(order) : order[j] = order[m] => j = m
    BY OrderOfElements
  <2> QED BY <1>1, <2>1, <2>2
<1>3. s \in Seq(Keys) /\ Len(s) = n /\ \A j \in 1..n : s[j] = elements[order[j]].key
  BY <1>1, <1>2 DEF KeysOf
<1>4. /\ Without(s, i) \in Seq(Keys) /\ Len(Without(s, i)) = n - 1
      /\ \A j \in 1..(n - 1) : Without(s, i)[j] = Closed(s, i, j)
  <2>1. i \in 1..Len(s)
    BY <1>1, <1>3
  <2>2. /\ Without(s, i) \in Seq(Keys) /\ Len(Without(s, i)) = Len(s) - 1
        /\ \A j \in 1..(Len(s) - 1) : Without(s, i)[j] = Closed(s, i, j)
    BY <1>3, <2>1, WithoutOne
  <2> QED BY <1>3, <2>2
<1>5. Len(shorter) = n - 1 /\ \A j \in 1..(n - 1) : shorter[j] = Closed(order, i, j)
  BY <1>1, <1>2, WithoutOne
<1>6. ASSUME NEW j \in 1..(n - 1)
      PROVE  later[shorter[j]].key = Without(s, i)[j]
  <2>1. CASE j < i
    <3>1. j \in 1..n /\ j # i
      BY <1>1, <1>2, <2>1
    <3>2. shorter[j] = order[j] /\ Without(s, i)[j] = s[j]
      BY <1>4, <1>5, <2>1 DEF Closed
    <3>3. order[j] # order[i]
      BY <1>1, <1>2, <3>1
    <3> QED BY <1>2, <1>3, <3>1, <3>2, <3>3
  <2>2. CASE ~(j < i)
    <3>1. j + 1 \in 1..n /\ j + 1 # i
      BY <1>1, <1>2, <2>2
    <3>2. shorter[j] = order[j + 1] /\ Without(s, i)[j] = s[j + 1]
      BY <1>4, <1>5, <2>2 DEF Closed
    <3>3. order[j + 1] # order[i]
      BY <1>1, <1>2, <3>1
    <3> QED BY <1>2, <1>3, <3>1, <3>2, <3>3
  <2> QED BY <2>1, <2>2
<1>7. KeysOf(later, shorter) = [j \in 1..(n - 1) |-> later[shorter[j]].key]
  BY <1>5 DEF KeysOf
<1>8. Without(s, i) = [j \in 1..(n - 1) |-> Without(s, i)[j]]
  BY <1>4
<1> QED BY <1>1, <1>6, <1>7, <1>8

LEMMA DeleteIsRemove ==
  ASSUME NEW place, NEW order, TableStands(place, order), Keylist = KeysOf(elements, order),
         Len(Keylist) = Len(order), NEW i \in 1..Len(order), Delete(order[i])
  PROVE  HashInv' /\ List!RemoveCurrent(i)
<1>1. PICK n, shorter : n = Len(order) /\ shorter = Without(order, i)
  OBVIOUS
<1>2. n \in Nat /\ i \in 1..n /\ order \in Seq(DOMAIN elements)
  BY <1>1, OrderOfElements DEF TableStands, Stands, Ordered
<1>3. /\ found' = TRUE /\ curhashelem' = elements[order[i]].listnext
      /\ Stands(elements', table', firsthashelem', lasthashelem', place, shorter)
      /\ DOMAIN elements' = DOMAIN elements \ {order[i]}
      /\ \A e \in DOMAIN elements' : elements'[e].key = elements[e].key
  <2>1. /\ found' = TRUE /\ curhashelem' = elements[order[i]].listnext
        /\ Stands(elements', table', firsthashelem', lasthashelem', place, Without(order, i))
        /\ DOMAIN elements' = DOMAIN elements \ {order[i]}
        /\ \A e \in DOMAIN elements' : elements'[e].key = elements[e].key
    BY DeletesOne, Zenon
  <2> QED BY <1>1, <2>1
<1>4. PICK c : c = IF i = n THEN 0 ELSE i
  OBVIOUS
<1>5. CursorAt(shorter, curhashelem', c)
  <2>1. curhashelem' = IF i = n THEN 0 ELSE order[i + 1]
    BY <1>1, <1>3, EndsOfList DEF NextOf
  <2>2. Len(shorter) = n - 1 /\ \A j \in 1..(n - 1) : shorter[j] = Closed(order, i, j)
    BY <1>1, <1>2, WithoutOne
  <2>3. CASE i = n
    BY <1>4, <2>1, <2>3 DEF CursorAt
  <2>4. CASE i # n
    <3>1. i \in 1..(n - 1) /\ ~(i < i)
      BY <1>2, <2>4
    <3>2. shorter[i] = order[i + 1]
      BY <2>2, <3>1 DEF Closed
    <3> QED BY <1>4, <2>1, <2>2, <2>4, <3>1, <3>2 DEF CursorAt
  <2> QED BY <2>3, <2>4
<1>6. Keylist' = KeysOf(elements', shorter) /\ Cursor' = c /\ HashInv'
  BY <1>3, <1>5, ShownNext
<1>7. KeysOf(elements', shorter) = Without(Keylist, i)
  <2>1. \A d \in DOMAIN elements \ {order[i]} : elements'[d].key = elements[d].key
    BY <1>3
  <2> QED BY <1>1, <2>1, KeysWithout
<1>8. List!RemoveAt(Keylist, i) = Without(Keylist, i)
  BY DEF List!RemoveAt, Without
<1>9. Keylist' = List!RemoveAt(Keylist, i) /\ Cursor' = c
  BY <1>6, <1>7, <1>8
<1>10. n = Len(Keylist) /\ i # 0 /\ found' = TRUE
  BY <1>1, <1>3
<1>11. List!RemoveCurrent(i)
  BY <1>4, <1>9, <1>10 DEF List!RemoveCurrent
<1> QED BY <1>6, <1>11

LEMMA DeleteIsDelete ==
  ASSUME HashInv, NEW k \in Keys, DeleteElement(k)
  PROVE  HashInv' /\ List!Delete(k)
<1>1. PICK place, order, c : /\ TableStands(place, order) /\ CursorAt(order, curhashelem, c)
                             /\ Keylist = KeysOf(elements, order) /\ Cursor = c
                             /\ Keylist \in Seq(Keys) /\ Len(Keylist) = Len(order)
  BY KeylistNow
<1>2. CASE Find(k) = 0
  <2>1. List!Position(k) = 0
    BY <1>1, <1>2, FindIsPosition
  <2>2. found' = FALSE /\ curhashelem' = 0 /\ UNCHANGED <<elements, table, firsthashelem, lasthashelem>>
    BY <1>2 DEF DeleteElement, Delete
  <2>3. CursorAt(order, curhashelem', 0)
    BY <2>2 DEF CursorAt
  <2>4. Keylist' = Keylist /\ Cursor' = 0 /\ HashInv'
    BY <1>1, <2>2, <2>3, OnlyCursor
  <2> QED BY <2>1, <2>2, <2>4 DEF List!Delete, List!RemoveCurrent
<1>3. CASE Find(k) # 0
  <2>1. PICK i \in 1..Len(order) : Find(k) = order[i] /\ List!Position(k) = i
    BY <1>1, <1>3, FindIsPosition
  <2>2. Delete(order[i])
    BY <2>1 DEF DeleteElement
  <2> QED BY <1>1, <2>1, <2>2, DeleteIsRemove DEF List!Delete
<1> QED BY <1>2, <1>3

LEMMA DeleteCurrentIsDeleteCurrent ==
  ASSUME HashInv, DeleteCurrentElement
  PROVE  HashInv' /\ List!DeleteCurrent
<1>1. PICK place, order, c : /\ TableStands(place, order) /\ CursorAt(order, curhashelem, c)
                             /\ Keylist = KeysOf(elements, order) /\ Cursor = c
                             /\ Keylist \in Seq(Keys) /\ Len(Keylist) = Len(order)
  BY KeylistNow
<1>2. curhashelem # LOST /\ Delete(curhashelem)
  BY DEF DeleteCurrentElement
<1>3. CASE curhashelem = 0 /\ c = 0
  <2>1. found' = FALSE /\ curhashelem' = 0 /\ UNCHANGED <<elements, table, firsthashelem, lasthashelem>>
    BY <1>2, <1>3 DEF Delete
  <2>2. CursorAt(order, curhashelem', 0)
    BY <2>1 DEF CursorAt
  <2>3. Keylist' = Keylist /\ Cursor' = 0 /\ HashInv'
    BY <1>1, <2>1, <2>2, OnlyCursor
  <2>4. 0 # LOST
    BY HashAssumption
  <2> QED BY <1>1, <1>3, <2>1, <2>3, <2>4 DEF List!DeleteCurrent, List!RemoveCurrent
<1>4. CASE \E i \in 1..Len(order) : curhashelem = order[i] /\ c = i
  <2>1. PICK i \in 1..Len(order) : curhashelem = order[i] /\ c = i
    BY <1>4
  <2>2. HashInv' /\ List!RemoveCurrent(i)
    BY <1>1, <1>2, <2>1, DeleteIsRemove
  <2>3. i # LOST
    BY HashAssumption
  <2> QED BY <1>1, <2>1, <2>2, <2>3 DEF List!DeleteCurrent
<1> QED BY <1>1, <1>2, <1>3, <1>4 DEF CursorAt

LEMMA GotoIsGoto ==
  ASSUME HashInv, NEW k \in Keys
  PROVE  /\ GotoElement(k) => HashInv' /\ List!Goto(k)
         /\ HasElement(k) => HashInv' /\ List!Has(k)
<1>1. PICK place, order, c : /\ TableStands(place, order) /\ CursorAt(order, curhashelem, c)
                             /\ Keylist = KeysOf(elements, order) /\ Cursor = c
                             /\ Keylist \in Seq(Keys) /\ Len(Keylist) = Len(order)
  BY KeylistNow
<1>2. PICK p : p = List!Position(k)
  OBVIOUS
<1>3. CursorAt(order, Find(k), p) /\ ((p # 0) <=> (Find(k) # 0))
  <2>1. \A i \in 1..Len(order) : i # 0
    OBVIOUS
  <2> QED BY <1>1, <1>2, <2>1, FindIsPosition DEF CursorAt
<1>4. ASSUME GotoElement(k) PROVE HashInv' /\ List!Goto(k)
  <2>1. /\ curhashelem' = Find(k) /\ found' = (Find(k) # 0)
        /\ UNCHANGED <<elements, table, firsthashelem, lasthashelem>>
    BY <1>4 DEF GotoElement
  <2>2. Keylist' = Keylist /\ Cursor' = p /\ HashInv'
    <3>1. CursorAt(order, curhashelem', p)
      BY <1>3, <2>1
    <3> QED BY <1>1, <2>1, <3>1, OnlyCursor
  <2> QED BY <1>2, <1>3, <2>1, <2>2 DEF List!Goto
<1>5. ASSUME HasElement(k) PROVE HashInv' /\ List!Has(k)
  <2>1. /\ curhashelem' = curhashelem /\ found' = (Find(k) # 0)
        /\ UNCHANGED <<elements, table, firsthashelem, lasthashelem>>
    BY <1>5 DEF HasElement
  <2>2. Keylist' = Keylist /\ Cursor' = c /\ HashInv'
    <3>1. CursorAt(order, curhashelem', c)
      BY <1>1, <2>1
    <3> QED BY <1>1, <2>1, <3>1, OnlyCursor
  <2> QED BY <1>1, <1>2, <1>3, <2>1, <2>2 DEF List!Has
<1> QED BY <1>4, <1>5

LEMMA GotoEndsIsGotoEnds ==
  ASSUME HashInv
  PROVE  /\ GotoFirstElement => HashInv' /\ List!GotoFirst
         /\ GotoLastElement => HashInv' /\ List!GotoLast
<1>1. PICK place, order, c : /\ TableStands(place, order) /\ CursorAt(order, curhashelem, c)
                             /\ Keylist = KeysOf(elements, order) /\ Cursor = c
                             /\ Keylist \in Seq(Keys) /\ Len(Keylist) = Len(order)
  BY KeylistNow
<1>2. PICK n \in Nat : n = Len(order)
  BY <1>1, OrderOfElements
<1>3. ASSUME GotoFirstElement PROVE HashInv' /\ List!GotoFirst
  <2>1. /\ curhashelem' = FirstOf(order) /\ found' = found
        /\ UNCHANGED <<elements, table, firsthashelem, lasthashelem>>
    BY <1>1, <1>3, EndsOfList DEF GotoFirstElement, GotoTo
  <2>2. PICK d : d = IF n = 0 THEN 0 ELSE 1
    OBVIOUS
  <2>3. CursorAt(order, curhashelem', d)
    BY <1>2, <2>1, <2>2 DEF CursorAt, FirstOf
  <2>4. Keylist' = Keylist /\ Cursor' = d /\ HashInv'
    BY <1>1, <2>1, <2>3, OnlyCursor
  <2>5. Keylist = <<>> <=> n = 0
    BY <1>1, <1>2
  <2> QED BY <2>1, <2>2, <2>4, <2>5 DEF List!GotoFirst
<1>4. ASSUME GotoLastElement PROVE HashInv' /\ List!GotoLast
  <2>1. /\ curhashelem' = LastOf(order) /\ found' = found
        /\ UNCHANGED <<elements, table, firsthashelem, lasthashelem>>
    BY <1>1, <1>4, EndsOfList DEF GotoLastElement, GotoTo
  <2>2. CursorAt(order, curhashelem', n)
    BY <1>2, <2>1 DEF CursorAt, LastOf
  <2>3. Keylist' = Keylist /\ Cursor' = n /\ HashInv'
    BY <1>1, <2>1, <2>2, OnlyCursor
  <2> QED BY <1>1, <1>2, <2>1, <2>3 DEF List!GotoLast
<1> QED BY <1>3, <1>4

\* Where the cursor goes from c in a list of n.
Following(c, n) == IF c \in {0, n} THEN 0 ELSE c + 1
Preceding(c) == IF c = 0 THEN 0 ELSE c - 1

LEMMA LinkOfCursor ==
  ASSUME NEW place, NEW order, TableStands(place, order),
         NEW c, CursorAt(order, curhashelem, c), curhashelem # LOST
  PROVE  /\ c # LOST
         /\ CursorAt(order, IF curhashelem = 0 THEN 0 ELSE elements[curhashelem].listnext, Following(c, Len(order)))
         /\ CursorAt(order, IF curhashelem = 0 THEN 0 ELSE elements[curhashelem].listprev, Preceding(c))
<1>1. PICK n \in Nat : n = Len(order)
  BY OrderOfElements
<1>2. CASE curhashelem = 0 /\ c = 0
  BY <1>2, HashAssumption DEF CursorAt, Following, Preceding
<1>3. CASE \E i \in 1..n : curhashelem = order[i] /\ c = i
  <2>1. PICK i \in 1..n : curhashelem = order[i] /\ c = i
    BY <1>3
  <2>2. curhashelem # 0 /\ elements[curhashelem].listnext = NextOf(order, i)
        /\ elements[curhashelem].listprev = PreviousOf(order, i)
    BY <1>1, <2>1, EndsOfList, OrderOfElements
  <2>3. CursorAt(order, NextOf(order, i), Following(i, n))
    <3>1. CASE i = n
      BY <1>1, <3>1 DEF CursorAt, NextOf, Following
    <3>2. CASE i # n
      <4>1. i + 1 \in 1..n /\ i # 0
        BY <3>2
      <4> QED BY <1>1, <3>2, <4>1 DEF CursorAt, NextOf, Following
    <3> QED BY <3>1, <3>2
  <2>4. CursorAt(order, PreviousOf(order, i), Preceding(i))
    <3>1. CASE i = 1
      BY <3>1 DEF CursorAt, PreviousOf, Preceding
    <3>2. CASE i # 1
      <4>1. i - 1 \in 1..n /\ i # 0
        BY <3>2
      <4> QED BY <1>1, <3>2, <4>1 DEF CursorAt, PreviousOf, Preceding
    <3> QED BY <3>1, <3>2
  <2>5. c # LOST
    BY <2>1, HashAssumption
  <2> QED BY <1>1, <2>1, <2>2, <2>3, <2>4, <2>5
<1> QED BY <1>1, <1>2, <1>3 DEF CursorAt

LEMMA GotoNeighbourIsGotoNeighbour ==
  ASSUME HashInv
  PROVE  /\ GotoNextElement => HashInv' /\ List!GotoNext
         /\ GotoPreviousElement => HashInv' /\ List!GotoPrevious
<1>1. PICK place, order, c : /\ TableStands(place, order) /\ CursorAt(order, curhashelem, c)
                             /\ Keylist = KeysOf(elements, order) /\ Cursor = c
                             /\ Keylist \in Seq(Keys) /\ Len(Keylist) = Len(order)
  BY KeylistNow
<1>2. ASSUME GotoNextElement PROVE HashInv' /\ List!GotoNext
  <2>1. /\ curhashelem # LOST /\ found' = found
        /\ curhashelem' = IF curhashelem = 0 THEN 0 ELSE elements[curhashelem].listnext
        /\ UNCHANGED <<elements, table, firsthashelem, lasthashelem>>
    BY <1>2 DEF GotoNextElement, GotoTo
  <2>2. c # LOST /\ CursorAt(order, curhashelem', Following(c, Len(order)))
    BY <1>1, <2>1, LinkOfCursor
  <2>3. Keylist' = Keylist /\ Cursor' = Following(c, Len(order)) /\ HashInv'
    BY <1>1, <2>1, <2>2, OnlyCursor
  <2> QED BY <1>1, <2>1, <2>2, <2>3 DEF List!GotoNext, Following
<1>3. ASSUME GotoPreviousElement PROVE HashInv' /\ List!GotoPrevious
  <2>1. /\ curhashelem # LOST /\ found' = found
        /\ curhashelem' = IF curhashelem = 0 THEN 0 ELSE elements[curhashelem].listprev
        /\ UNCHANGED <<elements, table, firsthashelem, lasthashelem>>
    BY <1>3 DEF GotoPreviousElement, GotoTo
  <2>2. c # LOST /\ CursorAt(order, curhashelem', Preceding(c))
    BY <1>1, <2>1, LinkOfCursor
  <2>3. Keylist' = Keylist /\ Cursor' = Preceding(c) /\ HashInv'
    BY <1>1, <2>1, <2>2, OnlyCursor
  <2> QED BY <1>1, <2>1, <2>2, <2>3 DEF List!GotoPrevious, Preceding
<1> QED BY <1>2, <1>3

LEMMA EmptyStands ==
  ASSUME NEW place
  PROVE  Stands(<<>>, [b \in Buckets |-> 0], 0, 0, place, <<>>)
<1>1. DOMAIN <<>> = {} /\ Len(<<>>) = 0 /\ <<>> \in Seq({})
  OBVIOUS
<1>2. Entries(<<>>) /\ Places({}, place) /\ Ordered({}, place, <<>>)
  BY <1>1 DEF Entries, Places, Ordered
<1>3. Listed(<<>>, place, 0, 0)
  BY <1>1 DEF Listed, FirstIn, LastIn
<1>4. Chained(<<>>, place, [b \in Buckets |-> 0])
  BY <1>1 DEF Chained, InBucket, LastIn
<1> QED BY <1>1, <1>2, <1>3, <1>4 DEF Stands

LEMMA EmptyShows == KeysOf(<<>>, <<>>) = <<>>
BY DEF KeysOf

LEMMA ClearIsClear ==
  ASSUME HashInv, Clear
  PROVE  HashInv' /\ List!Clear
<1>1. PICK place, order, c : /\ TableStands(place, order) /\ CursorAt(order, curhashelem, c)
                             /\ Cursor = c
  BY KeylistNow
<1>2. /\ elements' = <<>> /\ table' = [b \in Buckets |-> 0] /\ firsthashelem' = 0 /\ lasthashelem' = 0
      /\ curhashelem' \in {0, LOST} /\ found' = found
  BY DEF Clear
<1>3. Stands(elements', table', firsthashelem', lasthashelem', place, <<>>)
  BY <1>2, EmptyStands
<1>4. CursorAt(<<>>, curhashelem', curhashelem')
  BY <1>2 DEF CursorAt
<1>5. Keylist' = KeysOf(elements', <<>>) /\ Cursor' = curhashelem' /\ HashInv'
  BY <1>3, <1>4, ShownNext
<1> QED BY <1>2, <1>5, EmptyShows DEF List!Clear

LEMMA InitIsInit ==
  ASSUME HashInit
  PROVE  HashInv /\ List!Init
<1>1. PICK place : place = [d \in {} |-> 0]
  OBVIOUS
<1>2. TableStands(place, <<>>)
  BY EmptyStands DEF HashInit, TableStands
<1>3. CursorAt(<<>>, curhashelem, LOST)
  BY DEF HashInit, CursorAt
<1>4. Keylist = KeysOf(elements, <<>>) /\ Cursor = LOST
  BY <1>2, <1>3, ShownNow
<1>5. HashInv
  BY <1>2 DEF HashInit, HashInv
<1> QED BY <1>4, <1>5, EmptyShows DEF HashInit, List!Init

LEMMA StepIsStep ==
  ASSUME HashInv, [HashNext]_hashVars
  PROVE  HashInv' /\ [List!Next]_(List!vars)
<1>1. CASE UNCHANGED hashVars
  <2>1. HashInv' /\ Keylist' = Keylist /\ Cursor' = Cursor
    BY <1>1 DEF hashVars, HashInv, TableStands, Keylist, Cursor, Walk
  <2> QED BY <1>1, <2>1 DEF hashVars, List!vars
<1>2. ASSUME NEW k \in Keys, AddElement(k) \/ GotoElement(k) \/ HasElement(k) \/ DeleteElement(k)
      PROVE  HashInv' /\ List!Next
  <2>1. HashInv' /\ (List!Add(k) \/ List!Goto(k) \/ List!Has(k) \/ List!Delete(k))
    BY <1>2, AddIsAdd, GotoIsGoto, DeleteIsDelete
  <2> QED BY <2>1 DEF List!Next
<1>3. CASE GotoFirstElement \/ GotoLastElement
  BY <1>3, GotoEndsIsGotoEnds DEF List!Next
<1>4. CASE GotoNextElement \/ GotoPreviousElement
  BY <1>4, GotoNeighbourIsGotoNeighbour DEF List!Next
<1>5. CASE DeleteCurrentElement
  BY <1>5, DeleteCurrentIsDeleteCurrent DEF List!Next
<1>6. CASE Clear
  BY <1>6, ClearIsClear DEF List!Next
<1> QED BY <1>1, <1>2, <1>3, <1>4, <1>5, <1>6 DEF HashNext

\* Bucket chains and list always hold the same elements, in whatever order
\* they are added and deleted, and what every call of the table answers
\* (rtpkeyhashtable.h) is what a list of distinct keys with a cursor answers:
\* no source is lost, found twice, or reached after it was deleted.
THEOREM KeysAreAList == HashSpec => ImplementsKeyList
<1>1. HashInit => HashInv /\ List!Init
  BY InitIsInit
<1>2. HashInv /\ [HashNext]_hashVars => HashInv' /\ [List!Next]_(List!vars)
  BY StepIsStep
<1> QED BY <1>1, <1>2, PTL DEF HashSpec, ImplementsKeyList, List!Spec
=================================================================================
