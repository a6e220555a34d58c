------------------------------ MODULE SdesItems ------------------------------
(***************************************************************************)
(* The SDES items of a session besides its CNAME (rtcppacketbuilder.cpp,   *)
(* rtcppacketbuilder.h, rtcpsdesinfo.h): every so many rounds of reports   *)
(* RTCPPacketBuilder adds a name, a note and others, over as many packets  *)
(* as they need, before it goes on with report blocks.  AudioSync sets no  *)
(* interval, so that its packets are those of RtcpPackets, which has the   *)
(* sizes and the report blocks of this module, too.                        *)
(***************************************************************************)
EXTENDS Integers, Sequences, SequencesExt

CONSTANTS
  Sources, Own, CnameLengths, ReasonLengths, AppLengths, PacketSizes, MaxCount, FULL,
  Items,         \* the items in the order of FillInSDES
  ItemLengths,   \* lengths an item may be given
  Intervals,     \* that an item may be given
  Cycle          \* bound: sdesbuildcount is kept modulo a multiple of them

VARIABLES
  maxpacketsize, cname, processed, parts, waited,
  intervals,
  local,           \* length of the own items
  sdesbuildcount,
  due,             \* items with doname, doemail ...
  sent,            \* items with SetProcessedName ...
  processingsdes,
  added,           \* history: items sent since the last round began
  reported,        \* history: sources reported since the last round began
  missed           \* history: sources the last round began without

Reports == INSTANCE RtcpPackets

packetVars == <<maxpacketsize, cname, waited>>
settingVars == <<intervals, local>>
roundVars == <<sdesbuildcount, due, sent, processingsdes, added, reported, missed>>
vars == <<packetVars, processed, parts, settingVars, roundVars>>

Init ==
  /\ Reports!Init
  /\ intervals = [i \in ToSet(Items) |-> -1] /\ local = [i \in ToSet(Items) |-> 0]
  /\ sdesbuildcount = 0 /\ due = {} /\ sent = {} /\ processingsdes = FALSE
  /\ added = <<>> /\ reported = {} /\ missed = {}
-----------------------------------------------------------------------------
\* SetNameInterval, SetEMailInterval ...
SetInterval(item, count) ==
  /\ intervals' = [intervals EXCEPT ![item] = count]
  /\ UNCHANGED <<packetVars, processed, parts, local, roundVars>>

\* SetLocalName, SetLocalEMail ...
SetLocal(item, length) ==
  /\ local' = [local EXCEPT ![item] = length]
  /\ UNCHANGED <<packetVars, processed, parts, intervals, roundVars>>

\* Mutated form: an item that did not fit any more counts as sent.
FillInSDESDropping(b, items, flags) ==
  LET waiting == SelectSeq(Items, LAMBDA i : i \in items \ flags)
      with(n) == [b EXCEPT !.sdes[1].items = @ \o [k \in 1 .. n |-> local[waiting[k]]]]
      n == CHOOSE n \in 0 .. Len(waiting) :
             /\ n > 0 => Reports!IfFits(with(n)) # FULL
             /\ n < Len(waiting) => Reports!IfFits(with(n + 1)) = FULL
  IN [b |-> with(n), added |-> SubSeq(waiting, 1, n), full |-> FALSE]

\* FillInSDES: the items that are due and have no flag yet, until one does not
\* fit; the own SSRC is there with its CNAME.
FillInSDES(b, items, flags) ==
  LET waiting == SelectSeq(Items, LAMBDA i : i \in items \ flags)
      with(n) == [b EXCEPT !.sdes[1].items = @ \o [k \in 1 .. n |-> local[waiting[k]]]]
      n == CHOOSE n \in 0 .. Len(waiting) :
             /\ n > 0 => Reports!IfFits(with(n)) # FULL
             /\ n < Len(waiting) => Reports!IfFits(with(n + 1)) = FULL
  IN [b |-> with(n), added |-> SubSeq(waiting, 1, n), full |-> n < Len(waiting)]

\* Neither does more than the parts of it that follow: each is a packet, the
\* flags of the sources and of the items, and what is due.
Packet(b, flags, items, itemflags, processing, fill) ==
  [b |-> b, processed |-> flags, due |-> items, sent |-> itemflags, processingsdes |-> processing,
   added |-> fill]

\* Not all sources have been in a packet yet.
MoreBlocks(blocks) ==
  Packet(IF blocks.added = 0 THEN FULL ELSE blocks.b, blocks.flags, due, sent, FALSE, <<>>)

DueAt(count) == {i \in DOMAIN intervals : intervals[i] > 0 /\ count % intervals[i] = 0}

\* They have: a round of items begins, and when it ends in the same packet
\* some of the sources before are taken again.
BeginsRound(blocks) ==
  LET items == DueAt(sdesbuildcount + 1)
      fill == FillInSDES(blocks.b, items, sent)
      again == Reports!FillInReportBlocks(fill.b, {}, blocks.skipped)
  IN IF fill.full THEN Packet(fill.b, {}, items, sent \cup ToSet(fill.added), TRUE, fill.added)
     ELSE Packet(again.b, again.flags, items, {}, FALSE, fill.added)

\* Previous sdes processing was not finished.
ContinuesRound(b) ==
  LET fill == FillInSDES(b, due, sent)
      blocks == Reports!FillInReportBlocks(fill.b, processed, Len(Sources))
  IN IF fill.full
     THEN Packet(IF fill.added = <<>> THEN FULL ELSE fill.b, processed, due,
                 sent \cup ToSet(fill.added), TRUE, fill.added)
     ELSE Packet(blocks.b, IF blocks.full THEN blocks.flags ELSE {}, due, {}, FALSE, fill.added)

NextPacket(isSR) ==
  LET start == Reports!Start(isSR)
      blocks == Reports!FillInReportBlocks(start, processed, Len(Sources))
  IN IF processingsdes THEN ContinuesRound(start)
     ELSE IF blocks.full THEN MoreBlocks(blocks)
     ELSE BeginsRound(blocks)

BeginsItems(isSR) ==
  ~processingsdes /\ ~Reports!FillInReportBlocks(Reports!Start(isSR), processed, Len(Sources)).full

BuildNextPacket(isSR) ==
  \E result \in {NextPacket(isSR)}, begins \in {BeginsItems(isSR)} :
     /\ result.b # FULL
     /\ parts' = result.b /\ processed' = result.processed
     /\ due' = result.due /\ sent' = result.sent /\ processingsdes' = result.processingsdes
     /\ sdesbuildcount' = IF begins THEN (sdesbuildcount + 1) % Cycle ELSE sdesbuildcount
     /\ added' = IF begins THEN result.added ELSE added \o result.added
     /\ reported' = IF begins THEN result.processed ELSE reported \cup ToSet(result.b.blocks)
     /\ missed' = IF begins THEN ToSet(Sources) \ (reported \cup ToSet(result.b.blocks)) ELSE missed
     /\ UNCHANGED <<packetVars, settingVars>>

Next ==
  \/ \E item \in ToSet(Items) :
       \/ \E count \in Intervals : SetInterval(item, count)
       \/ \E length \in ItemLengths : SetLocal(item, length)
  \/ \E isSR \in BOOLEAN : BuildNextPacket(isSR)
-----------------------------------------------------------------------------
(* Properties.                                                             *)

\* "An SDES name item will be added after the sources in the source table
\* have been processed count times" (rtcppacketbuilder.h:108-112): a round of
\* items begins when every source has been reported since the one before, all
\* that were due then are sent once, in their order, over one packet or more,
\* and there is always a packet to send.
ItemsInRounds ==
  /\ missed = {}
  /\ LET done == SelectSeq(Items, LAMBDA i : i \in due)
     IN IF processingsdes THEN IsStrictPrefix(added, done) ELSE added = done
  /\ \A isSR \in BOOLEAN : NextPacket(isSR).b # FULL
=============================================================================
