----------------------------- MODULE RtcpPackets -----------------------------
(***************************************************************************)
(* How RTCP packets are put together and read: the sizes that              *)
(* RTCPCompoundPacketBuilder reckons with while parts are added, the bytes *)
(* that EndBuild writes, what RTCPCompoundPacket::ParseData and the        *)
(* classes of the single packets make of them, and how RTCPPacketBuilder   *)
(* spreads report blocks over several packets when there are more sources  *)
(* than fit into one.                                                      *)
(*                                                                         *)
(* A field of several bytes is written as a token that is followed by      *)
(* filling bytes.  Every other source has sent since the last report.  Of  *)
(* the SDES items only the CNAME is sent, as AudioSync sets no interval    *)
(* for another one.  What a report block says is left to RtcpReports.      *)
(***************************************************************************)
EXTENDS Integers, Sequences, SequencesExt

CONSTANTS
  Sources,       \* the other sources, in the order of the table
  Own,           \* SSRC of the session
  CnameLengths, ReasonLengths, AppLengths,
  PacketSizes,   \* what SetMaximumPacketSize may have been given
  MaxCount,      \* 31, what a header can count
  FULL           \* NOTENOUGHBYTESLEFT

VARIABLES
  maxpacketsize, cname,
  processed,     \* sources with SetProcessedInRTCP
  parts,         \* what was added to the last packet
  waited         \* history: reports in a row that left a source out

vars == <<maxpacketsize, cname, processed, parts, waited>>

Header == 4
SsrcSize == 4
SenderInfo == 20
BlockSize == 24
SDESHeader == 2

RoundUp(n) == ((n + 3) \div 4) * 4
Packets(n) == (n + MaxCount - 1) \div MaxCount
-----------------------------------------------------------------------------
(* RTCPCompoundPacketBuilder: the parts, and the bytes they need.  An SDES *)
(* source is its SSRC and the lengths of its items.                        *)

InitBuild == [isSR |-> FALSE, blocks |-> <<>>, sdes |-> <<>>, apps |-> <<>>, byes |-> <<>>]

\* Report::NeededBytes, once a report was started, for n blocks.
ReportBytes(isSR, n) ==
  n * BlockSize + (IF n = 0 THEN 1 ELSE Packets(n)) * (Header + SsrcSize)
    + (IF isSR THEN SenderInfo ELSE 0)

Sum(s) == FoldLeft(LAMBDA a, b : a + b, 0, s)
ItemBytes(items) == Sum([i \in DOMAIN items |-> SDESHeader + items[i]])

\* SDESSource::NeededBytes, with the zero byte that ends the items
ChunkBytes(items) == RoundUp(ItemBytes(items) + 1) + SsrcSize

SDESBytes(sdes) ==
  Sum([i \in DOMAIN sdes |-> ChunkBytes(sdes[i].items)]) + Packets(Len(sdes)) * Header

AppBytes(length) == Header + 2 * SsrcSize + length

ByeBytes(reason) ==
  Header + SsrcSize + (IF reason > 0 THEN RoundUp(1 + reason) ELSE 0)

OtherBytes(b) ==
  Sum([i \in DOMAIN b.apps |-> AppBytes(b.apps[i])]) + Sum([i \in DOMAIN b.byes |-> ByeBytes(b.byes[i])])

NeededBytes(b) == ReportBytes(b.isSR, Len(b.blocks)) + SDESBytes(b.sdes) + OtherBytes(b)

IfFits(b) == IF NeededBytes(b) > maxpacketsize THEN FULL ELSE b

\* StartSenderReport or StartReceiverReport
StartReport(isSR) == IfFits([InitBuild EXCEPT !.isSR = isSR])

AddReportBlock(b, x) == IfFits([b EXCEPT !.blocks = Append(@, x)])

\* AddSDESSource of the session itself asks for no room: there is no other source yet.
AddSDESSource(b, x) == [b EXCEPT !.sdes = Append(@, [ssrc |-> x, items |-> <<>>])]

AddSDESNormalItem(b, length) ==
  IfFits([b EXCEPT !.sdes[Len(b.sdes)].items = Append(@, length)])

AddAPPPacket(b, length) == IfFits([b EXCEPT !.apps = Append(@, length)])
AddBYEPacket(b, reason) == IfFits([b EXCEPT !.byes = Append(@, reason)])
-----------------------------------------------------------------------------
(* EndBuild.                                                               *)

\* Bytes: the first one of a field holds what the field says, the rest is zero.
Fill(n) == [i \in 1 .. n |-> [zero |-> TRUE]]
Field(token, size) == <<[zero |-> FALSE, is |-> token]>> \o Fill(size - 1)

\* A packet: its header says how many words follow.
Written(type, count, body) ==
  Field([type |-> type, count |-> count, length |-> Len(body) \div 4], Header) \o body

Concat(s) == FoldLeft(LAMBDA a, b : a \o b, <<>>, s)
Group(s, i) == SubSeq(s, (i - 1) * MaxCount + 1, IF i * MaxCount < Len(s) THEN i * MaxCount ELSE Len(s))

WriteReport(b, i) ==
  LET group == Group(b.blocks, i)
      isSR == b.isSR /\ i = 1
  IN Written(IF isSR THEN "SR" ELSE "RR", Len(group),
             Field(Own, SsrcSize) \o Fill(IF isSR THEN SenderInfo ELSE 0)
               \o Concat([j \in DOMAIN group |-> Field(group[j], BlockSize)]))

WriteReports(b) ==
  Concat([i \in 1 .. (IF b.blocks = <<>> THEN 1 ELSE Packets(Len(b.blocks))) |-> WriteReport(b, i)])

Item(length) == Field([length |-> length], SDESHeader) \o Fill(length)

WriteChunk(chunk) ==
  LET items == Concat([i \in DOMAIN chunk.items |-> Item(chunk.items[i])])
  IN Field(chunk.ssrc, SsrcSize) \o items \o Fill(RoundUp(Len(items) + 1) - Len(items))

WriteSDES(b) ==
  Concat([i \in 1 .. Packets(Len(b.sdes)) |->
    LET group == Group(b.sdes, i)
    IN Written("SDES", Len(group), Concat([j \in DOMAIN group |-> WriteChunk(group[j])]))])

WriteApp(length) == Written("APP", 0, Field(Own, SsrcSize) \o Field("name", SsrcSize) \o Fill(length))

WriteBye(reason) ==
  Written("BYE", 1, Field(Own, SsrcSize)
    \o (IF reason = 0 THEN <<>> ELSE Field([length |-> reason], RoundUp(1 + reason))))

EndBuild(b) ==
  WriteReports(b) \o WriteSDES(b) \o Concat([i \in DOMAIN b.apps |-> WriteApp(b.apps[i])])
    \o Concat([i \in DOMAIN b.byes |-> WriteBye(b.byes[i])])
-----------------------------------------------------------------------------
(* RTCPPacketBuilder.                                                      *)

Init ==
  /\ maxpacketsize \in PacketSizes /\ cname \in CnameLengths
  /\ processed = {}
  /\ parts = InitBuild
  /\ waited = [x \in ToSet(Sources) |-> 0]

\* A report about nobody yet, with the CNAME.
Start(isSR) == AddSDESNormalItem(AddSDESSource(StartReport(isSR), Own), cname)

\* FillInReportBlocks: goes through the table from its beginning, and takes
\* the sources without flag until there are maxcount of them or no more fit.
FillInReportBlocks(b, flags, maxcount) ==
  LET waiting == SelectSeq(Sources, LAMBDA x : x \notin flags)
      wanted == IF maxcount < Len(waiting) THEN maxcount ELSE Len(waiting)
      with(n) == [b EXCEPT !.blocks = @ \o SubSeq(waiting, 1, n)]
      added == CHOOSE n \in 0 .. wanted :
                 /\ n > 0 => IfFits(with(n)) # FULL
                 /\ n < wanted => IfFits(with(n + 1)) = FULL
  IN [b |-> with(added), added |-> added, full |-> added < wanted,
      flags |-> flags \cup ToSet(SubSeq(waiting, 1, added)),
      skipped |-> Len(Sources) - Len(waiting)]

\* Mutated form: no source is marked as processed.
NextPacketForgetful(isSR) ==
  LET fill == FillInReportBlocks(Start(isSR), {}, Len(Sources))
  IN [packet |-> IF fill.full /\ fill.added = 0 THEN FULL ELSE fill.b, flags |-> {}]

\* Once the sources have all been in a packet, some of those before are taken
\* again.  When not even one block fits, there is no packet.
NextPacket(isSR) ==
  LET first == FillInReportBlocks(Start(isSR), processed, Len(Sources))
      second == FillInReportBlocks(first.b, {}, first.skipped)
  IN IF first.full
     THEN [packet |-> IF first.added = 0 THEN FULL ELSE first.b, flags |-> first.flags]
     ELSE [packet |-> second.b, flags |-> second.flags]

BuildNextPacket(isSR) ==
  \E result \in {NextPacket(isSR)} :
     /\ result.packet # FULL
     /\ parts' = result.packet /\ processed' = result.flags
     /\ waited' = [x \in DOMAIN waited |->
                     IF x \in ToSet(result.packet.blocks) THEN 0 ELSE waited[x] + 1]
     /\ UNCHANGED <<maxpacketsize, cname>>

\* RTPSession::SendRTCPAPPPacket
SendRTCPAPPPacket(length) ==
  LET b == AddAPPPacket(Start(FALSE), length)
  IN /\ b # FULL /\ parts' = b
     /\ UNCHANGED <<maxpacketsize, cname, processed, waited>>

BuildBYEPacket(isSR, reason) ==
  LET b == AddBYEPacket(Start(isSR), reason)
  IN /\ b # FULL /\ parts' = b
     /\ UNCHANGED <<maxpacketsize, cname, processed, waited>>

Next ==
  \/ \E isSR \in BOOLEAN : BuildNextPacket(isSR)
  \/ \E length \in AppLengths : SendRTCPAPPPacket(length)
  \/ \E isSR \in BOOLEAN, reason \in ReasonLengths : BuildBYEPacket(isSR, reason)
-----------------------------------------------------------------------------
(* Reading.                                                                *)

\* The packets that follow each other in bytes, as ParseData takes them
\* apart, or FULL when a length does not agree.
Take(s, n) == SubSeq(s, 1, n)
Drop(s, n) == SubSeq(s, n + 1, Len(s))

ParseData(bytes) ==
  LET from[n \in 0 .. Len(bytes)] ==  \* n bytes are left
        LET rest == Drop(bytes, Len(bytes) - n)
            length == (Head(rest).is.length + 1) * 4
        IN IF n = 0 THEN <<>>
           ELSE IF n < Header \/ length > n THEN <<FULL>>
           ELSE <<Take(rest, length)>> \o from[n - length]
  IN from[Len(bytes)]

\* The blocks of RTCPSRPacket and RTCPRRPacket, which must fill it exactly.
ReadReport(p) ==
  LET start == Header + SsrcSize + (IF p[1].is.type = "SR" THEN SenderInfo ELSE 0)
  IN IF start + p[1].is.count * BlockSize # Len(p) THEN <<FULL>>
     ELSE [i \in 1 .. p[1].is.count |-> p[start + (i - 1) * BlockSize + 1].is]

\* The chunks of RTCPSDESPacket: an item list ends with a zero byte, and the
\* chunk at the next word.
ReadSDES(p) ==
  LET IsItem(i) == i <= Len(p) /\ ~p[i].zero
      items[i \in 1 .. Len(p) + 1] ==
        IF IsItem(i) THEN <<p[i].is.length>> \o items[i + SDESHeader + p[i].is.length] ELSE <<>>
      chunks[i \in 1 .. Len(p) + 1] ==
        IF i > Len(p) THEN <<>>
        ELSE LET here == items[i + SsrcSize]
             IN IF i - 1 + ChunkBytes(here) > Len(p) THEN <<FULL>>
                ELSE <<[ssrc |-> p[i].is, items |-> here]>> \o chunks[i + ChunkBytes(here)]
  IN chunks[Header + 1]

ReadApp(p) == Len(p) - (Header + 2 * SsrcSize)

\* RTCPBYEPacket: what is left after the SSRCs is a reason.
ReadBye(p) ==
  LET ssrclen == Header + p[1].is.count * SsrcSize
  IN IF ssrclen = Len(p) THEN 0 ELSE p[ssrclen + 1].is.length

ReadAll(types, Read(_)) ==
  LET packets == SelectSeq(ParseData(EndBuild(parts)), LAMBDA p : p = FULL \/ p[1].is.type \in types)
  IN [i \in DOMAIN packets |-> Read(packets[i])]
-----------------------------------------------------------------------------
(* Properties.                                                             *)

\* EndBuild writes as many bytes as it has asked for, and no more than a
\* packet may have: what the parts were reckoned with while they were added
\* is what they take, with every header and every alignment.
FillsItsBuffer ==
  parts.sdes # <<>> => Len(EndBuild(parts)) = NeededBytes(parts) /\ NeededBytes(parts) <= maxpacketsize

\* The other side reads what was put in, in the same order, whatever the
\* length of the CNAME and however many headers the blocks need.
ReadsBack ==
  parts.sdes # <<>> =>
    /\ Concat(ReadAll({"SR", "RR"}, ReadReport)) = parts.blocks
    /\ Concat(ReadAll({"SDES"}, ReadSDES)) = parts.sdes
    /\ ReadAll({"APP"}, ReadApp) = parts.apps
    /\ ReadAll({"BYE"}, ReadBye) = parts.byes

\* When not all of them fit into one packet, the reports go round: no source
\* is left out of as many reports in a row as there are sources.
ReportedInTurn == \A x \in DOMAIN waited : waited[x] < Len(Sources)
=============================================================================
