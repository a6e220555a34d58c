----------------------------- MODULE RtpPackets -----------------------------
(***************************************************************************)
(* How an RTP packet is built and read: RTPPacketBuilder with its list of  *)
(* contributing sources, RTPPacket::BuildPacket, and what                  *)
(* RTPPacket::ParseRawPacket makes of the bytes on the other side.         *)
(*                                                                         *)
(* Header fields, sources and the words of a header extension are tokens,  *)
(* the first of which takes twelve bytes and the others four; payload is   *)
(* counted in bytes.  Packets are not padded.  The random numbers of       *)
(* CreateNewSSRC are any.                                                  *)
(***************************************************************************)
EXTENDS Integers, Sequences, SequencesExt, FiniteSets

CONSTANTS
  Csrcs, MaxCsrcs,           \* RTP_MAXCSRCS
  PayloadTypes,              \* that may be asked for
  PayloadLengths, ExtensionLengths,
  MaxPackSizes,
  SeqNrs,                    \* 2^16
  NONE

VARIABLES
  maxpacksize,
  csrcs,          \* the list of contributing sources
  contributors,   \* history: those that were added and not deleted since
  seqnr, numpackets, numpayloadbytes,
  buffer,         \* the packet that was built last, as it is sent
  given           \* history: what it was built from

builderVars == <<seqnr, numpackets, numpayloadbytes>>
vars == <<maxpacksize, csrcs, contributors, builderVars, buffer, given>>

HeaderSize == 12
WordSize == 4

Init ==
  /\ maxpacksize \in MaxPackSizes
  /\ csrcs = <<>> /\ contributors = {}
  /\ seqnr \in 0 .. SeqNrs - 1 /\ numpackets = 0 /\ numpayloadbytes = 0
  /\ buffer = NONE /\ given = NONE
-----------------------------------------------------------------------------
(* RTPPacketBuilder.                                                       *)

AddCSRC(x) ==
  /\ Len(csrcs) < MaxCsrcs /\ ~Contains(csrcs, x)
  /\ csrcs' = Append(csrcs, x) /\ contributors' = contributors \cup {x}
  /\ UNCHANGED <<maxpacksize, builderVars, buffer, given>>

\* The last source takes the place of the one that is deleted.
WithoutCSRC(i) == Front([csrcs EXCEPT ![i] = Last(csrcs)])

DeleteCSRC(x) ==
  /\ \E i \in DOMAIN csrcs : csrcs[i] = x /\ csrcs' = WithoutCSRC(i)
  /\ contributors' = contributors \ {x}
  /\ UNCHANGED <<maxpacksize, builderVars, buffer, given>>

ClearCSRCList ==
  /\ csrcs' = <<>> /\ contributors' = {}
  /\ UNCHANGED <<maxpacksize, builderVars, buffer, given>>

SetMaximumPacketSize(max) ==
  /\ maxpacksize' = max
  /\ UNCHANGED <<csrcs, contributors, builderVars, buffer, given>>

CreateNewSSRC(n) ==
  /\ seqnr' = n /\ numpackets' = 0 /\ numpayloadbytes' = 0
  /\ UNCHANGED <<maxpacksize, csrcs, contributors, buffer, given>>

\* A payload type that could be taken for RTCP, or does not fit, is refused.
Allowed(payloadtype) == payloadtype <= 127 /\ payloadtype \notin {72, 73}

\* BuildPacket; words is NONE without a header extension.
Written(payloadtype, marker, length, words) ==
  LET extension == IF words = NONE THEN <<>> ELSE <<[extid |-> 0, length |-> words]>> \o [i \in 1 .. words |-> i]
  IN [tokens |-> <<[payloadtype |-> payloadtype % 128, marker |-> marker, csrccount |-> Len(csrcs),
                    extension |-> words # NONE, seqnr |-> seqnr]>> \o csrcs \o extension,
      length |-> HeaderSize + WordSize * (Len(csrcs) + Len(extension)) + length]

PrivateBuildPacket(payloadtype, marker, length, words) ==
  LET packet == Written(payloadtype, marker, length, words)
  IN /\ Allowed(payloadtype) /\ packet.length <= maxpacksize
     /\ buffer' = packet
     /\ given' = [payloadtype |-> payloadtype, marker |-> marker, length |-> length, words |-> words,
                  seqnr |-> seqnr, contributors |-> contributors]
     /\ seqnr' = (seqnr + 1) % SeqNrs
     /\ numpackets' = numpackets + 1 /\ numpayloadbytes' = numpayloadbytes + length
     /\ UNCHANGED <<maxpacksize, csrcs, contributors>>

Next ==
  \/ \E x \in Csrcs : AddCSRC(x) \/ DeleteCSRC(x)
  \/ ClearCSRCList
  \/ \E max \in MaxPackSizes : SetMaximumPacketSize(max)
  \/ \E n \in 0 .. SeqNrs - 1 : CreateNewSSRC(n)
  \/ /\ numpackets < SeqNrs
     /\ \E payloadtype \in PayloadTypes, marker \in BOOLEAN, length \in PayloadLengths,
           words \in ExtensionLengths \cup {NONE} :
          PrivateBuildPacket(payloadtype, marker, length, words)
-----------------------------------------------------------------------------
(* ParseRawPacket, NONE for an invalid packet.                             *)

Parsed(packet) ==
  LET header == packet.tokens[1]
      extension == IF header.extension THEN packet.tokens[header.csrccount + 2].length ELSE NONE
      payloadoffset == HeaderSize + WordSize * header.csrccount
                         + (IF header.extension THEN WordSize * (extension + 1) ELSE 0)
  IN IF (header.marker /\ header.payloadtype \in {72, 73}) \/ packet.length < payloadoffset THEN NONE
     ELSE [payloadtype |-> header.payloadtype, marker |-> header.marker,
           length |-> packet.length - payloadoffset, words |-> extension, seqnr |-> header.seqnr,
           contributors |-> {packet.tokens[i + 1] : i \in 1 .. header.csrccount}]
-----------------------------------------------------------------------------
(* Properties.                                                             *)

\* What BuildPacket has accepted is read as it was meant, with or without a
\* header extension, and names those sources that were added and not deleted
\* since, in whatever order; a marked packet is never taken for RTCP.
ParsesBack == buffer # NONE => Parsed(buffer) = given
=============================================================================
