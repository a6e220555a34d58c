----------------------------- MODULE RtcpReports -----------------------------
(***************************************************************************)
(* What the RTCP reports of jrtplib tell a sender of the stream it sends:  *)
(* a receiver counts the packets (rtpsourcedata.cpp), puts a report block  *)
(* into its next report (rtcppacketbuilder.cpp), and the sender keeps what *)
(* it says of its own SSRC (rtpsources.cpp) for StatisticsActivity.  And   *)
(* how two sessions that drew the same SSRC part (rtpsession.cpp).         *)
(*                                                                         *)
(* One sender and one receiver.  Only the sender sends more than one RTP   *)
(* packet.  RTP packets are lost or repeated, and reordered when their     *)
(* numbers do not wrap.  In each direction one RTCP packet is under way,   *)
(* lost if the next one is sent before it is received.  A report has room  *)
(* for everything: there are never more than a few sources.  Left out: the *)
(* jitter and the times, the time-outs of members (SenderMembership has    *)
(* them) and of the collision list, and CSRCs.                             *)
(***************************************************************************)
EXTENDS Integers, Sequences, FiniteSets, FiniteSetsExt

CONSTANTS
  SeqMod,              \* 2^16: sequence numbers
  LostMod,             \* 2^24: lost packets, with a sign
  RTP_PROBATIONCOUNT,
  Trials,              \* what a behaviour may begin with and its bound
  NULL

\* What they are.
Constants ==
  /\ SeqMod \in Nat /\ SeqMod > 1 /\ LostMod \in Nat
  /\ \A t \in Trials :
       /\ t.same \in BOOLEAN /\ t.before \in BOOLEAN /\ t.wraps \in BOOLEAN
       /\ t.packets \in Nat /\ 2 * t.packets < SeqMod /\ 4 * t.packets < LostMod
  /\ RTP_PROBATIONCOUNT \in Nat \ {0}
  /\ NULL \notin Nat

Sessions == {"sender", "receiver"}
Other(p) == IF p = "sender" THEN "receiver" ELSE "sender"

VARIABLES
  \* Never changed: whether both drew the same SSRC, a receiver ran there before, and
  \* the numbers wrap while RTP packets keep their order, and how many the sender sends
  trial,
  ssrc, drawn,    \* SSRC of a session, and how many were drawn
  table,          \* RTPSources::sourcelist of a session: entries by SSRC
  sentpackets, byepackets,
  collisionlist,  \* whether the other's address is in it
  greeted,        \* the receiver has sent its HI
  seqnr,          \* next sequence number of the sender
  count,          \* RTP packets of the sender so far
  destination,    \* whether the receiver is one of the sender's
  rtp,            \* RTP packets under way
  rtcp            \* to a session, or NULL

identityVars == <<ssrc, drawn, sentpackets, byepackets, collisionlist>>
sendVars == <<greeted, seqnr, count>>
vars == <<trial, identityVars, table, sendVars, destination, rtp, rtcp>>

Put(f, x, e) == [y \in DOMAIN f \cup {x} |-> IF y = x THEN e ELSE f[y]]
Without(f, x) == [y \in DOMAIN f \ {x} |-> f[y]]
-----------------------------------------------------------------------------
(* RTPSourceStats.  fresh tells that a packet came since the last report   *)
(* was built.  first, heard and surplus are history: the packet that was   *)
(* counted first, those from it on that were heard, and how many more were *)
(* counted, repeated or from before.                                       *)

NewStats ==
  [sentdata |-> FALSE, probation |-> 0, prevseqnr |-> 0,
   numcycles |-> 0, baseseqnr |-> 0, exthighseqnr |-> 0, savedextseqnr |-> 0,
   packetsreceived |-> 0, numnewpackets |-> 0, fresh |-> FALSE,
   first |-> 0, heard |-> {}, surplus |-> 0]

\* ACCEPTPACKETCODE
Accept(stats, pack) ==
  LET cycle == IF pack.seqnr = 0 THEN SeqMod ELSE 0
      base == cycle + pack.seqnr - 1
  IN [stats EXCEPT
        !.sentdata = TRUE, !.fresh = TRUE,
        !.packetsreceived = @ + 1, !.numnewpackets = @ + 1,
        !.numcycles = IF pack.seqnr = 0 THEN SeqMod ELSE @,
        !.baseseqnr = base, !.savedextseqnr = base, !.exthighseqnr = base + 1,
        !.first = pack.index, !.heard = {pack.index}]

Expected(stats, pack) == pack.seqnr = (stats.prevseqnr + 1) % SeqMod

OnProbation(stats, pack) ==
  LET left == IF stats.probation > 0 /\ Expected(stats, pack)
              THEN stats.probation - 1 ELSE RTP_PROBATIONCOUNT
      seen == [stats EXCEPT !.probation = left, !.prevseqnr = pack.seqnr]
  IN IF left = 0 THEN Accept(seen, pack) ELSE seen

\* Mutated form: a number below the highest one is always late.
BehindAlways(stats, pack) == TRUE

\* A number below the highest one is late, unless numbers have wrapped.
Behind(stats, pack) ==
  LET max == stats.exthighseqnr % SeqMod
  IN (pack.seqnr - max) % SeqMod >= (max - pack.seqnr) % SeqMod

Count(stats, pack) ==
  LET ahead == pack.seqnr >= stats.exthighseqnr % SeqMod
      late == ~ahead /\ Behind(stats, pack)
      cycles == IF ahead \/ late THEN stats.numcycles ELSE stats.numcycles + SeqMod
      anew == pack.index < stats.first \/ pack.index \in stats.heard
  IN [stats EXCEPT
        !.packetsreceived = @ + 1, !.numnewpackets = @ + 1, !.fresh = TRUE,
        !.numcycles = cycles,
        !.exthighseqnr = IF late THEN @ ELSE cycles + pack.seqnr,
        !.heard = IF anew THEN @ ELSE @ \cup {pack.index},
        !.surplus = IF anew THEN @ + 1 ELSE @]

ProcessPacket(stats, pack, applyprobation) ==
  CASE stats.sentdata -> Count(stats, pack)
    [] ~stats.sentdata /\ applyprobation -> OnProbation(stats, pack)
    [] ~stats.sentdata /\ ~applyprobation -> Accept(stats, pack)

\* Packets that are really missing, less the surplus.
ReallyLost(stats) ==
  Cardinality((stats.first .. Max(stats.heard)) \ stats.heard) - stats.surplus
-----------------------------------------------------------------------------
(* RTPInternalSourceData.                                                  *)

NoReport == [packetslost |-> 0, truth |-> 0]

NewEntry ==
  [ownssrc |-> FALSE, validated |-> FALSE, receivedbye |-> FALSE,
   stats |-> NewStats, RRinf |-> NoReport]
OwnEntry == [NewEntry EXCEPT !.ownssrc = TRUE, !.validated = TRUE]

Entry(p, x) == IF x \in DOMAIN table[p] THEN table[p][x] ELSE NewEntry
IsOwn(p, x) == Entry(p, x).ownssrc

ProcessRTPPacket(entry, pack) ==
  LET stats == ProcessPacket(entry.stats, pack, ~entry.validated)
  IN [entry EXCEPT !.stats = stats, !.validated = @ \/ stats.sentdata]
-----------------------------------------------------------------------------
(* A receiver starts.  It may draw the SSRC of the sender, and the sender  *)
(* may still stream to the receiver that ran there before.                 *)

Init ==
  /\ trial \in Trials
  /\ ssrc = [sender |-> 1, receiver |-> IF trial.same THEN 1 ELSE 2]
  /\ drawn = 3
  /\ table = [sender |-> IF trial.before THEN Put(Put(<<>>, 1, OwnEntry), 3, NewEntry)
                         ELSE Put(<<>>, 1, OwnEntry),
              receiver |-> Put(<<>>, ssrc["receiver"], OwnEntry)]
  /\ destination = trial.before
  /\ sentpackets = [sender |-> trial.before, receiver |-> FALSE]
  /\ byepackets = [p \in Sessions |-> <<>>]
  /\ collisionlist = [p \in Sessions |-> FALSE]
  /\ greeted = FALSE /\ count = 0
  /\ seqnr = IF trial.wraps THEN SeqMod - 2 ELSE 0
  /\ rtp = {} /\ rtcp = [p \in Sessions |-> NULL]
-----------------------------------------------------------------------------
(* RTP packets.  more tells that the packet may arrive once again.         *)

RTPPacket(p, n, i) == [to |-> Other(p), ssrc |-> ssrc[p], seqnr |-> n, index |-> i, more |-> TRUE]

\* ReceiverSession::RunNetwork begins.
SayHi ==
  /\ ~greeted
  /\ greeted' = TRUE
  /\ rtp' = rtp \cup {RTPPacket("receiver", 1, 1)}
  /\ sentpackets' = [sentpackets EXCEPT !["receiver"] = TRUE]
  /\ UNCHANGED <<trial, ssrc, drawn, byepackets, collisionlist, table, seqnr, count, destination, rtcp>>

\* RTPSession::SendPacket of the sender, who may have no destination.
SendFrame ==
  /\ count < trial.packets
  /\ count' = count + 1
  /\ seqnr' = (seqnr + 1) % SeqMod
  /\ rtp' = IF destination THEN rtp \cup {RTPPacket("sender", seqnr, count + 1)} ELSE rtp
  /\ sentpackets' = [sentpackets EXCEPT !["sender"] = TRUE]
  /\ UNCHANGED <<trial, ssrc, drawn, byepackets, collisionlist, table, greeted, destination, rtcp>>

\* SenderSession::OnNewSource
OnNewSource(p, x) == destination \/ (p = "sender" /\ x \notin DOMAIN table[p])

\* Mutated form: the SSRC stays until something was sent under it.
ChangesIfSent(p) == ~collisionlist[p] /\ sentpackets[p]

\* An address that has collided before is taken for a loop.
Changes(p) == ~collisionlist[p]

\* The end of ProcessPolledData's loop, when the packet had the session's own SSRC.
OwnCollision(p) ==
  /\ collisionlist' = [collisionlist EXCEPT ![p] = TRUE]
  /\ IF Changes(p)
     THEN /\ byepackets' = [byepackets EXCEPT ![p] = IF sentpackets[p] THEN Append(@, ssrc[p]) ELSE @]
          /\ drawn' = drawn + 1
          /\ ssrc' = [ssrc EXCEPT ![p] = drawn']
          /\ sentpackets' = [sentpackets EXCEPT ![p] = FALSE]
          /\ table' = [table EXCEPT ![p] = Put(Without(@, ssrc[p]), drawn', OwnEntry)]
          /\ seqnr' = IF p = "sender" THEN (IF trial.wraps THEN SeqMod - 1 ELSE 0) ELSE seqnr
     ELSE UNCHANGED <<byepackets, drawn, ssrc, sentpackets, table, seqnr>>

Earlier(pack) ==
  {q \in rtp : q.to = pack.to /\ q.ssrc = pack.ssrc /\ q.index < pack.index}

\* RTPSources::ProcessRTPPacket
ReceiveRTP(p, pack) ==
  /\ pack \in rtp /\ pack.to = p
  /\ LET gone == {pack} \cup (IF trial.wraps THEN Earlier(pack) ELSE {})
         again == IF pack.more THEN {[pack EXCEPT !.more = FALSE]} ELSE {}
     IN rtp' = (rtp \ gone) \cup again
  /\ IF IsOwn(p, pack.ssrc)
     THEN OwnCollision(p) /\ UNCHANGED destination
     ELSE /\ table' = [table EXCEPT ![p] = Put(@, pack.ssrc, ProcessRTPPacket(Entry(p, pack.ssrc), pack))]
          /\ destination' = OnNewSource(p, pack.ssrc)
          /\ UNCHANGED <<identityVars, seqnr>>
  /\ UNCHANGED <<trial, greeted, count, rtcp>>
-----------------------------------------------------------------------------
(* RTCP packets.                                                           *)

ShouldReport(entry) == ~entry.ownssrc /\ entry.stats.sentdata /\ entry.stats.fresh

\* The eight bits of a fraction, 256 when all is lost: that does not fit.
Fraction(expected, num) ==
  IF expected < num THEN 0
  ELSE IF expected = 0 THEN NULL
  ELSE ((expected - num) * 256) \div expected

ReportBlock(stats) ==
  [fractionlost |-> Fraction(stats.exthighseqnr - stats.savedextseqnr, stats.numnewpackets),
   packetslost |-> ((stats.exthighseqnr - stats.baseseqnr) - stats.packetsreceived) % LostMod,
   truth |-> ReallyLost(stats)]

\* INF_StartNewInterval, and prevbuildtime
StartNewInterval(entry) ==
  IF ShouldReport(entry)
  THEN [entry EXCEPT !.stats.numnewpackets = 0, !.stats.savedextseqnr = entry.stats.exthighseqnr,
                     !.stats.fresh = FALSE]
  ELSE [entry EXCEPT !.stats.fresh = FALSE]

\* RTCPCompoundPacketBuilder: a report, who sends it, and perhaps a BYE.
CompoundPacket(x, blocks, bye) == [ssrc |-> x, blocks |-> blocks, bye |-> bye]

SendRTCPData(p, pack) ==
  /\ rtcp' = IF p = "receiver" \/ destination THEN [rtcp EXCEPT ![Other(p)] = pack] ELSE rtcp
  /\ sentpackets' = [sentpackets EXCEPT ![p] = TRUE]

\* BuildNextPacket
SendReport(p) ==
  /\ byepackets[p] = <<>>
  /\ LET reported == {x \in DOMAIN table[p] : ShouldReport(table[p][x])}
         blocks == [x \in reported |-> ReportBlock(table[p][x].stats)]
     IN SendRTCPData(p, CompoundPacket(ssrc[p], blocks, FALSE))
  /\ table' = [table EXCEPT ![p] = [x \in DOMAIN @ |-> StartNewInterval(@[x])]]
  /\ UNCHANGED <<trial, ssrc, drawn, byepackets, collisionlist, sendVars, destination, rtp>>

\* BuildBYEPacket made the packet when the SSRC changed.
SendBYE(p) ==
  /\ byepackets[p] # <<>>
  /\ byepackets' = [byepackets EXCEPT ![p] = Tail(@)]
  /\ SendRTCPData(p, CompoundPacket(Head(byepackets[p]), <<>>, TRUE))
  /\ UNCHANGED <<trial, ssrc, drawn, collisionlist, table, sendVars, destination, rtp>>

\* ReceiverSession::SendClockOffset, in the SNTP thread
SendClockOffset ==
  /\ SendRTCPData("receiver", CompoundPacket(ssrc["receiver"], <<>>, FALSE))
  /\ UNCHANGED <<trial, ssrc, drawn, byepackets, collisionlist, table, sendVars, destination, rtp>>

\* RTCPRRPacket::GetLostPacketCount
GetLostPacketCount(block) ==
  IF 2 * block.packetslost >= LostMod THEN block.packetslost - LostMod ELSE block.packetslost

\* ProcessRTCPReportBlock, for the block about this session
ReportOn(p, pack, old) ==
  IF ssrc[p] \in DOMAIN pack.blocks
  THEN LET block == pack.blocks[ssrc[p]]
       IN [packetslost |-> GetLostPacketCount(block), truth |-> block.truth]
  ELSE old

\* RTPSources::ProcessRTCPCompoundPacket
ReceiveRTCP(p) ==
  /\ rtcp[p] # NULL
  /\ rtcp' = [rtcp EXCEPT ![p] = NULL]
  /\ LET pack == rtcp[p]
         old == Entry(p, pack.ssrc)
     IN IF IsOwn(p, pack.ssrc)
        THEN OwnCollision(p) /\ UNCHANGED destination
        ELSE /\ table' = [table EXCEPT ![p] =
                  Put(@, pack.ssrc, [old EXCEPT !.validated = TRUE,
                                                !.receivedbye = @ \/ pack.bye,
                                                !.RRinf = ReportOn(p, pack, @)])]
             /\ destination' = IF p = "sender" /\ pack.bye THEN FALSE ELSE OnNewSource(p, pack.ssrc)
             /\ UNCHANGED <<identityVars, seqnr>>
  /\ UNCHANGED <<trial, greeted, count, rtp>>

\* BYETimeout
RemoveBYE(p, x) ==
  /\ x \in DOMAIN table[p] /\ table[p][x].receivedbye
  /\ table' = [table EXCEPT ![p] = Without(@, x)]
  /\ UNCHANGED <<trial, identityVars, sendVars, destination, rtp, rtcp>>

ProcessPolledData(p) ==
  \/ \E pack \in rtp : ReceiveRTP(p, pack)
  \/ ReceiveRTCP(p)
  \/ \E x \in DOMAIN table[p] : RemoveBYE(p, x)
  \/ SendReport(p) \/ SendBYE(p)

Next == SayHi \/ SendFrame \/ SendClockOffset \/ \E p \in Sessions : ProcessPolledData(p)

(* A session goes on reporting, and a report gets through at last.         *)
Fairness ==
  /\ \A p \in Sessions : WF_vars(SendReport(p)) /\ WF_vars(SendBYE(p))
  /\ \A p \in Sessions : SF_vars(ReceiveRTCP(p))

Spec == Init /\ [][Next]_vars /\ Fairness
-----------------------------------------------------------------------------
(* Properties.                                                             *)

\* What the sender shows as lost of its stream is what is missing at the
\* receiver, less the packets that came twice or from before the first one:
\* through probation, reordering and repetition, and when the sequence
\* numbers wrap.
LossIsTrue ==
  \A x \in DOMAIN table["sender"] :
    LET info == table["sender"][x].RRinf IN info.packetslost = info.truth

\* The fraction lost of a report block fits into its eight bits: a source of
\* which nothing came since the last report is not reported.
FractionFits ==
  \A p \in Sessions :
    rtcp[p] # NULL => \A x \in DOMAIN rtcp[p].blocks : rtcp[p].blocks[x].fractionlost \in 0..255

\* The report blocks tell of losses as they are: the cumulative count, and the
\* fraction of the last interval, which has eight bits (rtcppacketbuilder.cpp:361-436).
LossIsReported == LossIsTrue /\ FractionFits

\* Two sessions that drew the same SSRC do not keep it.
CollisionSettles == (ssrc["sender"] = ssrc["receiver"]) ~> (ssrc["sender"] # ssrc["receiver"])
=============================================================================
