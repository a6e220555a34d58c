---------------------------- MODULE MCRtcpReports ----------------------------
(* Trials for RtcpReports.                                                 *)
EXTENDS Integers

CONSTANTS SeqMod, LostMod, RTPPROBATION, ReportTrials, NULL

VARIABLES
  session, ssrc, drawn, table, sentpackets, byepackets, collisionlist,
  greeted, seqnr, count, destination, rtp, rtcp

Reports == INSTANCE RtcpReports
             WITH trial <- session, Trials <- ReportTrials, RTP_PROBATIONCOUNT <- RTPPROBATION

ASSUME ReportAssumption == Reports!Constants

ReportSpec == Reports!Spec
-----------------------------------------------------------------------------
Trial(same, before, wraps, packets) ==
  [same |-> same, before |-> before, wraps |-> wraps, packets |-> packets]

\* An SSRC drawn twice, at the start or while the sender streams; a stream
\* whose numbers wrap, one whose packets are reordered, one that is asked for.
AllTrials ==
  {Trial(TRUE, FALSE, FALSE, 1), Trial(TRUE, TRUE, FALSE, 1), Trial(FALSE, TRUE, TRUE, 4),
   Trial(FALSE, TRUE, FALSE, 3), Trial(FALSE, FALSE, FALSE, 2)}
-----------------------------------------------------------------------------
(* The properties of RtcpReports.                                          *)

\* The report blocks tell of losses as they are: the cumulative count, and the
\* fraction of the last interval, which has eight bits (rtcppacketbuilder.cpp:361-436).
LossIsReported == Reports!LossIsReported

\* Two sessions that drew the same SSRC do not keep it (rtpsession.cpp:1362).
CollisionSettles == Reports!CollisionSettles
=============================================================================
