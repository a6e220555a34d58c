----------------------------- MODULE SourceTable -----------------------------
(***************************************************************************)
(* RTPSources, the table of a session's sources, with the counters that    *)
(* the RTCP scheduler divides its bandwidth by (rtpsources.cpp).           *)
(*                                                                         *)
(* Every operation runs under sourcesmutex.  A packet is told apart by its *)
(* kind, its SSRC and the host it comes from: RTP and RTCP of a session    *)
(* come from one port each.  Times are ages, in deterministic intervals of *)
(* the scheduler, and stop at Cap, when every time-out has passed.  An     *)
(* RTCP packet always holds a CNAME; there are no CSRCs and no notes.      *)
(* SenderMembership says what SenderSession makes of the table.            *)
(***************************************************************************)
EXTENDS Integers, FiniteSets

CONSTANTS
  Hosts,            \* other hosts
  Ssrcs,            \* SSRCs others use
  OwnSsrcs,         \* SSRCs this session may draw, some of them used by others, too
  sendermultiplier, membermultiplier, byemultiplier,
  SELF, UNSET       \* instead of a host: this session, no address yet

VARIABLES
  sourcelist,       \* entries by SSRC
  owndata,          \* SSRC of the own entry
  totalcount, sendercount, activecount

counters == <<totalcount, sendercount, activecount>>
vars == <<sourcelist, owndata, counters>>

Cap == 1 + (CHOOSE m \in {sendermultiplier, membermultiplier, byemultiplier} :
              \A n \in {sendermultiplier, membermultiplier, byemultiplier} : n <= m)

\* Members of RTPSourceData; the last three are the ages of the last message,
\* of the last RTP packet and of the BYE.
NewEntry ==
  [validated |-> FALSE, issender |-> FALSE, receivedbye |-> FALSE,
   rtpaddr |-> UNSET, rtcpaddr |-> UNSET, lastmsg |-> 0, lastrtp |-> Cap, bye |-> 0]
OwnEntry == [NewEntry EXCEPT !.validated = TRUE, !.rtpaddr = SELF, !.rtcpaddr = SELF]

IsActive(e) == e.validated /\ ~e.receivedbye

Bit(b) == IF b THEN 1 ELSE 0
Put(f, x, e) == [y \in DOMAIN f \cup {x} |-> IF y = x THEN e ELSE f[y]]
Without(f, x) == [y \in DOMAIN f \ {x} |-> f[y]]

\* CreateOwnSSRC, before anything was received
Init ==
  /\ owndata \in OwnSsrcs
  /\ sourcelist = Put(<<>>, owndata, OwnEntry)
  /\ totalcount = 1 /\ sendercount = 0 /\ activecount = 1
-----------------------------------------------------------------------------
(* What arrives.                                                           *)

\* Mutated form: only an address of the same kind is compared.
CollidesAlone(e, host, isrtp) ==
  LET addr == IF isrtp THEN e.rtpaddr ELSE e.rtcpaddr
  IN addr \notin {UNSET, host}

\* CheckCollision: what comes from another host than the entry's is ignored.
CheckCollision(e, host, isrtp) ==
  LET addr == IF isrtp THEN e.rtpaddr ELSE e.rtcpaddr
      otheraddr == IF isrtp THEN e.rtcpaddr ELSE e.rtpaddr
  IN addr \notin {UNSET, host} \/ (addr = UNSET /\ otheraddr \notin {UNSET, host})

\* The session's own SSRC was seen elsewhere: DeleteOwnSSRC, CreateOwnSSRC.
ChangeSSRC(new) ==
  /\ sourcelist' = Put(Without(sourcelist, owndata), new, OwnEntry)
  /\ owndata' = new
  /\ totalcount' = (totalcount - 1) + 1
  /\ sendercount' = sendercount - Bit(sourcelist[owndata].issender)
  /\ activecount' = (activecount - Bit(IsActive(sourcelist[owndata]))) + 1

\* ObtainSourceDataInstance
Obtained(x) == IF x \in DOMAIN sourcelist THEN sourcelist[x] ELSE NewEntry
Total(x) == totalcount + Bit(x \notin DOMAIN sourcelist)

\* CreateNewSSRC looks for an SSRC that is not in the table, then the rest of
\* the packet is ignored.
OwnCollision(x) ==
  /\ x = owndata
  /\ \E new \in OwnSsrcs \ DOMAIN sourcelist : ChangeSSRC(new)

\* RTPInternalSourceData::ProcessRTPPacket; over tells that probation ends.
ProcessRTPPacket(e, host, over) ==
  LET validated == e.validated \/ over
  IN [e EXCEPT !.rtpaddr = host, !.validated = validated, !.issender = @ \/ validated,
               !.lastmsg = 0, !.lastrtp = IF validated THEN 0 ELSE @]

ReceiveRTP(x, host, over) ==
  \/ OwnCollision(x)
  \/ /\ ~CheckCollision(Obtained(x), host, TRUE)
     /\ LET prev == Obtained(x)
            next == ProcessRTPPacket(prev, host, over)
        IN /\ sourcelist' = Put(sourcelist, x, next)
           /\ totalcount' = Total(x)
           /\ sendercount' = sendercount + Bit(~prev.issender /\ next.issender)
           /\ activecount' = activecount + Bit(~IsActive(prev) /\ IsActive(next))
     /\ UNCHANGED owndata

\* UpdateReceiveTime, or ProcessReportBlock, and ProcessSDESNormalItem
ProcessReport(e, host) == [e EXCEPT !.rtcpaddr = host, !.lastmsg = 0, !.validated = TRUE]

ReceiveReport(x, host) ==
  \/ OwnCollision(x)
  \/ /\ ~CheckCollision(Obtained(x), host, FALSE)
     /\ LET prev == Obtained(x)
            next == ProcessReport(prev, host)
        IN /\ sourcelist' = Put(sourcelist, x, next)
           /\ totalcount' = Total(x)
           /\ activecount' = activecount + Bit(~IsActive(prev) /\ IsActive(next))
     /\ UNCHANGED <<owndata, sendercount>>

\* A report that is followed by a BYE: ProcessBYE
ReceiveBYE(x, host) ==
  \/ OwnCollision(x)
  \/ /\ ~CheckCollision(Obtained(x), host, FALSE)
     /\ LET prev == Obtained(x)
            reported == ProcessReport(prev, host)
            next == [reported EXCEPT !.receivedbye = TRUE, !.bye = 0]
        IN /\ sourcelist' = Put(sourcelist, x, next)
           /\ totalcount' = Total(x)
           /\ activecount' = activecount + Bit(~IsActive(prev) /\ IsActive(reported))
                               - Bit(IsActive(reported) /\ ~IsActive(next))
     /\ UNCHANGED <<owndata, sendercount>>
-----------------------------------------------------------------------------
(* What the session does.                                                  *)

SentRTPPacket ==
  /\ sourcelist' = [sourcelist EXCEPT ![owndata].issender = TRUE, ![owndata].lastrtp = 0,
                                      ![owndata].lastmsg = 0]
  /\ sendercount' = sendercount + Bit(~sourcelist[owndata].issender)
  /\ UNCHANGED <<owndata, totalcount, activecount>>

ByeTimeout(e) == e.receivedbye /\ e.bye > byemultiplier
NormalTimeout(e) == e.lastmsg > membermultiplier
SenderTimeout(e) == e.lastrtp > sendermultiplier

StillSenders(list) == {x \in DOMAIN list : list[x].issender}

\* MultipleTimeouts: one pass over the table, which counts anew.
MultipleTimeouts ==
  LET gone == {x \in DOMAIN sourcelist \ {owndata} :
                 ByeTimeout(sourcelist[x]) \/ NormalTimeout(sourcelist[x])}
      list == [x \in DOMAIN sourcelist \ gone |->
                 [sourcelist[x] EXCEPT !.issender = @ /\ ~SenderTimeout(sourcelist[x])]]
  IN /\ sourcelist' = list
     /\ totalcount' = Cardinality(DOMAIN list)
     /\ sendercount' = Cardinality(StillSenders(list))
     /\ activecount' = Cardinality({x \in DOMAIN list : IsActive(sourcelist[x])})
     /\ UNCHANGED owndata

Older(age) == IF age < Cap THEN age + 1 ELSE Cap

Tick ==
  /\ sourcelist' = [x \in DOMAIN sourcelist |->
       [sourcelist[x] EXCEPT !.lastmsg = Older(@), !.lastrtp = Older(@),
                             !.bye = IF sourcelist[x].receivedbye THEN Older(@) ELSE @]]
  /\ UNCHANGED <<owndata, counters>>

Receive(x, host) ==
  \/ \E over \in BOOLEAN : ReceiveRTP(x, host, over)
  \/ ReceiveReport(x, host)
  \/ ReceiveBYE(x, host)

Next ==
  \/ \E x \in Ssrcs, host \in Hosts : Receive(x, host)
  \/ SentRTPPacket \/ MultipleTimeouts \/ Tick
-----------------------------------------------------------------------------
(* Properties.                                                             *)

\* The counters are those of the table, between any two operations: what
\* SafeCountTotal, SafeCountSenders and SafeCountActive would print.
CountersMatch ==
  /\ totalcount = Cardinality(DOMAIN sourcelist)
  /\ sendercount = Cardinality({x \in DOMAIN sourcelist : sourcelist[x].issender})
  /\ activecount = Cardinality({x \in DOMAIN sourcelist : IsActive(sourcelist[x])})

\* The RTP and the RTCP packets an entry stands for come from one host, and
\* only the session's own entry stands for the session: CheckCollision.
OneHostPerSource ==
  \A x \in DOMAIN sourcelist :
    LET hosts == {sourcelist[x].rtpaddr, sourcelist[x].rtcpaddr} \ {UNSET}
    IN IF x = owndata THEN hosts = {SELF} ELSE \E h \in Hosts : hosts = {h}
=============================================================================
