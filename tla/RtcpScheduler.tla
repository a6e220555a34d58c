---------------------------- MODULE RtcpScheduler ----------------------------
(***************************************************************************)
(* RTCPScheduler (rtcpscheduler.cpp): when a session sends its next RTCP   *)
(* packet, as members come and go.  RTPSession asks it under schedmutex.   *)
(*                                                                         *)
(* Times are relative to now: next says how far off nextrtcptime is, 0     *)
(* when it has come, since how long ago prevrtcptime was.  Random factors  *)
(* are a few hundredths out of the range the code draws from, the average  *)
(* packet size is one of a few.  The poll thread wakes up in time.  A      *)
(* session has fewer than 50 members, so a BYE is sent at once.            *)
(***************************************************************************)
EXTENDS Integers

CONSTANTS
  tmin,            \* minimum transmission interval
  bandwidth,
  Sizes,           \* average packet sizes
  Factors,         \* what an interval is multiplied by, in hundredths
  membermultiplier,
  MaxMembers, MaxByes, \* bounds
  MaxLeaves        \* bound: members that leave between two packets

VARIABLES
  \* the source table: active members and senders with the session itself
  members, senders, aresender,
  avgrtcppacksize, hassentrtcp, firstcall,
  next, since, pmembers,
  byescheduled,
  byepackets,      \* how many BYEs RTPSession has to send
  gap, left        \* history: time since the last packet was sent, members that left

sourceVars == <<members, senders, aresender>>
timeVars == <<next, since, pmembers>>
vars == <<sourceVars, avgrtcppacksize, hassentrtcp, firstcall, timeVars, byescheduled, byepackets, gap, left>>

AtLeast(x, y) == IF x > y THEN x ELSE y
Bit(b) == IF b THEN 1 ELSE 0

\* Reset; pmembers has no value before the first call.
Init ==
  /\ members \in 1 .. MaxMembers /\ senders \in 0 .. 1 /\ aresender = (senders = 1)
  /\ avgrtcppacksize \in Sizes
  /\ hassentrtcp = FALSE /\ firstcall = TRUE
  /\ next = 0 /\ since = 0 /\ pmembers = 0
  /\ byescheduled = FALSE /\ byepackets = 0
  /\ gap = 0 /\ left = 0
-----------------------------------------------------------------------------
(* Intervals.                                                              *)

\* A quarter of the bandwidth is the senders', when they are not more than a
\* quarter of the members; the others share the rest.
CalculateDeterministicInterval(sender) ==
  LET least == IF hassentrtcp THEN tmin ELSE tmin \div 2
      needed ==
        CASE 4 * senders > members -> (members * avgrtcppacksize) \div bandwidth
          [] 4 * senders <= members /\ sender -> (senders * avgrtcppacksize * 4) \div bandwidth
          [] 4 * senders <= members /\ ~sender ->
               ((members - senders) * avgrtcppacksize * 4) \div (3 * bandwidth)
  IN AtLeast(least, needed)

Scaled(interval, factor) == (interval * factor) \div 100

CalculateTransmissionInterval(factor) ==
  Scaled(CalculateDeterministicInterval(aresender), factor)
-----------------------------------------------------------------------------
(* Time, and what happens to the members.                                  *)

Tick ==
  /\ firstcall \/ next > 0
  /\ next' = AtLeast(next - 1, 0)
  /\ since' = IF firstcall THEN since ELSE since + 1
  /\ gap' = IF firstcall THEN gap ELSE gap + 1
  /\ UNCHANGED <<sourceVars, avgrtcppacksize, hassentrtcp, firstcall, pmembers, byescheduled, byepackets, left>>

Join(sends) ==
  /\ members < MaxMembers
  /\ members' = members + 1 /\ senders' = senders + Bit(sends)
  /\ UNCHANGED <<aresender, avgrtcppacksize, hassentrtcp, firstcall, timeVars, byescheduled, byepackets, gap, left>>

\* Mutated form: the ratio is turned round.
PerformReverseReconsiderationInverted(count) ==
  /\ next' = (pmembers * next) \div count
  /\ since' = (pmembers * since) \div count
  /\ pmembers' = count

\* Fewer members need less time: both times come closer to now.
PerformReverseReconsideration(count) ==
  /\ next' = (count * next) \div pmembers
  /\ since' = (count * since) \div pmembers
  /\ pmembers' = count

ActiveMemberDecrease(count) ==
  IF ~firstcall /\ count < pmembers THEN PerformReverseReconsideration(count) ELSE UNCHANGED timeVars

\* A member sends a BYE, or is timed out.
Leave(sends) ==
  /\ members - senders > Bit(~aresender) \/ sends
  /\ sends => senders > Bit(aresender)
  /\ members' = members - 1 /\ senders' = senders - Bit(sends)
  /\ ActiveMemberDecrease(members - 1)
  /\ left < MaxLeaves /\ left' = left + 1
  /\ UNCHANGED <<aresender, avgrtcppacksize, hassentrtcp, firstcall, byescheduled, byepackets, gap>>

\* SentRTPPacket, or the time-out of a sender.
Sends(b) ==
  /\ aresender # b
  /\ aresender' = b /\ senders' = senders + Bit(b) - Bit(~b)
  /\ UNCHANGED <<members, avgrtcppacksize, hassentrtcp, firstcall, timeVars, byescheduled, byepackets, gap, left>>

SenderTimeout ==
  /\ senders > Bit(aresender)
  /\ senders' = senders - 1
  /\ UNCHANGED <<members, aresender, avgrtcppacksize, hassentrtcp, firstcall, timeVars, byescheduled, byepackets, gap, left>>

\* The average goes some way towards the size of a packet.
Analyse(size) ==
  avgrtcppacksize' \in {a \in Sizes : a \in avgrtcppacksize .. size \/ a \in size .. avgrtcppacksize}

AnalyseIncoming ==
  /\ \E size \in Sizes : Analyse(size)
  /\ UNCHANGED <<sourceVars, hassentrtcp, firstcall, timeVars, byescheduled, byepackets, gap, left>>

\* ScheduleBYEPacket, which takes the time as now unless a BYE is scheduled.
ScheduleBYEPacket ==
  /\ byescheduled' = TRUE
  /\ IF byescheduled THEN UNCHANGED <<firstcall, timeVars>>
     ELSE /\ firstcall' = FALSE
          /\ pmembers' = IF firstcall THEN members ELSE pmembers
          /\ next' = 0 /\ since' = 0

\* RTPSession::ProcessPolledData changes its SSRC, and is no sender yet.
ChangeSSRC ==
  /\ byepackets < MaxByes
  /\ byepackets' = byepackets + 1
  /\ IF byepackets = 0 THEN ScheduleBYEPacket ELSE UNCHANGED <<firstcall, timeVars, byescheduled>>
  /\ aresender' = FALSE /\ senders' = senders - Bit(aresender)
  /\ UNCHANGED <<members, avgrtcppacksize, hassentrtcp, gap, left>>
-----------------------------------------------------------------------------
(* RTPSession::ProcessPolledData, when it comes to RTCP.                   *)

FirstCall(factor) ==
  /\ firstcall
  /\ firstcall' = FALSE /\ since' = 0 /\ gap' = 0 /\ pmembers' = members
  /\ next' = CalculateTransmissionInterval(factor)
  /\ UNCHANGED <<sourceVars, avgrtcppacksize, hassentrtcp, byescheduled, byepackets, left>>

\* CalculateBYETransmissionInterval is 0, as the BYE is to be sent now.
Checktime(factor) == IF byescheduled THEN 0 ELSE CalculateTransmissionInterval(factor)

Due == ~firstcall /\ next = 0

\* Mutated form: what is not sent now is sent an interval from now.
PostponeFromNow(factor) ==
  /\ Due /\ since < Checktime(factor)
  /\ next' = Checktime(factor)
  /\ pmembers' = members
  /\ since' = 0
  /\ UNCHANGED <<sourceVars, avgrtcppacksize, hassentrtcp, firstcall, byescheduled, byepackets, gap, left>>

\* IsTime: not yet, members have come since.
Postpone(factor) ==
  /\ Due /\ since < Checktime(factor)
  /\ next' = Checktime(factor) - since
  /\ pmembers' = members
  /\ UNCHANGED <<sourceVars, avgrtcppacksize, hassentrtcp, firstcall, since, byescheduled, byepackets, gap, left>>

\* The next BYE is scheduled at once, a report an interval from now.
SendBYE ==
  /\ byepackets' = byepackets - 1
  /\ byescheduled' = (byepackets' > 0)
  /\ UNCHANGED avgrtcppacksize

SendReport ==
  /\ \E size \in Sizes : Analyse(size)
  /\ byescheduled' = FALSE
  /\ UNCHANGED byepackets

Send(factor, later) ==
  /\ Due /\ since >= Checktime(factor)
  /\ IF byepackets > 0 THEN SendBYE ELSE SendReport
  /\ pmembers' = members /\ since' = 0 /\ gap' = 0 /\ left' = 0
  /\ next' = IF byescheduled' THEN 0 ELSE CalculateTransmissionInterval(later)
  /\ hassentrtcp' = TRUE
  /\ UNCHANGED <<sourceVars, firstcall>>

Next ==
  \/ Tick
  \/ \E sends \in BOOLEAN : Join(sends) \/ Leave(sends) \/ Sends(sends)
  \/ SenderTimeout \/ AnalyseIncoming \/ ChangeSSRC
  \/ \E factor \in Factors : FirstCall(factor) \/ Postpone(factor)
  \/ \E factor, later \in Factors : Send(factor, later)
-----------------------------------------------------------------------------
(* Properties.                                                             *)

Reports == gap' < gap /\ byepackets = byepackets' /\ firstcall = firstcall'

LeastInterval ==
  LET least == CHOOSE f \in Factors : \A g \in Factors : f <= g
  IN CalculateTransmissionInterval(least)

\* However members join and leave and whatever the times were moved to, a
\* report never follows the packet before it sooner than the shortest
\* interval for the members there are now.
NotTooSoon == [][Reports => gap >= LeastInterval]_vars

\* A session is never silent so long that the others, who see the same
\* members, would take it for gone.
StaysMember == hassentrtcp => gap <= membermultiplier * CalculateDeterministicInterval(FALSE)
=============================================================================
