--------------------------- MODULE SenderMembership ---------------------------
(***************************************************************************)
(* Who the sender streams to: SenderSession.cpp keeps connectedSources and *)
(* the transmitter's destinations in step with the RTP source table, from  *)
(* the callbacks of jrtplib/rtpsources.cpp.  The poll thread runs one      *)
(* callback at a time under the source lock; the network thread only reads *)
(* connectedSources, without a lock.                                       *)
(*                                                                         *)
(* A receiver draws a new SSRC each time it starts.  Its datagrams may be  *)
(* lost, delayed, reordered and, in some trials, repeated.  Left out: SSRC *)
(* collisions, and which of its two ports a datagram comes from (both give *)
(* the same destination, see addressFromData).                             *)
(***************************************************************************)
EXTENDS Integers, FiniteSets

CONSTANTS
  SSRC,        \* one SSRC for each run of a receiver
  Address,     \* addresses of receivers
  Home,        \* the address at which the run with this SSRC takes place
  Trials,      \* which of the runs may take place, and whether datagrams are repeated
  MaxDeficit   \* bound: no repeats once the count is this far below zero

ASSUME MembershipAssumption ==
  /\ Home \in [SSRC -> Address]
  /\ IsFiniteSet(SSRC)
  /\ Trials \subseteq [runs : SUBSET SSRC, repeats : BOOLEAN]
  /\ MaxDeficit \in Nat

VARIABLES
  trial,            \* the trial this behaviour belongs to, never changed
  source,           \* state of each SSRC in RTPSources::sourcelist
  destinations,     \* destinations of the RTP transmitter
  connectedSources,
  stage,            \* where SenderSession::RunNetwork is
  running,          \* receivers that run
  started,          \* receivers that have run
  network           \* datagrams under way to the sender

senderVars == <<source, destinations, connectedSources>>
vars == <<trial, senderVars, stage, running, started, network>>

Absent == "absent"    \* no entry in the table
Active == "active"    \* an entry that has not received a BYE
Left == "left"        \* ReceivedBYE(), kept until it times out

\* HI is the RTP packet ReceiverSession::RunNetwork begins with, REPORT any
\* RTCP report, BYE what BYEDestroy sends.
Datagram == [kind : {"HI", "REPORT", "BYE"}, from : SSRC]
Packet(kind, ssrc) == [kind |-> kind, from |-> ssrc]

Init ==
  /\ trial \in Trials
  /\ source = [s \in SSRC |-> Absent]
  /\ destinations = {} /\ connectedSources = 0
  /\ stage = "waiting"
  /\ running = {} /\ started = {} /\ network = {}
-----------------------------------------------------------------------------
(* The receivers.                                                          *)

StartReceiver(s) ==
  /\ s \in trial.runs \ started
  /\ \A other \in running : Home[other] # Home[s]
  /\ running' = running \cup {s} /\ started' = started \cup {s}
  /\ network' = network \cup {Packet("HI", s)}
  /\ UNCHANGED <<trial, senderVars, stage>>

SendReport(s) ==
  /\ s \in running
  /\ network' = network \cup {Packet("REPORT", s)}
  /\ UNCHANGED <<trial, senderVars, stage, running, started>>

\* The receiver stops in an orderly way, line 137 of ReceiverSession.cpp ...
SendBYE(s) ==
  /\ s \in running
  /\ running' = running \ {s}
  /\ network' = network \cup {Packet("BYE", s)}
  /\ UNCHANGED <<trial, senderVars, stage, started>>

\* ... or just disappears.
Vanish(s) ==
  /\ s \in running
  /\ running' = running \ {s}
  /\ UNCHANGED <<trial, senderVars, stage, started, network>>

Lose(p) ==
  /\ p \in network
  /\ network' = network \ {p}
  /\ UNCHANGED <<trial, senderVars, stage, running, started>>
-----------------------------------------------------------------------------
(* The poll thread of the sender.                                          *)

\* OnNewSource: AddDestination refuses an address it already has, which goes
\* unnoticed.
OnNewSource(s) ==
  /\ destinations' = destinations \cup {Home[s]}
  /\ connectedSources' = connectedSources + 1

\* What OnBYEPacket and OnRemoveSource both do.
Disconnect(s, count) ==
  /\ destinations' = destinations \ {Home[s]}
  /\ connectedSources' = count - 1

\* ProcessRTPPacket, or RTCP data that is not a BYE.
ProcessPacket(s) ==
  \/ /\ source[s] = Absent
     /\ source' = [source EXCEPT ![s] = Active]
     /\ OnNewSource(s)
  \/ /\ source[s] # Absent
     /\ UNCHANGED senderVars

\* ProcessBYE: a BYE of an unknown source creates it first, and every BYE is
\* passed to OnBYEPacket, the first as well as a repeated one.
ProcessBYE(s) ==
  /\ source' = [source EXCEPT ![s] = Left]
  /\ Disconnect(s, IF source[s] = Absent THEN connectedSources + 1 ELSE connectedSources)

\* Mutated form: a source is only created by the RTP packet a receiver begins
\* with.
ReceiveOnlyHI(p) ==
  /\ p \in network
  /\ network' = network \ {p}
  /\ \/ p.kind = "BYE" /\ ProcessBYE(p.from)
     \/ p.kind = "HI" /\ ProcessPacket(p.from)
     \/ p.kind = "REPORT" /\ UNCHANGED senderVars
  /\ UNCHANGED <<trial, stage, running, started>>

Receive(p) ==
  /\ p \in network
  /\ \/ network' = network \ {p}
     \/ trial.repeats /\ connectedSources > -MaxDeficit /\ UNCHANGED network
  /\ \/ p.kind = "BYE" /\ ProcessBYE(p.from)
     \/ p.kind # "BYE" /\ ProcessPacket(p.from)
  /\ UNCHANGED <<trial, stage, running, started>>

\* Mutated form: the source that has said BYE is disconnected once more.
OnRemoveSourceAlways(s) == Disconnect(s, connectedSources)

\* Mutated form: a source that times out stays a destination.
OnRemoveSourceKeep(s) ==
  \/ source[s] = Left /\ UNCHANGED <<destinations, connectedSources>>
  \/ source[s] = Active /\ connectedSources' = connectedSources - 1 /\ UNCHANGED destinations

OnRemoveSource(s) ==
  \/ source[s] = Left /\ UNCHANGED <<destinations, connectedSources>>
  \/ source[s] = Active /\ Disconnect(s, connectedSources)

\* MultipleTimeouts removes an entry some time after its BYE, or when nothing
\* was heard of it; reports may be lost, so that says little about it.
TimeOut(s) ==
  /\ source[s] # Absent
  /\ source' = [source EXCEPT ![s] = Absent]
  /\ OnRemoveSource(s)
  /\ UNCHANGED <<trial, stage, running, started, network>>
-----------------------------------------------------------------------------
(* The network thread of the sender, lines 43 to 55.                       *)

StopWaiting ==
  /\ stage = "waiting" /\ connectedSources # 0
  /\ stage' = "starting"
  /\ UNCHANGED <<trial, senderVars, running, started, network>>

StartSending ==
  /\ stage = "starting"
  /\ stage' = "sending"
  /\ UNCHANGED <<trial, senderVars, running, started, network>>

Receivers ==
  \E s \in SSRC : StartReceiver(s) \/ SendReport(s) \/ SendBYE(s) \/ Vanish(s)

Next ==
  \/ Receivers
  \/ \E p \in Datagram : Lose(p) \/ Receive(p)
  \/ \E s \in SSRC : TimeOut(s)
  \/ StopWaiting \/ StartSending

(* Receivers keep reporting, a report that is sent again and again gets    *)
(* through at last, and an entry that is heard of no more times out.       *)
Fairness ==
  /\ \A s \in SSRC : WF_vars(SendReport(s))
  /\ \A s \in SSRC : SF_vars(Receive(Packet("REPORT", s)))
  /\ \A s \in SSRC : WF_vars(s \notin running /\ TimeOut(s))
  /\ WF_vars(StopWaiting) /\ WF_vars(StartSending)

Spec == Init /\ [][Next]_vars /\ Fairness
-----------------------------------------------------------------------------
(* Properties.                                                             *)

TypeOK ==
  /\ trial \in Trials
  /\ source \in [SSRC -> {Absent, Active, Left}]
  /\ destinations \subseteq Address
  /\ connectedSources \in Int /\ connectedSources <= Cardinality(SSRC)
  /\ stage \in {"waiting", "starting", "sending"}
  /\ running \subseteq started /\ started \subseteq SSRC
  /\ network \subseteq Datagram

Connected == {s \in SSRC : source[s] = Active}

\* The receiver runs where another one has run or still runs.
Restarted(s) == \E other \in started \ {s} : Home[other] = Home[s]

(* However joins, BYEs, losses, late packets and timeouts interleave, the  *)
(* count the sender waits on is the number of receivers in its table that  *)
(* have not said BYE, as long as no datagram is delivered twice: a second  *)
(* BYE would be counted again.                                             *)
CountMatchesSources == ~trial.repeats => connectedSources = Cardinality(Connected)

(* The sender streams exactly to the addresses of those receivers, as long *)
(* as no receiver restarts at the same address.                            *)
DestinationsMatchSources ==
  (\E s \in started : Restarted(s)) \/ destinations = {Home[s] : s \in Connected}

(* A receiver that keeps running is streamed to at last, even if its HI    *)
(* was lost or the sender once took it for gone, unless it restarted.      *)
EventuallyServed ==
  \A s \in SSRC :
    s \in running ~> (Home[s] \in destinations \/ s \notin running \/ Restarted(s))

(* A receiver that is gone, with or without a BYE, is eventually dropped,  *)
(* unless another takes its place.                                         *)
EventuallyDropped ==
  \A s \in SSRC :
    s \in started \ running ~> (Home[s] \notin destinations \/ Restarted(s))

(* Once datagrams get through, the destinations are those of the receivers *)
(* that run: the first is RTPSources' doing, with a HI or any later report,*)
(* the second that of a BYE or the timeout (SenderSession.cpp:194 to 240). *)
EventuallyRight == EventuallyServed /\ EventuallyDropped
=============================================================================
