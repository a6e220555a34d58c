------------------------------- MODULE RtpProofs -------------------------------
(***************************************************************************)
(* What jrtplib and the two sessions keep for any values of the constants. *)
(*                                                                         *)
(* First part, SenderMembership: as long as no datagram is delivered       *)
(* twice, connectedSources counts the receivers in the table that have not *)
(* said BYE.  CountMatchesSources alone is not inductive: a BYE from a     *)
(* receiver that has already been disconnected would count down once more. *)
(* That there is none takes the history of the BYE: it is sent once, when  *)
(* the receiver stops running, and nothing but its arrival makes an entry  *)
(* Left.  The destinations take no such history and hold on any network.   *)
(*                                                                         *)
(* Second part, StreamReception: the decoder is given the stream in its    *)
(* order, and every frame is scheduled within the duration of one frame.   *)
(* PacketsInv ties the locals of the receive loop and what the decoder was *)
(* given to the packets the sender built, OrderInv orders what was         *)
(* decoded, what waits and what is under way.                              *)
(*                                                                         *)
(* Third part, RtcpReports: the report blocks tell of losses as they are.  *)
(* ReportInv finds, for every SSRC, one offset between the packets of the  *)
(* stream and their numbers, in what is under way, in what is sent next    *)
(* and in what an entry has counted; and it counts what may still come, so *)
(* that no packet is counted more than twice.                              *)
(***************************************************************************)
EXTENDS SenderMembership, MCStreamReception, MCRtcpReports, FiniteSetTheorems,
        SequenceTheorems, WellFoundedInduction, TLAPS

States == {Absent, Active, Left}
Kinds == {"HI", "REPORT", "BYE"}

Types ==
  /\ source \in [SSRC -> States]
  /\ connectedSources \in Int
  /\ running \subseteq started /\ started \subseteq SSRC
  /\ network \subseteq Datagram

\* A receiver that has not run is unknown, and nothing of it is under way.
Unstarted ==
  \A s \in SSRC \ started :
    source[s] = Absent /\ \A p \in network : p.from # s

\* A BYE under way is the first of a receiver that no longer runs.
ByesAreFirst ==
  /\ \A s \in running : source[s] # Left
  /\ \A s \in SSRC : Packet("BYE", s) \in network => s \notin running /\ source[s] # Left

Counted == connectedSources = Cardinality(Connected)

MembershipInv == Types /\ Counted /\ Unstarted /\ ByesAreFirst

USE DEF Absent, Active, Left
-----------------------------------------------------------------------------
\* The receivers that count are finitely many.
LEMMA ConnectedFinite == IsFiniteSet(Connected) /\ Cardinality(Connected) \in Nat
<1>1. IsFiniteSet(Connected)
  BY MembershipAssumption, FS_Subset DEF Connected
<1>2. QED BY <1>1, FS_CardinalityType

\* A source that becomes active counts one more.
LEMMA Joins ==
  ASSUME NEW s \in SSRC, Types, source[s] # Active,
         source' = [source EXCEPT ![s] = Active]
  PROVE  Cardinality(Connected') = Cardinality(Connected) + 1
<1>1. Connected' = Connected \cup {s}
  BY DEF Connected, Types
<1>2. s \notin Connected
  BY DEF Connected
<1>3. QED BY <1>1, <1>2, ConnectedFinite, FS_AddElement

\* A source that was active and is no more counts one less.
LEMMA Leaves ==
  ASSUME NEW s \in SSRC, NEW to \in States, Types, source[s] = Active, to # Active,
         source' = [source EXCEPT ![s] = to]
  PROVE  Cardinality(Connected') = Cardinality(Connected) - 1
<1>1. Connected' = Connected \ {s}
  BY DEF Connected, Types, States
<1>2. s \in Connected
  BY DEF Connected
<1>3. QED BY <1>1, <1>2, ConnectedFinite, FS_RemoveElement

\* A change between two states that do not count changes nothing.
LEMMA Stays ==
  ASSUME NEW s \in SSRC, NEW to \in States, Types, source[s] # Active, to # Active,
         source' = [source EXCEPT ![s] = to]
  PROVE  Connected' = Connected
BY DEF Connected, Types, States

\* Packets are told apart by kind and origin.
LEMMA PacketFields ==
  ASSUME NEW kind \in Kinds, NEW s \in SSRC
  PROVE  Packet(kind, s) \in Datagram /\ Packet(kind, s).kind = kind /\ Packet(kind, s).from = s
BY DEF Packet, Datagram, Kinds

LEMMA DatagramIsPacket ==
  ASSUME NEW p \in Datagram
  PROVE  p.kind \in Kinds /\ p.from \in SSRC /\ p = Packet(p.kind, p.from)
BY DEF Packet, Datagram, Kinds
-----------------------------------------------------------------------------
LEMMA MembershipInit == Init => MembershipInv
<1> SUFFICES ASSUME Init PROVE MembershipInv
  OBVIOUS
<1>1. Types
  BY DEF Init, Types, States
<1>2. Connected = {}
  BY DEF Init, Connected
<1>3. Counted
  BY <1>2, FS_EmptySet DEF Counted, Init
<1>4. Unstarted /\ ByesAreFirst
  BY DEF Init, Unstarted, ByesAreFirst
<1>5. QED BY <1>1, <1>3, <1>4 DEF MembershipInv

\* What a receiver does leaves the sender alone.
LEMMA ReceiversStep ==
  ASSUME MembershipInv, NEW s \in SSRC,
         StartReceiver(s) \/ SendReport(s) \/ SendBYE(s) \/ Vanish(s)
  PROVE  MembershipInv'
<1>0. UNCHANGED senderVars
  BY DEF StartReceiver, SendReport, SendBYE, Vanish
<1>1. Counted'
  BY <1>0 DEF MembershipInv, Counted, Connected, senderVars
<1>2. CASE StartReceiver(s)
  <2>1. Packet("HI", s) \in Datagram /\ Packet("HI", s).kind = "HI" /\ Packet("HI", s).from = s
    BY PacketFields DEF Kinds
  <2>2. Types'
    BY <1>0, <1>2, <2>1 DEF MembershipInv, Types, StartReceiver, senderVars
  <2>3. Unstarted'
    BY <1>0, <1>2, <2>1 DEF MembershipInv, Types, Unstarted, StartReceiver, senderVars
  <2>4. \A t \in SSRC : Packet("BYE", t) \in network' => Packet("BYE", t) \in network
    BY <1>2, <2>1, PacketFields DEF StartReceiver, Kinds
  <2>5. Packet("BYE", s) \notin network /\ source[s] = Absent
    BY <1>2, PacketFields DEF MembershipInv, Unstarted, StartReceiver, Kinds
  <2>6. ByesAreFirst'
    BY <1>0, <1>2, <2>4, <2>5 DEF MembershipInv, ByesAreFirst, StartReceiver, senderVars
  <2>7. QED BY <1>1, <2>2, <2>3, <2>6 DEF MembershipInv
<1>3. CASE SendReport(s)
  <2>1. Packet("REPORT", s) \in Datagram /\ Packet("REPORT", s).kind = "REPORT" /\ Packet("REPORT", s).from = s
    BY PacketFields DEF Kinds
  <2>2. Types'
    BY <1>0, <1>3, <2>1 DEF MembershipInv, Types, SendReport, senderVars
  <2>3. Unstarted'
    BY <1>0, <1>3, <2>1 DEF MembershipInv, Types, Unstarted, SendReport, senderVars
  <2>4. \A t \in SSRC : Packet("BYE", t) \in network' => Packet("BYE", t) \in network
    BY <1>3, <2>1, PacketFields DEF SendReport, Kinds
  <2>6. ByesAreFirst'
    BY <1>0, <1>3, <2>4 DEF MembershipInv, ByesAreFirst, SendReport, senderVars
  <2>7. QED BY <1>1, <2>2, <2>3, <2>6 DEF MembershipInv
<1>4. CASE SendBYE(s)
  <2>1. Packet("BYE", s) \in Datagram /\ Packet("BYE", s).from = s
    BY PacketFields DEF Kinds
  <2>2. Types'
    BY <1>0, <1>4, <2>1 DEF MembershipInv, Types, SendBYE, senderVars
  <2>3. Unstarted'
    BY <1>0, <1>4, <2>1 DEF MembershipInv, Types, Unstarted, SendBYE, senderVars
  <2>4. \A t \in SSRC : Packet("BYE", t) \in network' => t = s \/ Packet("BYE", t) \in network
    BY <1>4, <2>1, PacketFields DEF SendBYE, Kinds
  <2>6. ByesAreFirst'
    BY <1>0, <1>4, <2>4 DEF MembershipInv, ByesAreFirst, SendBYE, senderVars
  <2>7. QED BY <1>1, <2>2, <2>3, <2>6 DEF MembershipInv
<1>5. CASE Vanish(s)
  <2>1. Types'
    BY <1>0, <1>5 DEF MembershipInv, Types, Vanish, senderVars
  <2>2. Unstarted' /\ ByesAreFirst'
    BY <1>0, <1>5 DEF MembershipInv, Unstarted, ByesAreFirst, Vanish, senderVars
  <2>3. QED BY <1>1, <2>1, <2>2 DEF MembershipInv
<1>6. QED BY <1>2, <1>3, <1>4, <1>5

LEMMA LoseStep ==
  ASSUME MembershipInv, NEW p \in Datagram, Lose(p)
  PROVE  MembershipInv'
<1>1. UNCHANGED <<senderVars, running, started>> /\ network' \subseteq network
  BY DEF Lose
<1>2. Counted'
  BY <1>1 DEF MembershipInv, Counted, Connected, senderVars
<1>3. Types' /\ Unstarted' /\ ByesAreFirst'
  BY <1>1 DEF MembershipInv, Types, Unstarted, ByesAreFirst, senderVars
<1>4. QED BY <1>2, <1>3 DEF MembershipInv

\* A datagram that is not a BYE.
LEMMA PacketStep ==
  ASSUME MembershipInv, NEW p \in network, p.kind # "BYE", ProcessPacket(p.from),
         network' \subseteq network, UNCHANGED <<running, started>>
  PROVE  MembershipInv'
<1>0. p.from \in started /\ p.from \in SSRC
  BY DatagramIsPacket DEF MembershipInv, Types, Unstarted
<1>1. CASE source[p.from] # Absent /\ UNCHANGED senderVars
  <2>1. Counted'
    BY <1>1 DEF MembershipInv, Counted, Connected, senderVars
  <2>2. Types' /\ Unstarted' /\ ByesAreFirst'
    BY <1>1 DEF MembershipInv, Types, Unstarted, ByesAreFirst, senderVars
  <2>3. QED BY <2>1, <2>2 DEF MembershipInv
<1>2. CASE /\ source[p.from] = Absent
           /\ source' = [source EXCEPT ![p.from] = Active]
           /\ OnNewSource(p.from)
  <2>1. Cardinality(Connected') = Cardinality(Connected) + 1
    BY <1>0, <1>2, Joins DEF MembershipInv
  <2>2. Counted'
    BY <1>2, <2>1 DEF MembershipInv, Counted, OnNewSource
  <2>3. Types'
    BY <1>0, <1>2 DEF MembershipInv, Types, States, OnNewSource
  <2>4. Unstarted'
    BY <1>0, <1>2 DEF MembershipInv, Types, Unstarted
  <2>5. ByesAreFirst'
    BY <1>0, <1>2 DEF MembershipInv, Types, ByesAreFirst
  <2>6. QED BY <2>2, <2>3, <2>4, <2>5 DEF MembershipInv
<1>3. QED BY <1>1, <1>2 DEF ProcessPacket

\* A BYE, which is taken off the network.
LEMMA BYEStep ==
  ASSUME MembershipInv, NEW p \in network, p.kind = "BYE", ProcessBYE(p.from),
         network' = network \ {p}, UNCHANGED <<running, started>>
  PROVE  MembershipInv'
<1> DEFINE s == p.from
<1>0. s \in started /\ s \in SSRC /\ p = Packet("BYE", s)
  BY DatagramIsPacket DEF MembershipInv, Types, Unstarted
<1>1. s \notin running /\ source[s] # Left
  BY <1>0 DEF MembershipInv, ByesAreFirst
<1>2. source' = [source EXCEPT ![s] = Left] /\ Left \in States
  BY DEF ProcessBYE, States
<1>3. Counted'
  <2>1. CASE source[s] = Absent
    <3>1. Connected' = Connected
      BY <1>0, <1>2, <2>1, Stays DEF MembershipInv
    <3>2. QED BY <2>1, <3>1 DEF MembershipInv, Types, Counted, ProcessBYE, Disconnect
  <2>2. CASE source[s] = Active
    <3>1. Cardinality(Connected') = Cardinality(Connected) - 1
      BY <1>0, <1>2, <2>2, Leaves DEF MembershipInv
    <3>2. QED BY <2>2, <3>1 DEF MembershipInv, Counted, ProcessBYE, Disconnect
  <2>3. QED BY <1>0, <1>1, <2>1, <2>2 DEF MembershipInv, Types, States
<1>4. connectedSources' \in Int
  BY DEF MembershipInv, Types, ProcessBYE, Disconnect
<1>5. Types'
  BY <1>0, <1>2, <1>4 DEF MembershipInv, Types, States
<1>6. Unstarted'
  BY <1>0, <1>2 DEF MembershipInv, Types, Unstarted
<1>7. ByesAreFirst'
  BY <1>0, <1>1, <1>2 DEF MembershipInv, Types, ByesAreFirst
<1>8. QED BY <1>3, <1>5, <1>6, <1>7 DEF MembershipInv

LEMMA TimeOutStep ==
  ASSUME MembershipInv, NEW s \in SSRC, TimeOut(s)
  PROVE  MembershipInv'
<1>0. /\ source[s] # Absent /\ source' = [source EXCEPT ![s] = Absent]
      /\ UNCHANGED <<running, started, network>> /\ Absent \in States
  BY DEF TimeOut, States
<1>1. Counted' /\ connectedSources' \in Int
  <2>1. CASE source[s] = Left /\ UNCHANGED <<destinations, connectedSources>>
    <3>1. Connected' = Connected
      BY <1>0, <2>1, Stays DEF MembershipInv
    <3>2. QED BY <2>1, <3>1 DEF MembershipInv, Types, Counted
  <2>2. CASE source[s] = Active /\ Disconnect(s, connectedSources)
    <3>1. Cardinality(Connected') = Cardinality(Connected) - 1
      BY <1>0, <2>2, Leaves DEF MembershipInv
    <3>2. QED BY <2>2, <3>1 DEF MembershipInv, Types, Counted, Disconnect
  <2>3. QED BY <2>1, <2>2 DEF TimeOut, OnRemoveSource
<1>2. Types'
  BY <1>0, <1>1 DEF MembershipInv, Types, States
<1>3. Unstarted' /\ ByesAreFirst'
  BY <1>0 DEF MembershipInv, Types, Unstarted, ByesAreFirst
<1>4. QED BY <1>1, <1>2, <1>3 DEF MembershipInv

LEMMA MembershipNext == ~trial.repeats /\ MembershipInv /\ [Next]_vars => MembershipInv'
<1> SUFFICES ASSUME ~trial.repeats, MembershipInv, [Next]_vars PROVE MembershipInv'
  OBVIOUS
<1>1. CASE Receivers
  BY <1>1, ReceiversStep DEF Receivers
<1>2. ASSUME NEW p \in Datagram, Lose(p) PROVE MembershipInv'
  BY <1>2, LoseStep
<1>3. ASSUME NEW p \in Datagram, Receive(p) PROVE MembershipInv'
  <2>1. p \in network /\ network' = network \ {p} /\ UNCHANGED <<running, started>>
    BY <1>3 DEF Receive
  <2>2. CASE p.kind = "BYE" /\ ProcessBYE(p.from)
    BY <2>1, <2>2, BYEStep
  <2>3. CASE p.kind # "BYE" /\ ProcessPacket(p.from)
    BY <2>1, <2>3, PacketStep
  <2>4. QED BY <1>3, <2>2, <2>3 DEF Receive
<1>4. ASSUME NEW s \in SSRC, TimeOut(s) PROVE MembershipInv'
  BY <1>4, TimeOutStep
<1>5. CASE StopWaiting \/ StartSending \/ UNCHANGED vars
  <2>1. UNCHANGED <<senderVars, running, started, network>>
    BY <1>5 DEF StopWaiting, StartSending, vars
  <2>2. Counted'
    BY <2>1 DEF MembershipInv, Counted, Connected, senderVars
  <2>3. Types' /\ Unstarted' /\ ByesAreFirst'
    BY <2>1 DEF MembershipInv, Types, Unstarted, ByesAreFirst, senderVars
  <2>4. QED BY <2>2, <2>3 DEF MembershipInv
<1>6. QED BY <1>1, <1>2, <1>3, <1>4, <1>5 DEF Next

\* A behaviour belongs to one trial.
LEMMA TrialStays == [Next]_vars => trial' = trial
BY DEF Next, Receivers, StartReceiver, SendReport, SendBYE, Vanish, Lose, Receive, TimeOut,
       StopWaiting, StartSending, vars

(* As long as the network delivers nothing twice, the count the sender     *)
(* waits on is the number of receivers it knows to be there, whatever is   *)
(* lost, late or overtaken, and however often receivers restart.           *)
THEOREM CountIsRight == Spec => []CountMatchesSources
<1> DEFINE Either == trial.repeats \/ MembershipInv
<1>1. Init => Either
  BY MembershipInit
<1>2. Either /\ [Next]_vars => Either'
  <2> SUFFICES ASSUME Either, [Next]_vars PROVE Either'
    OBVIOUS
  <2>1. trial' = trial
    BY TrialStays
  <2>2. QED BY <2>1, MembershipNext
<1>3. Either => CountMatchesSources
  BY DEF MembershipInv, Counted, CountMatchesSources
<1>4. QED BY <1>1, <1>2, <1>3, PTL DEF Spec
-----------------------------------------------------------------------------
(* The destinations.  They hold whatever the network repeats: that a       *)
(* destination is taken away with the right source takes no count, only    *)
(* that no two receivers that have run share an address, and that no       *)
(* source is known before it has run.                                      *)

Heard ==
  /\ source \in [SSRC -> States]
  /\ running \subseteq started /\ started \subseteq SSRC
  /\ network \subseteq Datagram
  /\ Unstarted

Apart == \A s, t \in started : Home[s] = Home[t] => s = t

Matched == Apart => destinations = {Home[s] : s \in Connected}

DestInv == Heard /\ Matched

LEMMA ApartMeansNoRestart == started \subseteq SSRC => (Apart <=> ~ \E s \in started : Restarted(s))
BY DEF Apart, Restarted

\* Receivers that did not share an address before did not share one earlier.
LEMMA ApartBefore == started \subseteq started' /\ Apart' => Apart
BY DEF Apart

LEMMA DestInvInit == Init => DestInv
<1> SUFFICES ASSUME Init PROVE DestInv
  OBVIOUS
<1>1. Heard
  BY DEF Init, Heard, States, Unstarted
<1>2. Connected = {} /\ destinations = {}
  BY DEF Init, Connected
<1> QED BY <1>1, <1>2 DEF DestInv, Matched

\* What leaves the sender alone keeps the destinations right.
LEMMA MatchedStays ==
  ASSUME DestInv, UNCHANGED senderVars, started \subseteq started'
  PROVE  Matched'
BY ApartBefore DEF DestInv, Matched, Connected, senderVars

\* A source that is found is streamed to.
LEMMA FoundIsMatched ==
  ASSUME DestInv, NEW s \in started, started' = started,
         source' = [source EXCEPT ![s] = Active],
         destinations' = destinations \cup {Home[s]}
  PROVE  Matched'
<1>1. Connected' = Connected \cup {s}
  BY DEF Connected, DestInv, Heard
<1> QED BY <1>1, ApartBefore DEF DestInv, Matched

\* A source that goes takes only its own destination along.
LEMMA GoneIsMatched ==
  ASSUME DestInv, NEW s \in started, NEW to \in States, started' = started, to # Active,
         source' = [source EXCEPT ![s] = to],
         destinations' = destinations \ {Home[s]}
  PROVE  Matched'
<1>1. Connected' = Connected \ {s}
  BY DEF Connected, DestInv, Heard, States
<1>2. Connected \subseteq started
  BY DEF Connected, DestInv, Heard, Unstarted
<1> SUFFICES ASSUME Apart' PROVE destinations' = {Home[t] : t \in Connected'}
  BY DEF Matched
<1>3. Apart
  BY ApartBefore
<1>4. \A t \in Connected : Home[t] = Home[s] <=> t = s
  BY <1>2, <1>3 DEF Apart
<1> QED BY <1>1, <1>3, <1>4 DEF DestInv, Matched

\* What is under way is of a receiver that has run.
LEMMA FromStarted ==
  ASSUME Heard, NEW p \in network
  PROVE  p.from \in started /\ p.from \in SSRC
BY DatagramIsPacket DEF Heard, Unstarted

LEMMA DestInvReceivers ==
  ASSUME DestInv, NEW s \in SSRC,
         StartReceiver(s) \/ SendReport(s) \/ SendBYE(s) \/ Vanish(s)
  PROVE  DestInv'
<1>1. UNCHANGED senderVars /\ started \subseteq started'
  BY DEF StartReceiver, SendReport, SendBYE, Vanish
<1>2. \A kind \in Kinds : Packet(kind, s) \in Datagram /\ Packet(kind, s).from = s
  BY PacketFields
<1>3. running' \subseteq started' /\ started' \subseteq SSRC /\ s \in started'
  BY DEF StartReceiver, SendReport, SendBYE, Vanish, DestInv, Heard
<1>4. \E kind \in Kinds : network' \subseteq network \cup {Packet(kind, s)}
  BY DEF StartReceiver, SendReport, SendBYE, Vanish, Kinds
<1>5. Heard'
  BY <1>1, <1>2, <1>3, <1>4 DEF DestInv, Heard, Unstarted, senderVars
<1> QED BY <1>1, <1>5, MatchedStays DEF DestInv

LEMMA DestInvReceive ==
  ASSUME DestInv, NEW p \in Datagram, Receive(p)
  PROVE  DestInv'
<1> DEFINE s == p.from
<1>1. /\ s \in started /\ s \in SSRC /\ network' \subseteq network
      /\ started' = started /\ running' = running
  BY FromStarted DEF Receive, DestInv
<1>2. \E to \in States : source' = [source EXCEPT ![s] = to]
  <2>1. CASE ProcessBYE(s)
    BY <2>1 DEF ProcessBYE, States
  <2>2. CASE ProcessPacket(s)
    BY <1>1, <2>2 DEF ProcessPacket, senderVars, States, DestInv, Heard
  <2> QED BY <2>1, <2>2 DEF Receive
<1>3. Heard'
  BY <1>1, <1>2 DEF DestInv, Heard, Unstarted
<1>4. Matched'
  <2>1. CASE ProcessBYE(s)
    BY <1>1, <2>1, GoneIsMatched DEF ProcessBYE, Disconnect, States
  <2>2. CASE UNCHANGED senderVars
    BY <1>1, <2>2, MatchedStays
  <2>3. CASE source' = [source EXCEPT ![s] = Active] /\ OnNewSource(s)
    BY <1>1, <2>3, FoundIsMatched DEF OnNewSource
  <2> QED BY <2>1, <2>2, <2>3 DEF Receive, ProcessPacket
<1> QED BY <1>3, <1>4 DEF DestInv

LEMMA DestInvTimeOut ==
  ASSUME DestInv, NEW s \in SSRC, TimeOut(s)
  PROVE  DestInv'
<1>1. /\ source[s] # Absent /\ source' = [source EXCEPT ![s] = Absent] /\ Absent \in States
      /\ UNCHANGED <<running, started, network>>
  BY DEF TimeOut, States
<1>2. s \in started
  BY <1>1 DEF DestInv, Heard, Unstarted
<1>3. Heard'
  BY <1>1 DEF DestInv, Heard, Unstarted
<1>4. Matched'
  <2>1. CASE source[s] = Left /\ UNCHANGED destinations
    <3>1. Connected' = Connected
      BY <1>1, <2>1 DEF Connected, DestInv, Heard
    <3> QED BY <1>1, <2>1, <3>1, ApartBefore DEF DestInv, Matched
  <2>2. CASE Disconnect(s, connectedSources)
    BY <1>1, <1>2, <2>2, GoneIsMatched DEF Disconnect
  <2> QED BY <2>1, <2>2 DEF TimeOut, OnRemoveSource
<1> QED BY <1>3, <1>4 DEF DestInv

LEMMA DestInvNext == DestInv /\ [Next]_vars => DestInv'
<1> SUFFICES ASSUME DestInv, [Next]_vars PROVE DestInv'
  OBVIOUS
<1>1. CASE Receivers
  BY <1>1, DestInvReceivers DEF Receivers
<1>2. ASSUME NEW p \in Datagram, Receive(p) PROVE DestInv'
  BY <1>2, DestInvReceive
<1>3. ASSUME NEW s \in SSRC, TimeOut(s) PROVE DestInv'
  BY <1>3, DestInvTimeOut
<1>4. CASE \/ \E p \in Datagram : Lose(p)
           \/ StopWaiting \/ StartSending \/ UNCHANGED vars
  <2>1. UNCHANGED <<senderVars, running, started>> /\ network' \subseteq network
    BY <1>4 DEF Lose, StopWaiting, StartSending, vars
  <2>2. Heard'
    BY <2>1 DEF DestInv, Heard, Unstarted, senderVars
  <2> QED BY <2>1, <2>2, MatchedStays DEF DestInv
<1> QED BY <1>1, <1>2, <1>3, <1>4 DEF Next

(* The sender streams exactly to the receivers in its table that have not  *)
(* said BYE, whatever is lost, late, overtaken or delivered twice, until   *)
(* one restarts at an address another has had (SenderSession.cpp:194-240). *)
THEOREM DestinationsAreRight == Spec => []DestinationsMatchSources
<1>1. DestInv => DestinationsMatchSources
  BY ApartMeansNoRestart DEF DestInv, Heard, Matched, DestinationsMatchSources
<1> QED BY <1>1, DestInvInit, DestInvNext, PTL DEF Spec
-----------------------------------------------------------------------------
(* Second part: the stream.                                                *)

EndMarker == Stream!EndMarker
Time(k) == Stream!Time(k)

Datum == [seq : 0..SeqNumMod - 1, timestamp : 0..TimestampMod - 1, mark : BOOLEAN, ext : Int]
Waiting == [index : 0..EndMarker, ext : Nat]
Given == [index : 0..EndMarker, at : Int, flush : BOOLEAN]

\* The time whose timestamp packet k carries.
Behind(k) == IF k = 0 THEN Time(0) ELSE Time(k - 1)

\* Timestamp of packet k, counted from that of the first packet.
Stamp(k) == (packets[1].timestamp + (Behind(k) - Time(0))) % TimestampMod

Numbers ==
  /\ packets \in Seq(Datum) /\ Len(packets) <= EndMarker + 1
  /\ nextSeqNum \in 0..SeqNumMod - 1 /\ nextTimestamp \in 0..TimestampMod - 1
  /\ stream \in Streams
  /\ copies \in [0..EndMarker -> Nat]
  /\ \A k \in 0..EndMarker : copies[k] > 0 => k < Len(packets)
  /\ packetlist \in Seq(Waiting) /\ decoded \in Seq(Given)
  /\ \A i \in 1..Len(packetlist) : packetlist[i].index < Len(packets)
  /\ \A i \in 1..Len(decoded) : decoded[i].index < Len(packets)
  /\ numcycles \in Nat /\ exthighseqnr \in Nat
  /\ syncTime \in Int

\* What the packets carry.
Sent ==
  /\ \A i \in 1..Len(packets) :
       /\ packets[i].mark = (i - 1 = EndMarker)
       /\ i <= EndMarker => packets[i].ext = PlaybackStart + Time(i - 1)
       /\ packets[i].timestamp = Stamp(i - 1)
  /\ \A i \in 2..Len(packets) : packets[i].seq = (packets[i - 1].seq + 1) % SeqNumMod
  /\ Len(packets) > 0 => nextSeqNum = (packets[Len(packets)].seq + 1) % SeqNumMod
  /\ Len(packets) \in 1..EndMarker =>
       nextTimestamp = Stamp(Len(packets)) /\ lastTime = Time(Len(packets) - 1)
  /\ Len(packets) = 0 => lastTime = Stream!NoTime /\ nextTimestamp \in FirstTimestamps
  /\ Len(packets) > 0 => packets[1].timestamp \in FirstTimestamps

\* The locals of the receive loop after the packets given to the decoder.
Loop ==
  /\ decoded = <<>> => beginTimestamp = Stream!NoTimestamp /\ lastTimestamp = 0 /\ syncTime = 0
  /\ decoded # <<>> =>
       /\ beginTimestamp = packets[decoded[1].index + 1].timestamp
       /\ lastSeqNum = packets[decoded[Len(decoded)].index + 1].seq
       /\ lastTimestamp = (packets[decoded[Len(decoded)].index + 1].timestamp - beginTimestamp) % TimestampMod

\* Playback is synchronised by the first packet, unless it is the end.
Synchronised ==
  decoded # <<>> /\ decoded[1].index # EndMarker =>
    /\ syncTime = PlaybackStart + Time(decoded[1].index)
    /\ \A i \in 1..Len(decoded) :
         decoded[i].at =
           syncTime + ((packets[decoded[i].index + 1].timestamp - beginTimestamp) % TimestampMod)

PacketsInv == Numbers /\ Sent /\ Loop /\ Synchronised /\ Stream!FlushOnlyAtGap

\* What was decoded, what waits and what is under way, in this order.
InOrder ==
  /\ \A i, j \in 1..Len(decoded) : i < j => decoded[i].index <= decoded[j].index
  /\ \A i \in 1..Len(decoded), j \in 1..Len(packetlist) : decoded[i].index <= packetlist[j].index
  /\ \A i, j \in 1..Len(packetlist) : i < j => packetlist[i].index <= packetlist[j].index
  /\ \A k \in 0..EndMarker : copies[k] > 0 =>
       /\ \A i \in 1..Len(packetlist) : packetlist[i].index <= k
       /\ \A i \in 1..Len(decoded) : decoded[i].index <= k

\* The extended numbers of what waits.
Extended ==
  /\ ~sentdata => numcycles = 0
  /\ sentdata =>
       /\ numcycles % SeqNumMod = 0 /\ numcycles <= exthighseqnr /\ exthighseqnr < numcycles + SeqNumMod
       /\ \A i \in 1..Len(packetlist) : packetlist[i].ext <= exthighseqnr

OrderInv == ~stream.reorders => InOrder /\ Extended

\* No packet carries 2^32 - 1, which the receive loop takes for no timestamp.
NamesATime ==
  \A t \in FirstTimestamps, k \in 0..EndMarker :
    (t + (Behind(k) - Time(0))) % TimestampMod # Stream!NoTimestamp

\* The number a packet of a source is given that has had none accepted.
FirstNumber(seq) == IF seq = 0 /\ (validated \/ Stream!EndsProbation(seq)) THEN SeqNumMod ELSE seq

\* The numbers of two packets accepted after one another are less than half the range apart, and
\* those of packets that wait until the source is accepted do not wrap.
Continues(k) ==
  IF sentdata THEN 2 * ((packets[k + 1].seq - exthighseqnr) % SeqNumMod) < SeqNumMod
  ELSE \A i \in 1..Len(packetlist) : packetlist[i].ext <= FirstNumber(packets[k + 1].seq)

NumbersContinue ==
  ~stream.reorders => \A k \in 0..EndMarker : Stream!ReceivePacket(k) => Continues(k)
-----------------------------------------------------------------------------
(* Arithmetic of numbers that wrap.                                        *)

LEMMA ModRange ==
  ASSUME NEW a \in Int, NEW d \in Nat \ {0}
  PROVE  a % d \in 0..(d - 1) /\ a % d \in Int
  BY SMT

LEMMA ModSmall ==
  ASSUME NEW d \in Nat \ {0}, NEW a \in 0..(d - 1)
  PROVE  a % d = a
  BY SMT

Multiple(m, d) == \E q \in Int : m = q * d

LEMMA Multiples ==
  ASSUME NEW m \in Int, NEW n \in Int, NEW d \in Nat \ {0}, Multiple(m, d), Multiple(n, d)
  PROVE  Multiple(m + n, d) /\ Multiple(m - n, d)
<1>1. PICK p \in Int : m = p * d
  BY DEF Multiple
<1>2. PICK q \in Int : n = q * d
  BY DEF Multiple
<1>3. p + q \in Int /\ p - q \in Int /\ m + n = (p + q) * d /\ m - n = (p - q) * d
  BY <1>1, <1>2, SMT
<1> QED BY <1>3 DEF Multiple

LEMMA ModForm ==
  ASSUME NEW a \in Int, NEW d \in Nat \ {0}
  PROVE  \E m \in Int : Multiple(m, d) /\ a = m + (a % d)
<1>1. a \div d \in Int /\ (a \div d) * d \in Int /\ a = (a \div d) * d + (a % d)
  BY SMT
<1> QED BY <1>1 DEF Multiple

LEMMA ModUnique ==
  ASSUME NEW m \in Int, NEW d \in Nat \ {0}, NEW r \in 0..(d - 1), Multiple(m, d)
  PROVE  (m + r) % d = r
<1>1. PICK q \in Int : m = q * d
  BY DEF Multiple
<1>2. (q * d + r) % d = r
  BY SMT
<1> QED BY <1>1, <1>2

\* Two numbers that differ by a multiple have the same remainder.
LEMMA ModShift ==
  ASSUME NEW a \in Int, NEW b \in Int, NEW m \in Int, NEW d \in Nat \ {0}, Multiple(m, d), a = m + b
  PROVE  a % d = b % d
<1>1. PICK n \in Int : Multiple(n, d) /\ b = n + (b % d)
  BY ModForm
<1>2. b % d \in 0..(d - 1) /\ b % d \in Int
  BY ModRange
<1>3. m + n \in Int /\ Multiple(m + n, d)
  BY <1>1, Multiples
<1>4. a = (m + n) + (b % d)
  BY <1>1, <1>2
<1> QED BY <1>2, <1>3, <1>4, ModUnique

LEMMA ModAdd ==
  ASSUME NEW a \in Int, NEW b \in Int, NEW d \in Nat \ {0}
  PROVE  /\ ((a % d) + (b % d)) % d = (a + b) % d
         /\ ((a % d) - (b % d)) % d = (a - b) % d
         /\ ((a % d) + b) % d = (a + b) % d
<1>1. PICK m \in Int : Multiple(m, d) /\ a = m + (a % d)
  BY ModForm
<1>2. PICK n \in Int : Multiple(n, d) /\ b = n + (b % d)
  BY ModForm
<1> DEFINE ra == a % d
           rb == b % d
<1>3. ra \in Int /\ rb \in Int
  BY ModRange
<1>4. a = m + ra /\ b = n + rb
  BY <1>1, <1>2
<1>5. m + n \in Int /\ Multiple(m + n, d) /\ m - n \in Int /\ Multiple(m - n, d)
  BY <1>1, <1>2, Multiples
<1> HIDE DEF ra, rb
<1>6. (ra + rb) % d = (a + b) % d
  <2>1. a + b = (m + n) + (ra + rb) /\ ra + rb \in Int /\ a + b \in Int
    BY <1>3, <1>4
  <2> QED BY <1>5, <2>1, ModShift
<1>7. (ra - rb) % d = (a - b) % d
  <2>1. a - b = (m - n) + (ra - rb) /\ ra - rb \in Int /\ a - b \in Int
    BY <1>3, <1>4
  <2> QED BY <1>5, <2>1, ModShift
<1>8. (ra + b) % d = (a + b) % d
  <2>1. a + b = m + (ra + b) /\ ra + b \in Int /\ a + b \in Int
    BY <1>3, <1>4
  <2>2. Multiple(m, d)
    BY <1>1
  <2> QED BY <2>1, <2>2, ModShift
<1> QED BY <1>6, <1>7, <1>8 DEF ra, rb
-----------------------------------------------------------------------------
(* The track.                                                              *)

LEMMA Track ==
  /\ EndMarker \in Nat /\ EndMarker > 1
  /\ \A k \in 0..EndMarker - 1 : Time(k) \in Nat /\ Time(k) < TimestampMod
  /\ \A j, k \in 0..EndMarker - 1 : j < k => Time(j) < Time(k)
  /\ SeqNumMod \in Nat \ {0} /\ TimestampMod \in Nat \ {0} /\ PlaybackStart \in Nat \ {0}
  /\ GapLimit \in Nat /\ MAXPROBATIONPACKETS \in Nat \ {0}
<1>1. \A k \in 0..Len(Times) - 1 : k + 1 \in 1..Len(Times)
  BY StreamAssumption DEF Stream!Constants
<1>2. \A i \in 1..Len(Times) : Times[i] \in Nat
  BY StreamAssumption DEF Stream!Constants
<1> QED BY <1>1, <1>2, StreamAssumption DEF Stream!Constants, EndMarker, Time, Stream!EndMarker, Stream!Time

LEMMA BehindFacts ==
  /\ \A k \in 0..EndMarker : Behind(k) \in Nat /\ Behind(k) < TimestampMod
  /\ \A j, k \in 0..EndMarker : j <= k => Behind(j) <= Behind(k)
  BY Track DEF Behind

LEMMA LargestNatural ==
  ASSUME NEW bound \in Nat, NEW S \in SUBSET (0..bound), S # {}
  PROVE  \E n \in S : \A m \in S : m <= n
<1> DEFINE above(n) == (n + 1)..bound
           tails == {above(n) : n \in S}
           order == StrictSubsetOrdering(1..bound)
<1>1. IsWellFoundedOn(order, SUBSET (1..bound))
  <2>1. FiniteSubsetsOf(1..bound) = SUBSET (1..bound)
    <3>1. IsFiniteSet(1..bound)
      BY FS_Interval, SMT
    <3> QED BY <3>1, FS_FiniteSubsetsOfFinite
  <2> QED BY <2>1, FS_StrictSubsetOrderingWellFounded
<1>2. tails \subseteq SUBSET (1..bound) /\ tails # {}
  <2>1. \A n \in S : above(n) \subseteq 1..bound
    BY SMT
  <2> HIDE DEF above
  <2> QED BY <2>1
<1>3. PICK tail \in tails : \A other \in tails : ~ (<<other, tail>> \in order)
  <2> HIDE DEF tails, order
  <2> QED BY <1>1, <1>2, WFMin
<1>4. PICK n \in S : tail = above(n)
  OBVIOUS
<1>5. ASSUME NEW m \in S, m > n
      PROVE  FALSE
  <2>1. above(m) \subseteq above(n) /\ above(m) # above(n)
    BY <1>5, SMT
  <2>2. <<above(m), above(n)>> \in order
    BY <1>2, <2>1 DEF StrictSubsetOrdering
  <2> QED BY <1>3, <1>4, <2>2
<1> QED BY <1>5, SMT

\* No frame is longer than the longest.
LEMMA Longest ==
  /\ Stream!LongestFrame \in Nat
  /\ \A k \in 0..EndMarker : Behind(k) - (IF k = 0 THEN 0 ELSE Behind(k - 1)) \in Int
  /\ \A k \in 0..EndMarker - 2 : Time(k + 1) - Time(k) \in 0..Stream!LongestFrame
<1> DEFINE S == {Stream!Duration(k) : k \in 0..Stream!EndMarker - 2}
<1>1. \A k \in 0..EndMarker - 2 : Stream!Duration(k) = Time(k + 1) - Time(k)
  BY DEF Stream!Duration, Time
<1>2. \A k \in 0..EndMarker - 2 : Time(k + 1) - Time(k) \in 0..TimestampMod
  BY Track
<1>3. S \in SUBSET (0..TimestampMod) /\ S # {}
  <2>1. Stream!Duration(0) \in S
    BY Track DEF EndMarker
  <2> QED BY <1>1, <1>2, <2>1 DEF EndMarker
<1>4. \E d \in S : \A m \in S : m <= d
  BY <1>3, Track, LargestNatural
<1>5. \E d \in S : \A k \in 0..Stream!EndMarker - 2 : Stream!Duration(k) <= d
  BY <1>4
<1>6. Stream!LongestFrame \in S /\ \A k \in 0..Stream!EndMarker - 2 : Stream!Duration(k) <= Stream!LongestFrame
  BY <1>5 DEF Stream!LongestFrame
<1> QED BY <1>1, <1>2, <1>3, <1>6, BehindFacts, Track DEF EndMarker
-----------------------------------------------------------------------------
(* Operators of the model.                                                 *)

LEMMA StampFacts ==
  ASSUME Numbers, Len(packets) > 0
  PROVE  /\ \A k \in 0..EndMarker : Stamp(k) \in 0..TimestampMod - 1 /\ Stamp(k) \in Int
         /\ \A j, k \in 0..EndMarker : j <= k => (Stamp(k) - Stamp(j)) % TimestampMod = Behind(k) - Behind(j)
<1>1. packets[1].timestamp \in Int /\ packets[1].timestamp \in 0..TimestampMod - 1
  <2>1. 1 \in 1..Len(packets) /\ packets \in Seq(Datum)
    BY DEF Numbers
  <2>2. packets[1] \in Datum
    BY <2>1
  <2> QED BY <2>2, Track DEF Datum
<1> DEFINE first == packets[1].timestamp
<1>a. Time(0) \in Int /\ \A k \in 0..EndMarker : Behind(k) \in Int
  BY BehindFacts, Track
<1>2. \A k \in 0..EndMarker : first + (Behind(k) - Time(0)) \in Int
  <2> HIDE DEF first
  <2> QED BY <1>1, <1>a DEF first
<1>3. \A k \in 0..EndMarker : Stamp(k) \in 0..TimestampMod - 1 /\ Stamp(k) \in Int
  BY <1>2, ModRange, Track DEF Stamp
<1>4. ASSUME NEW j \in 0..EndMarker, NEW k \in 0..EndMarker, j <= k
      PROVE  (Stamp(k) - Stamp(j)) % TimestampMod = Behind(k) - Behind(j)
  <2> DEFINE a == packets[1].timestamp + (Behind(k) - Time(0))
             b == packets[1].timestamp + (Behind(j) - Time(0))
  <2>1. a \in Int /\ b \in Int
    BY <1>2
  <2>2. a - b = Behind(k) - Behind(j) /\ Behind(k) - Behind(j) \in 0..TimestampMod - 1
    <3>1. Behind(k) \in Nat /\ Behind(j) \in Nat /\ Behind(j) <= Behind(k) /\ Behind(k) < TimestampMod
      BY <1>4, BehindFacts
    <3> DEFINE bk == Behind(k)
               bj == Behind(j)
               t == Time(0)
    <3>2. first \in Int /\ t \in Int /\ bk \in Nat /\ bj \in Nat /\ bj <= bk /\ bk < TimestampMod
      BY <1>1, <1>a, <3>1
    <3>3. a = first + (bk - t) /\ b = first + (bj - t)
      OBVIOUS
    <3> HIDE DEF first, bk, bj, t, a, b
    <3>4. a - b = bk - bj /\ bk - bj \in 0..TimestampMod - 1
      BY <3>2, <3>3, Track
    <3> QED BY <3>4 DEF bk, bj
  <2>3. (Stamp(k) - Stamp(j)) % TimestampMod = (a - b) % TimestampMod
    BY <2>1, Track, ModAdd DEF Stamp
  <2> HIDE DEF a, b
  <2> QED BY <2>2, <2>3, ModSmall, Track
<1> QED BY <1>3, <1>4

\* What is inserted comes to what was there.
LEMMA InsertedAt ==
  ASSUME NEW list \in Seq(Waiting), NEW k \in 0..EndMarker, NEW ext \in Nat, NEW p \in 1..Len(list) + 1
  PROVE  LET rec == [index |-> k, ext |-> ext]
             new == Stream!InsertAt(list, p, rec)
         IN /\ new \in Seq(Waiting)
            /\ \A i \in 1..Len(new) : new[i] = rec \/ \E j \in 1..Len(list) : new[i] = list[j]
            /\ p = Len(list) + 1 => new = Append(list, rec)
<1> DEFINE rec == [index |-> k, ext |-> ext]
           before == SubSeq(list, 1, p - 1)
           after == SubSeq(list, p, Len(list))
           new == Stream!InsertAt(list, p, rec)
<1>1. rec \in Waiting
  BY DEF Waiting
<1>2. /\ before \in Seq(Waiting) /\ Len(before) = p - 1
      /\ \A i \in 1..p - 1 : before[i] = list[i]
  BY SubSeqProperties
<1>3. /\ after \in Seq(Waiting)
      /\ Len(after) = Len(list) - p + 1
      /\ \A i \in 1..Len(after) : after[i] = list[p + i - 1]
  BY SubSeqProperties
<1>4. new = before \o <<rec>> \o after
  BY DEF Stream!InsertAt
<1> HIDE DEF rec, before, after, new
<1>5. <<rec>> \in Seq(Waiting) /\ Len(<<rec>>) = 1 /\ <<rec>>[1] = rec
  BY <1>1
<1>6. /\ before \o <<rec>> \in Seq(Waiting) /\ Len(before \o <<rec>>) = p
      /\ \A i \in 1..p : (before \o <<rec>>)[i] = IF i < p THEN list[i] ELSE rec
  BY <1>2, <1>5, ConcatProperties
<1>7. /\ new \in Seq(Waiting) /\ Len(new) = Len(list) + 1
      /\ \A i \in 1..Len(list) + 1 : new[i] = IF i < p THEN list[i] ELSE IF i = p THEN rec ELSE list[i - 1]
  <2>1. new \in Seq(Waiting) /\ Len(new) = Len(list) + 1
    BY <1>3, <1>4, <1>6, ConcatProperties
  <2>2. ASSUME NEW i \in 1..Len(list) + 1
        PROVE  new[i] = IF i < p THEN list[i] ELSE IF i = p THEN rec ELSE list[i - 1]
    <3>1. new[i] = IF i <= Len(before \o <<rec>>) THEN (before \o <<rec>>)[i] ELSE after[i - Len(before \o <<rec>>)]
      BY <1>3, <1>4, <1>6, <2>1, ConcatProperties
    <3> QED BY <3>1, <1>3, <1>6
  <2> QED BY <2>1, <2>2
<1>8. p = Len(list) + 1 => new = Append(list, rec)
  <2> SUFFICES ASSUME p = Len(list) + 1 PROVE new = Append(list, rec)
    OBVIOUS
  <2>1. /\ Append(list, rec) \in Seq(Waiting) /\ Len(Append(list, rec)) = Len(list) + 1
        /\ \A i \in 1..Len(list) + 1 : Append(list, rec)[i] = IF i <= Len(list) THEN list[i] ELSE rec
    BY <1>1, AppendProperties
  <2> QED BY <1>7, <2>1, SeqEqual
<1>9. \A i \in 1..Len(new) : new[i] = rec \/ \E j \in 1..Len(list) : new[i] = list[j]
  BY <1>7
<1> QED BY <1>7, <1>8, <1>9 DEF rec, new

LEMMA StreamCardinality == \A S : Stream!Cardinality(S) = Cardinality(S)
  BY DEF Stream!Cardinality, Cardinality

LEMMA Inserted ==
  ASSUME NEW list \in Seq(Waiting), NEW k \in 0..EndMarker, NEW ext \in Nat
  PROVE  LET rec == [index |-> k, ext |-> ext]
             new == Stream!InsertPacket(list, k, ext)
         IN /\ new \in Seq(Waiting)
            /\ \A i \in 1..Len(new) : new[i] = rec \/ \E j \in 1..Len(list) : new[i] = list[j]
            /\ (\A i \in 1..Len(list) : list[i].ext <= ext) => new = list \/ new = Append(list, rec)
<1> DEFINE rec == [index |-> k, ext |-> ext]
           new == Stream!InsertPacket(list, k, ext)
           lower == {i \in DOMAIN list : list[i].ext < ext}
<1>1. CASE \E i \in DOMAIN list : list[i].ext = ext
  BY <1>1 DEF Stream!InsertPacket
<1>2. CASE ~ \E i \in DOMAIN list : list[i].ext = ext
  <2>1. new = Stream!InsertAt(list, Cardinality(lower) + 1, rec)
    BY <1>2, StreamCardinality DEF Stream!InsertPacket
  <2>2. DOMAIN list = 1..Len(list) /\ Len(list) \in Nat
    OBVIOUS
  <2>3. IsFiniteSet(DOMAIN list) /\ Cardinality(DOMAIN list) = Len(list)
    <3> DEFINE n == Len(list)
    <3>1. n \in Nat /\ n \in Int /\ 1 \in Int
      BY <2>2
    <3> HIDE DEF n
    <3>2. IsFiniteSet(1..n) /\ Cardinality(1..n) = n
      BY <3>1, FS_Interval
    <3> QED BY <2>2, <3>2 DEF n
  <2>4. lower \subseteq DOMAIN list
    OBVIOUS
  <2>5. Cardinality(lower) \in Nat /\ Cardinality(lower) <= Len(list)
    BY <2>3, <2>4, FS_Subset, FS_CardinalityType
  <2>6. (\A i \in 1..Len(list) : list[i].ext <= ext) => Cardinality(lower) = Len(list)
    <3> SUFFICES ASSUME \A i \in 1..Len(list) : list[i].ext <= ext PROVE lower = DOMAIN list
      BY <2>3
    <3>1. \A i \in 1..Len(list) : list[i].ext \in Nat
      <4>1. \A i \in 1..Len(list) : list[i] \in Waiting
        OBVIOUS
      <4> QED BY <4>1 DEF Waiting
    <3> QED BY <1>2, <2>2, <3>1
  <2> HIDE DEF lower
  <2> QED BY <2>1, <2>5, <2>6, InsertedAt
<1> QED BY <1>1, <1>2
-----------------------------------------------------------------------------
(* Every step keeps what is said of the packets.                           *)

LEMMA StreamConstants ==
  /\ Stream!LongestFrame' = Stream!LongestFrame /\ Stream!NoTime' = Stream!NoTime
  /\ Stream!NoTimestamp' = Stream!NoTimestamp
  /\ EndMarker' = EndMarker /\ \A k : Time(k)' = Time(k) /\ Behind(k)' = Behind(k)
  BY DEF Stream!LongestFrame, Stream!Duration, Stream!Time, Stream!EndMarker, Stream!NoTimestamp, EndMarker,
         Stream!NoTime, Time, Behind

LEMMA PacketsInit == Stream!Init => PacketsInv
<1> SUFFICES ASSUME Stream!Init PROVE PacketsInv
  OBVIOUS
<1> USE DEF Stream!Init
<1>1. stream.firstSeqNum \in 0..SeqNumMod - 1
  BY StreamAssumption DEF Stream!Constants
<1>2. FirstTimestamps \subseteq 0..TimestampMod - 1
  BY StreamAssumption DEF Stream!Constants
<1>3. Numbers
  BY <1>1, <1>2, Track DEF Numbers, EndMarker
<1>4. Sent
  BY Track DEF Sent
<1>5. Loop /\ Synchronised /\ Stream!FlushOnlyAtGap
  BY DEF Loop, Synchronised, Stream!FlushOnlyAtGap
<1> QED BY <1>3, <1>4, <1>5 DEF PacketsInv

\* What another packet leaves of the ones before.
LEMMA Appended ==
  ASSUME PacketsInv, NEW rec \in Datum, packets' = Append(packets, rec)
  PROVE  /\ packets' \in Seq(Datum) /\ Len(packets') = Len(packets) + 1
         /\ \A i \in 1..Len(packets) : packets'[i] = packets[i]
         /\ packets'[Len(packets) + 1] = rec
         /\ Len(packets) > 0 => \A k : Stamp(k)' = Stamp(k)
<1>1. packets \in Seq(Datum)
  BY DEF PacketsInv, Numbers
<1>2. /\ packets' \in Seq(Datum) /\ Len(packets') = Len(packets) + 1
      /\ \A i \in 1..Len(packets) : packets'[i] = packets[i]
      /\ packets'[Len(packets) + 1] = rec
  BY <1>1, AppendProperties
<1>3. ASSUME Len(packets) > 0, NEW k
      PROVE  Stamp(k)' = Stamp(k)
  <2>1. packets'[1] = packets[1]
    BY <1>1, <1>2, <1>3
  <2> QED BY <2>1, StreamConstants DEF Stamp
<1> QED BY <1>2, <1>3

LEMMA PacketsSend ==
  ASSUME PacketsInv, Stream!SendFrame \/ Stream!SendEndMarker
  PROVE  PacketsInv'
<1>0. PICK n \in 0..EndMarker : n = Len(packets)
  <2>1. Len(packets) \in Nat /\ Stream!EndMarker = EndMarker
    BY DEF EndMarker, PacketsInv, Numbers
  <2>2. Len(packets) < Stream!EndMarker \/ Len(packets) = Stream!EndMarker
    BY DEF Stream!SendFrame, Stream!SendEndMarker
  <2> QED BY <2>1, <2>2, Track
<1> DEFINE last == n = EndMarker
           inc == Stream!TimestampInc(IF last THEN Stream!NoTime ELSE Time(n))
           rec == [seq |-> nextSeqNum, timestamp |-> nextTimestamp, mark |-> last,
                   ext |-> IF last THEN Stream!NoTime ELSE PlaybackStart + Time(n)]
<1>1. n \in 0..EndMarker /\ (last <=> Stream!SendEndMarker)
  <2>1. Stream!SendFrame => Len(packets) < EndMarker
    BY DEF Stream!SendFrame, EndMarker
  <2>2. Stream!SendEndMarker => Len(packets) = EndMarker
    BY DEF Stream!SendEndMarker, EndMarker
  <2> QED BY <1>0, <2>1, <2>2, Track
<1>2. /\ packets' = Append(packets, rec)
      /\ nextTimestamp' = (nextTimestamp + inc) % TimestampMod
      /\ nextSeqNum' = (nextSeqNum + 1) % SeqNumMod
      /\ copies' = [copies EXCEPT ![n] = stream.copies]
      /\ stream' = stream
      /\ lastTime' = IF last THEN Stream!NoTime ELSE Time(n)
      /\ UNCHANGED <<packetlist, numcycles, exthighseqnr, Stream!loopVars>>
  BY <1>0, <1>1 DEF Stream!SendFrame, Stream!SendEndMarker, Stream!BuildPacket, EndMarker, Time,
                    Stream!entryVars, Stream!statsVars
<1>3. nextSeqNum \in 0..SeqNumMod - 1 /\ nextTimestamp \in 0..TimestampMod - 1
  BY DEF PacketsInv, Numbers
<1>4. rec \in Datum
  <2>1. IF last THEN Stream!NoTime \in Int ELSE PlaybackStart + Time(n) \in Int
    BY <1>1, Track DEF Stream!NoTime
  <2> QED BY <1>3, <2>1 DEF Datum
<1>5. /\ packets' \in Seq(Datum) /\ Len(packets') = n + 1
      /\ \A i \in 1..n : packets'[i] = packets[i]
      /\ packets'[n + 1] = rec
      /\ n > 0 => \A k : Stamp(k)' = Stamp(k)
  BY <1>0, <1>2, <1>4, Appended
<1>6. inc \in 0..TimestampMod - 1 /\ inc \in Int
  <2> DEFINE t == IF last THEN Stream!NoTime ELSE Time(n)
             s == IF lastTime = Stream!NoTime THEN t ELSE lastTime
  <2>1. t \in Int
    BY <1>1, Track DEF Stream!NoTime
  <2>2. n = 0 \/ n \in 1..EndMarker
    BY <1>1
  <2>3. s \in Int
    BY <1>0, <2>1, <2>2, Track DEF PacketsInv, Sent
  <2>4. inc = (t - s) % TimestampMod
    BY DEF Stream!TimestampInc
  <2> HIDE DEF t, s, inc
  <2>5. t - s \in Int
    BY <2>1, <2>3
  <2> QED BY <2>4, <2>5, ModRange, Track
<1>7. Numbers'
  <2>1. nextSeqNum' \in 0..SeqNumMod - 1 /\ nextTimestamp' \in 0..TimestampMod - 1
    <3> HIDE DEF inc
    <3>1. nextSeqNum + 1 \in Int /\ nextTimestamp + inc \in Int
      BY <1>3, <1>6
    <3> QED BY <1>2, <3>1, ModRange, Track
  <2>2. stream \in Streams /\ stream.copies \in Nat
    BY StreamAssumption DEF Stream!Constants, PacketsInv, Numbers
  <2>3. copies' \in [0..EndMarker -> Nat] /\ \A k \in 0..EndMarker : copies'[k] > 0 => k < n + 1
    <3>1. /\ copies \in [0..EndMarker -> Nat]
          /\ \A k \in 0..EndMarker : copies[k] > 0 => k < n
      BY <1>0 DEF PacketsInv, Numbers
    <3>2. copies' \in [0..EndMarker -> Nat]
          /\ \A k \in 0..EndMarker : k # n => copies'[k] = copies[k]
      BY <1>1, <1>2, <2>2, <3>1
    <3> QED BY <1>1, <3>1, <3>2, Track
  <2>4. n + 1 <= EndMarker + 1
    BY <1>1, Track
  <2>5. /\ packetlist' = packetlist /\ decoded' = decoded /\ numcycles' = numcycles
        /\ exthighseqnr' = exthighseqnr /\ syncTime' = syncTime
    BY <1>2 DEF Stream!loopVars
  <2>6. /\ \A i \in 1..Len(packetlist) : packetlist[i].index < n + 1
        /\ \A i \in 1..Len(decoded) : decoded[i].index < n + 1
    <3>1. /\ \A i \in 1..Len(packetlist) : packetlist[i].index < n /\ packetlist[i] \in Waiting
          /\ \A i \in 1..Len(decoded) : decoded[i].index < n /\ decoded[i] \in Given
      BY <1>0 DEF PacketsInv, Numbers
    <3>2. /\ \A i \in 1..Len(packetlist) : packetlist[i].index \in Int
          /\ \A i \in 1..Len(decoded) : decoded[i].index \in Int
      BY <3>1, Track DEF Waiting, Given
    <3> HIDE DEF last, inc, rec
    <3>3. \A i \in Int : i < n => i < n + 1
      BY <1>1, Track
    <3> QED BY <3>1, <3>2, <3>3
  <2>7. Len(packets') = n + 1 /\ packets' \in Seq(Datum) /\ stream' = stream
    BY <1>2, <1>5
  <2> HIDE DEF rec, inc, last
  <2> QED BY <1>2, <2>1, <2>2, <2>3, <2>4, <2>5, <2>6, <2>7, StreamConstants DEF PacketsInv, Numbers, Waiting, Given
<1>8. Sent'
  <2>1. n = 0 => nextTimestamp' = nextTimestamp
    <3>1. ASSUME n = 0 PROVE inc = 0
      <4>1. ~last /\ lastTime = Stream!NoTime
        BY <1>0, <3>1, Track DEF PacketsInv, Sent
      <4>2. inc = (Time(n) - Time(n)) % TimestampMod
        BY <4>1 DEF Stream!TimestampInc
      <4>3. Time(n) - Time(n) = 0
        BY <1>1, <4>1, Track
      <4> HIDE DEF inc
      <4> QED BY <4>2, <4>3, ModSmall, Track
    <3> HIDE DEF inc, last, rec
    <3>2. ASSUME n = 0 PROVE nextTimestamp' = nextTimestamp % TimestampMod
      <4>1. nextTimestamp + inc = nextTimestamp
        BY <1>3, <3>1, <3>2
      <4> QED BY <1>2, <4>1
    <3> QED BY <1>3, <3>2, ModSmall, Track
  <2>2. n = 0 => \A k : Stamp(k)' = (nextTimestamp + (Behind(k) - Time(0))) % TimestampMod
    BY <1>0, <1>5, StreamConstants DEF Stamp
  <2>3. ASSUME n = 0, NEW k \in 0..1
        PROVE  Stamp(k)' = nextTimestamp
    <3>1. Behind(k) = Time(0)
      BY DEF Behind
    <3>2. nextTimestamp + (Behind(k) - Time(0)) = nextTimestamp
      BY <1>3, <3>1, Track
    <3> QED BY <1>3, <2>2, <2>3, <3>2, ModSmall, Track
  <2>4. n # 0 => rec.timestamp = Stamp(n) /\ lastTime = Time(n - 1)
    BY <1>0, <1>1, Track DEF PacketsInv, Sent
  <2>5. rec.timestamp = Stamp(n)'
    <3>1. n = 0 => rec.timestamp = Stamp(n)'
      BY <2>3
    <3> QED BY <1>1, <1>5, <2>4, <3>1
  <2>6. n + 1 \in 1..EndMarker => nextTimestamp' = Stamp(n + 1)' /\ lastTime' = Time(n)
    <3> SUFFICES ASSUME ~last PROVE nextTimestamp' = Stamp(n + 1)'
      BY <1>1, <1>2, Track
    <3>1. CASE n = 0
      BY <2>1, <2>3, <3>1
    <3>2. CASE n # 0
      <4> DEFINE first == packets[1].timestamp
                 a == first + (Behind(n) - Time(0))
                 b == Time(n) - Time(n - 1)
      <4>1. inc = b % TimestampMod
        BY <2>4, <3>2, Track, <1>1 DEF Stream!TimestampInc, Stream!NoTime
      <4>2. Stamp(n) = a % TimestampMod /\ Behind(n) = Time(n - 1) /\ Behind(n + 1) = Time(n)
        BY <1>1, <3>2 DEF Stamp, Behind
      <4>3. Time(n) \in Int /\ Time(n - 1) \in Int /\ Time(0) \in Int /\ first \in Int
        <5>1. packets[1] \in Datum
          BY <1>0, <1>1, <3>2, Track DEF PacketsInv, Numbers
        <5> QED BY <1>1, <3>2, <5>1, Track DEF Datum
      <4>4. a \in Int /\ b \in Int /\ a + b = first + (Behind(n + 1) - Time(0))
        <5> DEFINE x == Time(n)
                   y == Time(n - 1)
                   z == Time(0)
        <5>1. a = first + (y - z) /\ b = x - y
          BY <4>2
        <5>2. Behind(n + 1) = x /\ x \in Int /\ y \in Int /\ z \in Int /\ first \in Int
          BY <4>2, <4>3
        <5> HIDE DEF a, b, first, x, y
        <5>3. first + (y - z) \in Int /\ x - y \in Int /\ (first + (y - z)) + (x - y) = first + (x - z)
          BY <5>2
        <5> QED BY <5>1, <5>2, <5>3
      <4>5. nextTimestamp' = ((a % TimestampMod) + (b % TimestampMod)) % TimestampMod
        BY <1>2, <2>4, <3>2, <4>1, <4>2
      <4>6. nextTimestamp' = (a + b) % TimestampMod
        <5> HIDE DEF a, b
        <5> QED BY <4>4, <4>5, ModAdd, Track
      <4>7. Stamp(n + 1) = (a + b) % TimestampMod
        BY <4>4 DEF Stamp
      <4> QED BY <1>1, <1>5, <3>2, <4>6, <4>7
    <3> QED BY <3>1, <3>2
  <2>7. n + 1 # 0 /\ packets'[n + 1].seq = nextSeqNum /\ packets'[n + 1].timestamp = nextTimestamp
        /\ packets'[n + 1].mark = (n = EndMarker) /\ (n # EndMarker => packets'[n + 1].ext = PlaybackStart + Time(n))
    BY <1>1, <1>5
  <2>8. n # 0 => nextSeqNum = (packets'[n].seq + 1) % SeqNumMod
    BY <1>0, <1>1, <1>5 DEF PacketsInv, Sent
  <2>9. /\ n = 0 => packets'[1].timestamp \in FirstTimestamps
        /\ n # 0 => packets'[1] = packets[1] /\ packets[1].timestamp \in FirstTimestamps
    BY <1>0, <1>1, <1>5 DEF PacketsInv, Sent
  <2>10. ASSUME NEW i \in 1..n + 1
         PROVE  /\ packets'[i].mark = (i - 1 = EndMarker)
                /\ i <= EndMarker => packets'[i].ext = PlaybackStart + Time(i - 1)
                /\ packets'[i].timestamp = Stamp(i - 1)'
    <3>1. CASE i = n + 1
      BY <1>1, <2>5, <2>7, <3>1
    <3>2. CASE i # n + 1
      <4>1. i \in 1..n /\ n > 0
        BY <1>1, <3>2
      <4> QED BY <1>0, <4>1, <1>5 DEF PacketsInv, Sent
    <3> QED BY <3>1, <3>2
  <2>11. ASSUME NEW i \in 2..n + 1
         PROVE  packets'[i].seq = (packets'[i - 1].seq + 1) % SeqNumMod
    <3>1. CASE i = n + 1
      BY <1>1, <2>7, <2>8, <3>1
    <3>2. CASE i # n + 1
      <4>1. i \in 2..n /\ i - 1 \in 1..n /\ i \in 1..n
        BY <1>1, <3>2
      <4> QED BY <1>0, <4>1, <1>5 DEF PacketsInv, Sent
    <3> QED BY <3>1, <3>2
  <2> HIDE DEF rec, inc, last
  <2>12. Len(packets') = n + 1 /\ n \in Nat
    BY <1>1, <1>5, Track
  <2>13. nextSeqNum' = (packets'[n + 1].seq + 1) % SeqNumMod
    BY <1>2, <2>7
  <2>14. packets'[1].timestamp \in FirstTimestamps
    BY <2>9
  <2>15. (n + 1) - 1 = n
    BY <2>12
  <2> QED BY <2>6, <2>10, <2>11, <2>12, <2>13, <2>14, <2>15, StreamConstants DEF Sent
<1>9. \A i \in 1..Len(decoded) : packets'[decoded[i].index + 1] = packets[decoded[i].index + 1]
  <2>1. \A i \in 1..Len(decoded) : decoded[i] \in Given /\ decoded[i].index < n
    BY <1>0 DEF PacketsInv, Numbers
  <2>2. \A i \in 1..Len(decoded) : decoded[i].index + 1 \in 1..n
    BY <1>1, <2>1, Track DEF Given
  <2> QED BY <1>5, <2>2
<1>10. decoded' = decoded /\ UNCHANGED Stream!loopVars
  BY <1>2 DEF Stream!loopVars
<1>11. Loop' /\ Synchronised' /\ Stream!FlushOnlyAtGap'
  <2>1. decoded # <<>> => 1 \in 1..Len(decoded) /\ Len(decoded) \in 1..Len(decoded)
    BY DEF PacketsInv, Numbers
  <2>2. Loop'
    BY <1>9, <1>10, <2>1, StreamConstants DEF PacketsInv, Loop, Stream!loopVars
  <2>3. Synchronised'
    BY <1>9, <1>10, <2>1, StreamConstants DEF PacketsInv, Synchronised, Stream!loopVars
  <2>4. Stream!FlushOnlyAtGap'
    BY <1>10, StreamConstants DEF PacketsInv, Stream!FlushOnlyAtGap
  <2> QED BY <2>2, <2>3, <2>4
<1> QED BY <1>7, <1>8, <1>11 DEF PacketsInv

\* A step that neither sends nor takes a packet.
LEMMA PacketsKept ==
  ASSUME PacketsInv, UNCHANGED <<Stream!senderVars, Stream!loopVars>>,
         copies' \in [0..EndMarker -> Nat],
         \A k \in 0..EndMarker : copies'[k] > 0 => copies[k] > 0,
         packetlist' \in Seq(Waiting),
         \A i \in 1..Len(packetlist') : packetlist'[i].index < Len(packets),
         numcycles' \in Nat, exthighseqnr' \in Nat
  PROVE  PacketsInv'
<1>1. /\ UNCHANGED <<stream, packets, nextSeqNum, nextTimestamp, lastTime>>
      /\ UNCHANGED <<beginTimestamp, lastTimestamp, lastSeqNum, syncTime, decoded>>
  BY DEF Stream!senderVars, Stream!loopVars
<1>2. \A k : Stamp(k)' = Stamp(k)
  BY <1>1, StreamConstants DEF Stamp
<1>3. Numbers'
  BY <1>1, StreamConstants DEF PacketsInv, Numbers, Waiting, Given
<1>4. Sent'
  BY <1>1, <1>2, StreamConstants DEF PacketsInv, Sent
<1>5. Loop' /\ Synchronised' /\ Stream!FlushOnlyAtGap'
  BY <1>1, StreamConstants DEF PacketsInv, Loop, Synchronised, Stream!FlushOnlyAtGap
<1> QED BY <1>3, <1>4, <1>5 DEF PacketsInv

\* The entry while the source is on probation.
LEMMA UnvalidatedList ==
  ASSUME NEW list \in Seq(Waiting)
  PROVE  /\ Stream!Unvalidated(list) \in Seq(Waiting)
         /\ \/ Stream!Unvalidated(list) = list
            \/ list # <<>> /\ Stream!Unvalidated(list) = Tail(list)
         /\ \A i \in 1..Len(Stream!Unvalidated(list)) :
              \E j \in 1..Len(list) : Stream!Unvalidated(list)[i] = list[j]
<1>1. CASE Len(list) # MAXPROBATIONPACKETS
  BY <1>1 DEF Stream!Unvalidated
<1>2. CASE Len(list) = MAXPROBATIONPACKETS
  <2>1. list # <<>>
    BY <1>2, Track
  <2>2. /\ Tail(list) \in Seq(Waiting) /\ Len(Tail(list)) = Len(list) - 1
        /\ \A i \in 1..Len(Tail(list)) : Tail(list)[i] = list[i + 1]
    BY <2>1, HeadTailProperties
  <2>3. \A i \in 1..Len(Tail(list)) : i + 1 \in 1..Len(list)
    BY <2>1, <2>2
  <2> QED BY <1>2, <2>1, <2>2, <2>3 DEF Stream!Unvalidated
<1> QED BY <1>1, <1>2

\* Where a received packet goes.
LEMMA Received ==
  ASSUME PacketsInv, NEW k \in 0..EndMarker, Stream!ReceivePacket(k)
  PROVE  /\ packets[k + 1] \in Datum /\ k < Len(packets) /\ copies[k] > 0
         /\ copies' \in [0..EndMarker -> Nat]
         /\ \A j \in 0..EndMarker : copies'[j] > 0 => copies[j] > 0 /\ (j < k => stream.reorders)
         /\ Stream!CycleOf(packets[k + 1].seq) \in Nat
<1>1. copies \in [0..EndMarker -> Nat] /\ Stream!Deliver(k)
  BY DEF PacketsInv, Numbers, Stream!ReceivePacket
<1>2. copies[k] > 0 /\ k < Len(packets)
  BY <1>1 DEF Stream!Deliver, PacketsInv, Numbers
<1>3. packets[k + 1] \in Datum
  <2>1. packets \in Seq(Datum) /\ k \in Nat /\ Len(packets) \in Nat
    BY Track DEF PacketsInv, Numbers
  <2>2. k + 1 \in 1..Len(packets)
    BY <1>2, <2>1
  <2> QED BY <2>1, <2>2
<1>4. \A j \in 0..EndMarker : copies'[j] =
        IF j = k THEN copies[k] - 1 ELSE IF j < k /\ ~stream.reorders THEN 0 ELSE copies[j]
  BY <1>1 DEF Stream!Deliver, EndMarker
<1>5. /\ copies' \in [0..EndMarker -> Nat]
      /\ \A j \in 0..EndMarker : copies'[j] > 0 => copies[j] > 0 /\ (j < k => stream.reorders)
  <2>1. copies[k] - 1 \in Nat
    BY <1>1, <1>2
  <2>2. DOMAIN copies' = 0..EndMarker /\ copies' = [j \in 0..EndMarker |-> copies'[j]]
    BY <1>1 DEF Stream!Deliver, EndMarker
  <2> QED BY <1>1, <1>2, <1>4, <2>1, <2>2
<1>6. Stream!CycleOf(packets[k + 1].seq) \in Nat
  BY Track DEF Stream!CycleOf, PacketsInv, Numbers
<1> QED BY <1>2, <1>3, <1>5, <1>6

LEMMA PacketsReceive ==
  ASSUME PacketsInv, NEW k \in 0..EndMarker, Stream!ReceivePacket(k)
  PROVE  PacketsInv'
<1>1. /\ packets[k + 1] \in Datum /\ k < Len(packets)
      /\ Stream!CycleOf(packets[k + 1].seq) \in Nat
  BY Received
<1> DEFINE seq == packets[k + 1].seq
           first == IF seq = 0 THEN SeqNumMod ELSE seq
           next == Stream!CycleOf(seq) + seq
<1>2. seq \in Nat /\ first \in Nat /\ next \in Nat /\ packetlist \in Seq(Waiting)
  <2>1. seq \in 0..SeqNumMod - 1
    BY <1>1 DEF Datum
  <2>2. Stream!CycleOf(seq) \in Nat
    BY <1>1
  <2>3. packetlist \in Seq(Waiting)
    BY DEF PacketsInv, Numbers
  <2> HIDE DEF seq
  <2> QED BY <2>1, <2>2, <2>3, Track
<1>3. PICK list \in Seq(Waiting), ext \in Nat :
        /\ packetlist' = Stream!InsertPacket(list, k, ext)
        /\ \A i \in 1..Len(list) : \E j \in 1..Len(packetlist) : list[i] = packetlist[j]
        /\ numcycles' \in Nat /\ exthighseqnr' \in Nat
  <2>1. CASE Stream!OnProbation(k)
    <3>1. /\ packetlist' = Stream!InsertPacket(Stream!Unvalidated(packetlist), k, seq)
          /\ numcycles' = numcycles /\ exthighseqnr' = exthighseqnr
      BY <2>1 DEF Stream!OnProbation
    <3> HIDE DEF seq
    <3> QED BY <1>2, <3>1, UnvalidatedList DEF PacketsInv, Numbers
  <2>2. CASE Stream!AcceptFirst(k)
    <3>1. /\ packetlist' = Stream!InsertPacket(packetlist, k, first)
          /\ numcycles' = (IF seq = 0 THEN SeqNumMod ELSE numcycles) /\ exthighseqnr' = first
      BY <2>2 DEF Stream!AcceptFirst
    <3> HIDE DEF seq, first
    <3> QED BY <1>2, <3>1, Track DEF PacketsInv, Numbers
  <2>3. CASE Stream!AcceptNext(k)
    <3>1. /\ packetlist' = Stream!InsertPacket(packetlist, k, next)
          /\ numcycles' = Stream!CycleOf(seq)
          /\ exthighseqnr' = next \/ exthighseqnr' = exthighseqnr
      BY <2>3 DEF Stream!AcceptNext
    <3>2. Stream!CycleOf(seq) \in Nat
      BY <1>1
    <3> HIDE DEF seq, next
    <3> QED BY <1>2, <3>1, <3>2, Track DEF PacketsInv, Numbers
  <2> QED BY <2>1, <2>2, <2>3 DEF Stream!ReceivePacket
<1>4. packetlist' \in Seq(Waiting)
  BY <1>3, Inserted
<1>5. \A i \in 1..Len(packetlist') : packetlist'[i].index < Len(packets)
  <2>1. ASSUME NEW i \in 1..Len(packetlist')
        PROVE  packetlist'[i] = [index |-> k, ext |-> ext] \/ \E j \in 1..Len(list) : packetlist'[i] = list[j]
    BY <1>3, Inserted
  <2>2. \A j \in 1..Len(packetlist) : packetlist[j].index < Len(packets)
    BY DEF PacketsInv, Numbers
  <2>3. \A j \in 1..Len(list) : list[j].index < Len(packets)
    BY <1>3, <2>2
  <2>4. ASSUME NEW i \in 1..Len(packetlist') PROVE packetlist'[i].index < Len(packets)
    BY <1>1, <2>1, <2>3
  <2> QED BY <2>4
<1>6. /\ copies' \in [0..EndMarker -> Nat]
      /\ \A j \in 0..EndMarker : copies'[j] > 0 => copies[j] > 0
  BY Received
<1>7. UNCHANGED <<Stream!senderVars, Stream!loopVars>>
  BY DEF Stream!ReceivePacket
<1> QED BY <1>3, <1>4, <1>5, <1>6, <1>7, PacketsKept

\* Distance of the timestamps of two packets that were given to the decoder.
LEMMA Distance ==
  ASSUME Numbers, Sent, NEW j \in 0..EndMarker, NEW k \in 0..EndMarker, k < Len(packets), j < Len(packets)
  PROVE  /\ packets[k + 1] \in Datum /\ packets[k + 1].timestamp \in 0..TimestampMod - 1
         /\ packets[k + 1].timestamp = Stamp(k)
         /\ packets[k + 1].mark = (k = EndMarker)
         /\ k # EndMarker => packets[k + 1].ext = PlaybackStart + Time(k)
         /\ j <= k => (packets[k + 1].timestamp - packets[j + 1].timestamp) % TimestampMod = Behind(k) - Behind(j)
<1>1. /\ j \in Nat /\ k \in Nat /\ Len(packets) \in Nat /\ packets \in Seq(Datum)
  BY Track DEF Numbers
<1>2. k + 1 \in 1..Len(packets) /\ j + 1 \in 1..Len(packets) /\ (k + 1) - 1 = k /\ (j + 1) - 1 = j
  BY <1>1
<1>3. packets[k + 1] \in Datum
  BY <1>1, <1>2
<1>4. packets[k + 1].timestamp = Stamp(k) /\ packets[j + 1].timestamp = Stamp(j)
  BY <1>2 DEF Sent
<1>5. /\ packets[k + 1].mark = (k = EndMarker)
      /\ k # EndMarker => packets[k + 1].ext = PlaybackStart + Time(k)
  <2>1. k # EndMarker => k + 1 <= EndMarker
    BY Track
  <2> QED BY <1>2, <2>1 DEF Sent
<1>6. j <= k => (Stamp(k) - Stamp(j)) % TimestampMod = Behind(k) - Behind(j)
  BY <1>1, StampFacts
<1> QED BY <1>3, <1>4, <1>5, <1>6 DEF Datum

LEMMA PacketsTake ==
  ASSUME PacketsInv, NamesATime, NEW ok \in BOOLEAN, Stream!TakePacket(ok)
  PROVE  PacketsInv'
<1> DEFINE k == Head(packetlist).index
           p == packets[k + 1]
           isFirst == beginTimestamp = Stream!NoTimestamp
           begin == IF isFirst THEN p.timestamp ELSE beginTimestamp
           last == IF isFirst THEN Stream!SeqBefore(p.seq) ELSE lastSeqNum
           timestamp == (p.timestamp - begin) % TimestampMod
           flush == Stream!FlushNeeded(p.seq, last, timestamp)
           given == [index |-> k, at |-> syncTime' + timestamp, flush |-> flush]
           n == Len(decoded)
<1> USE DEF PacketsInv
<1>1. /\ packetlist # <<>> /\ packetlist' = Tail(packetlist)
      /\ beginTimestamp' = begin /\ lastTimestamp' = timestamp /\ lastSeqNum' = p.seq
      /\ syncTime' = IF ~p.mark /\ syncTime = 0 THEN p.ext - timestamp ELSE syncTime
      /\ decoded' = Append(decoded, given)
      /\ UNCHANGED <<Stream!senderVars, copies, Stream!statsVars>>
  BY DEF Stream!TakePacket, Stream!SinceBegin, Stream!SyncPlayback
<1>2. /\ Head(packetlist) \in Waiting /\ Head(packetlist) = packetlist[1] /\ 1 \in 1..Len(packetlist)
      /\ Tail(packetlist) \in Seq(Waiting) /\ Len(Tail(packetlist)) = Len(packetlist) - 1
      /\ \A i \in 1..Len(Tail(packetlist)) : Tail(packetlist)[i] = packetlist[i + 1]
  BY <1>1, HeadTailProperties DEF Numbers
<1>3. k \in 0..EndMarker /\ k < Len(packets)
  BY <1>2 DEF Numbers, Waiting
<1>4. /\ p \in Datum /\ p.timestamp \in 0..TimestampMod - 1 /\ p.timestamp = Stamp(k) /\ p.mark = (k = EndMarker)
      /\ k # EndMarker => p.ext = PlaybackStart + Time(k)
  BY <1>3, Distance
<1>5. UNCHANGED <<stream, packets, nextSeqNum, nextTimestamp, lastTime, copies, numcycles, exthighseqnr>>
  BY <1>1 DEF Stream!senderVars, Stream!statsVars
<1>6. n \in Nat /\ (decoded = <<>> <=> n = 0) /\ \A i \in 1..n : decoded[i] \in Given
  BY DEF Numbers
<1>7. ASSUME NEW i \in 1..n
      PROVE  /\ decoded[i].index \in 0..EndMarker /\ decoded[i].index < Len(packets)
             /\ packets[decoded[i].index + 1].timestamp # Stream!NoTimestamp
             /\ packets[decoded[i].index + 1].timestamp \in 0..TimestampMod - 1
  <2>1. decoded[i].index \in 0..EndMarker /\ decoded[i].index < Len(packets)
    BY <1>6, <1>7 DEF Numbers, Given
  <2>2. /\ packets[decoded[i].index + 1].timestamp = Stamp(decoded[i].index)
        /\ packets[decoded[i].index + 1].timestamp \in 0..TimestampMod - 1
    BY <2>1, Distance
  <2>3. packets[1].timestamp \in FirstTimestamps
    BY <2>1, Track DEF Sent, Numbers
  <2> QED BY <2>1, <2>2, <2>3 DEF NamesATime, Stamp
<1>8. IF n = 0 THEN isFirst /\ lastTimestamp = 0 /\ syncTime = 0
      ELSE /\ ~isFirst /\ 1 \in 1..n /\ n \in 1..n
           /\ beginTimestamp = packets[decoded[1].index + 1].timestamp
           /\ lastTimestamp = (packets[decoded[n].index + 1].timestamp - beginTimestamp) % TimestampMod
  BY <1>6, <1>7 DEF Loop
<1>9. begin \in 0..TimestampMod - 1
  <2>1. n # 0 => beginTimestamp \in 0..TimestampMod - 1
    BY <1>7, <1>8
  <2> QED BY <1>4, <1>8, <2>1
<1>10. timestamp \in 0..TimestampMod - 1 /\ timestamp \in Int /\ (n = 0 => timestamp = 0)
  <2> DEFINE ts == p.timestamp
             b == begin
  <2>1. ts \in 0..TimestampMod - 1 /\ b \in 0..TimestampMod - 1 /\ (n = 0 => b = ts)
    BY <1>4, <1>8, <1>9
  <2>2. timestamp = (ts - b) % TimestampMod
    OBVIOUS
  <2> HIDE DEF ts, b, timestamp, n
  <2>3. PICK t \in Int : t = ts - b /\ (n = 0 => t = 0)
    BY <2>1, Track
  <2>4. timestamp = t % TimestampMod
    BY <2>2, <2>3
  <2>5. timestamp \in 0..TimestampMod - 1 /\ timestamp \in Int
    BY <2>4, ModRange, Track
  <2>6. 0 % TimestampMod = 0
    BY ModSmall, Track
  <2> QED BY <2>3, <2>4, <2>5, <2>6
<1>11. syncTime' \in Int
  BY <1>1, <1>4, <1>10 DEF Numbers, Datum
<1>12. flush \in BOOLEAN
  BY DEF Stream!FlushNeeded
<1>13. given \in Given
  BY <1>3, <1>10, <1>11, <1>12, SMTT(30) DEF Given
<1>14. /\ decoded' \in Seq(Given) /\ Len(decoded') = n + 1
       /\ \A i \in 1..n : decoded'[i] = decoded[i]
       /\ decoded'[n + 1] = given
  BY <1>1, <1>6, <1>13, AppendProperties DEF Numbers
<1>15. Numbers'
  <2>1. \A i \in 1..Len(packetlist') : packetlist'[i].index < Len(packets)
    <3>1. \A i \in 1..Len(Tail(packetlist)) : i + 1 \in 1..Len(packetlist)
      BY <1>2
    <3> QED BY <1>1, <1>2, <3>1 DEF Numbers
  <2>2. \A i \in 1..Len(decoded') : decoded'[i].index < Len(packets)
    <3>1. ASSUME NEW i \in 1..n + 1 PROVE decoded'[i].index < Len(packets)
      <4>1. i \in 1..n \/ i = n + 1
        BY <1>6
      <4>2. given.index = k
        OBVIOUS
      <4> HIDE DEF n, given, k
      <4> QED BY <1>3, <1>7, <1>14, <4>1, <4>2
    <3> QED BY <1>14, <3>1
  <2> HIDE DEF k, p, begin, last, timestamp, flush, given, n
  <2> QED BY <1>1, <1>2, <1>5, <1>11, <1>14, <2>1, <2>2, StreamConstants DEF Numbers, Waiting, Given
<1>16. Sent'
  <2>1. \A j : Stamp(j)' = Stamp(j)
    BY <1>5, StreamConstants DEF Stamp
  <2> QED BY <1>5, <2>1, StreamConstants DEF Sent
<1>17. Loop'
  <2>1. decoded'[1].index = IF n = 0 THEN k ELSE decoded[1].index
    BY <1>6, <1>8, <1>14
  <2>2. begin = packets[decoded'[1].index + 1].timestamp
    BY <1>8, <2>1
  <2>3. decoded' # <<>> /\ decoded'[Len(decoded')].index = k
    BY <1>6, <1>14
  <2>4. packets' = packets
    BY <1>5
  <2>5. beginTimestamp' = packets'[decoded'[1].index + 1].timestamp
    BY <1>1, <2>2, <2>4
  <2>6. lastSeqNum' = packets'[decoded'[Len(decoded')].index + 1].seq
    BY <1>1, <2>3, <2>4
  <2>7. lastTimestamp' = (packets'[decoded'[Len(decoded')].index + 1].timestamp - beginTimestamp') % TimestampMod
    BY <1>1, <2>3, <2>4
  <2> HIDE DEF k, p, begin, last, timestamp, flush, given, n
  <2> QED BY <2>3, <2>5, <2>6, <2>7 DEF Loop
<1>18. Synchronised'
  <2>1. packets' = packets /\ beginTimestamp' = begin /\ Len(decoded') = n + 1
    BY <1>1, <1>5, <1>14
  <2> DEFINE at(i) == (packets[decoded'[i].index + 1].timestamp - begin) % TimestampMod
  <2> SUFFICES ASSUME decoded'[1].index # EndMarker
               PROVE  /\ syncTime' = PlaybackStart + Time(decoded'[1].index)
                      /\ \A i \in 1..n + 1 : decoded'[i].at = syncTime' + at(i)
    <3> HIDE DEF begin, n, PacketsInv
    <3> QED BY <2>1, StreamConstants DEF Synchronised
  <2>4. decoded'[n + 1].at = syncTime' + at(n + 1)
    BY <1>14
  <2>2. CASE n = 0
    <3>1. k # EndMarker /\ decoded'[1].index = k
      BY <1>14, <2>2
    <3>2. syncTime' = p.ext /\ p.ext = PlaybackStart + Time(k)
      <4>1. ~p.mark /\ syncTime = 0 /\ timestamp = 0
        BY <1>4, <1>8, <1>10, <2>2, <3>1
      <4>2. p.ext \in Int
        BY <1>4 DEF Datum
      <4> HIDE DEF k, p, timestamp
      <4>3. p.ext - 0 = p.ext
        BY <4>2
      <4>4. p.ext = PlaybackStart + Time(k)
        BY <1>4, <3>1
      <4> QED BY <1>1, <4>1, <4>3, <4>4
    <3>3. \A i \in 1..n + 1 : i = n + 1
      BY <2>2
    <3> QED BY <2>4, <3>1, <3>2, <3>3
  <2>3. CASE n # 0
    <3>1. decoded'[1] = decoded[1] /\ begin = beginTimestamp
      BY <1>6, <1>8, <1>14, <2>3
    <3>2. /\ syncTime = PlaybackStart + Time(decoded[1].index)
          /\ \A i \in 1..n : decoded[i].at = syncTime + ((packets[decoded[i].index + 1].timestamp - beginTimestamp) % TimestampMod)
      BY <1>6, <2>3, <3>1 DEF Synchronised
    <3>3. syncTime # 0
      <4>1. PICK j : j = decoded[1].index
        OBVIOUS
      <4>2. j \in 0..EndMarker /\ j # EndMarker
        BY <1>7, <1>8, <2>3, <3>1, <4>1
      <4>3. j \in 0..EndMarker - 1
        BY <4>2, Track
      <4>4. Time(j) \in Nat
        BY <4>3, Track
      <4>5. PlaybackStart + Time(j) # 0
        BY <4>4, Track
      <4> QED BY <3>2, <4>1, <4>5
    <3>4. syncTime' = syncTime
      BY <1>1, <3>3
    <3>5. ASSUME NEW i \in 1..n + 1 PROVE decoded'[i].at = syncTime' + at(i)
      <4>1. i \in 1..n \/ i = n + 1
        BY <1>6
      <4> HIDE DEF begin, k, p, given, n
      <4> QED BY <1>14, <2>4, <3>1, <3>2, <3>4, <4>1
    <3> QED BY <3>1, <3>2, <3>4, <3>5
  <2> QED BY <2>2, <2>3, SMTT(30)
<1>19. Stream!FlushOnlyAtGap'
  <2> SUFFICES ASSUME Stream!LongestFrame <= GapLimit, flush
               PROVE  n + 1 > 1 /\ k # decoded[n].index + 1
    <3> DEFINE Gap(i) == decoded'[i].flush => i > 1 /\ decoded'[i].index # decoded'[i - 1].index + 1
    <3> SUFFICES ASSUME Stream!LongestFrame <= GapLimit, NEW i \in 1..n + 1
                 PROVE  Gap(i)
      BY <1>14, StreamConstants DEF Stream!FlushOnlyAtGap
    <3>1. CASE i \in 1..n
      <4>1. \A j \in 1..n : decoded[j].flush => j > 1 /\ decoded[j].index # decoded[j - 1].index + 1
        BY <1>6 DEF Stream!FlushOnlyAtGap, Numbers
      <4>2. i > 1 => i - 1 \in 1..n
        BY <1>6, <3>1
      <4> QED BY <1>14, <3>1, <4>1, <4>2
    <3>2. CASE i = n + 1
      <4>1. decoded'[i] = given /\ given.flush = flush /\ given.index = k
        BY <1>14, <3>2
      <4>2. i > 1 => i - 1 = n /\ n \in 1..n
        BY <1>6, <3>2
      <4> HIDE DEF n, flush, k, given
      <4> QED BY <1>14, <3>2, <4>1, <4>2
    <3> QED BY <1>6, <3>1, <3>2
  <2>1. (timestamp - lastTimestamp) % TimestampMod > GapLimit
    BY DEF Stream!FlushNeeded
  <2>2. n # 0
    <3> SUFFICES ASSUME n = 0 PROVE FALSE
      OBVIOUS
    <3>1. timestamp = 0 /\ lastTimestamp = 0
      BY <1>8, <1>10
    <3> HIDE DEF timestamp, n
    <3>2. timestamp - lastTimestamp = 0 /\ 0 % TimestampMod = 0
      BY <3>1, ModSmall, Track
    <3> QED BY <2>1, <3>2, Track
  <2>3. k # decoded[n].index + 1
    <3> SUFFICES ASSUME k = decoded[n].index + 1 PROVE FALSE
      OBVIOUS
    <3> DEFINE j == decoded[n].index
               tk == p.timestamp
               tj == packets[j + 1].timestamp
    <3>1. j \in 0..EndMarker /\ j < Len(packets) /\ j <= k
      BY <1>7, <1>8, <2>2, Track
    <3>2. (tk - tj) % TimestampMod = Behind(k) - Behind(j)
      BY <1>3, <3>1, Distance
    <3>3. lastTimestamp = (tj - begin) % TimestampMod /\ begin = beginTimestamp
      BY <1>8, <2>2
    <3>4. tk \in Int /\ tj \in Int /\ begin \in Int
      BY <1>4, <1>7, <1>8, <1>9, <2>2
    <3>5. (timestamp - lastTimestamp) % TimestampMod = (tk - tj) % TimestampMod
      <4> DEFINE b == begin
      <4>1. timestamp = (tk - b) % TimestampMod /\ lastTimestamp = (tj - b) % TimestampMod
        BY <3>3
      <4>2. b \in Int
        BY <3>4
      <4> HIDE DEF b, tk, tj, timestamp
      <4>3. PICK x \in Int, y \in Int : x = tk - b /\ y = tj - b
        BY <3>4, <4>2
      <4>4. x - y = tk - tj
        BY <3>4, <4>2, <4>3
      <4>5. ((x % TimestampMod) - (y % TimestampMod)) % TimestampMod = (x - y) % TimestampMod
        BY ModAdd, Track
      <4> QED BY <4>1, <4>3, <4>4, <4>5
    <3>6. Behind(k) - Behind(j) <= Stream!LongestFrame
      <4>1. CASE j = 0
        <5>1. Behind(k) = Time(0) /\ Behind(j) = Time(0)
          BY <4>1 DEF Behind
        <5> QED BY <5>1, Longest, Track
      <4>2. CASE j # 0
        <5>1. j - 1 \in 0..EndMarker - 2 /\ k # 0 /\ k - 1 = (j - 1) + 1
          <6>1. k = j + 1
            OBVIOUS
          <6> HIDE DEF j, k
          <6>2. \A e \in Nat : \A x \in 0..e, y \in 0..e :
                  y = x + 1 /\ x # 0 => x - 1 \in 0..e - 2 /\ y # 0 /\ y - 1 = (x - 1) + 1
            OBVIOUS
          <6> QED BY <1>3, <3>1, <4>2, <6>1, <6>2, Track
        <5>2. Behind(k) = Time((j - 1) + 1) /\ Behind(j) = Time(j - 1)
          <6> HIDE DEF j, k
          <6> QED BY <4>2, <5>1 DEF Behind
        <5>3. Time((j - 1) + 1) - Time(j - 1) \in 0..Stream!LongestFrame
          BY <5>1, Longest
        <5> QED BY <5>2, <5>3, Longest
      <4> QED BY <4>1, <4>2
    <3> DEFINE gap == (timestamp - lastTimestamp) % TimestampMod
    <3>7. gap <= Stream!LongestFrame
      BY <3>2, <3>5, <3>6
    <3>8. gap \in Int /\ Stream!LongestFrame \in Int /\ GapLimit \in Int /\ gap > GapLimit
      <4>1. lastTimestamp \in Int
        BY <3>3, <3>4, ModRange, Track
      <4> HIDE DEF timestamp
      <4>2. timestamp - lastTimestamp \in Int
        BY <1>10, <4>1
      <4> QED BY <2>1, <4>2, Longest, ModRange, Track
    <3> HIDE DEF gap
    <3> QED BY <3>7, <3>8
  <2> QED BY <1>6, <2>2, <2>3
<1> QED BY <1>15, <1>16, <1>17, <1>18, <1>19
-----------------------------------------------------------------------------
(* The order of the stream.                                                *)

LEMMA OrderInit == Stream!Init => OrderInv
<1> SUFFICES ASSUME Stream!Init PROVE OrderInv
  OBVIOUS
<1> USE DEF Stream!Init
<1>1. InOrder
  BY DEF InOrder, EndMarker
<1>2. Extended
  BY DEF Extended
<1> QED BY <1>1, <1>2 DEF OrderInv

LEMMA OrderSend ==
  ASSUME PacketsInv, OrderInv, Stream!SendFrame \/ Stream!SendEndMarker
  PROVE  OrderInv'
<1>1. /\ copies' = [copies EXCEPT ![Len(packets)] = stream.copies]
      /\ stream' = stream /\ packetlist' = packetlist /\ decoded' = decoded
      /\ sentdata' = sentdata /\ numcycles' = numcycles /\ exthighseqnr' = exthighseqnr
  BY DEF Stream!SendFrame, Stream!SendEndMarker, Stream!BuildPacket,
         Stream!entryVars, Stream!statsVars, Stream!loopVars
<1>2. /\ copies \in [0..EndMarker -> Nat]
      /\ \A i \in 1..Len(packetlist) : packetlist[i] \in Waiting /\ packetlist[i].index < Len(packets)
      /\ \A i \in 1..Len(decoded) : decoded[i] \in Given /\ decoded[i].index < Len(packets)
      /\ Len(packets) \in Nat
  <2>1. packets \in Seq(Datum) /\ packetlist \in Seq(Waiting) /\ decoded \in Seq(Given)
    BY DEF PacketsInv, Numbers
  <2>2. /\ \A i \in 1..Len(packetlist) : packetlist[i] \in Waiting
        /\ \A i \in 1..Len(decoded) : decoded[i] \in Given
    BY <2>1
  <2> QED BY <2>1, <2>2, SMTT(30) DEF PacketsInv, Numbers
<1>3. /\ \A i \in 1..Len(packetlist) : packetlist[i].index \in Int /\ packetlist[i].index <= Len(packets)
      /\ \A i \in 1..Len(decoded) : decoded[i].index \in Int /\ decoded[i].index <= Len(packets)
  BY <1>2, Track, SMTT(30) DEF Waiting, Given
<1>4. \A j \in 0..EndMarker : j # Len(packets) => copies'[j] = copies[j]
  BY <1>1, <1>2
<1>5. InOrder => InOrder'
  BY <1>1, <1>3, <1>4, StreamConstants DEF InOrder
<1>6. Extended => Extended'
  BY <1>1 DEF Extended
<1> QED BY <1>1, <1>5, <1>6 DEF OrderInv

\* A step in which nothing moves.
LEMMA OrderKept ==
  ASSUME OrderInv,
         UNCHANGED <<stream, copies, packetlist, decoded, sentdata, numcycles, exthighseqnr>>
  PROVE  OrderInv'
<1>1. InOrder => InOrder'
  BY StreamConstants DEF InOrder
<1>2. Extended => Extended'
  BY DEF Extended
<1> QED BY <1>1, <1>2 DEF OrderInv

LEMMA OrderTake ==
  ASSUME PacketsInv, OrderInv, NEW ok \in BOOLEAN, Stream!TakePacket(ok)
  PROVE  OrderInv'
<1> SUFFICES ASSUME ~stream.reorders PROVE InOrder' /\ Extended'
  BY DEF OrderInv, Stream!TakePacket, Stream!senderVars
<1>1. InOrder /\ Extended
  BY DEF OrderInv
<1>2. PICK given :
        /\ given.index = Head(packetlist).index
        /\ decoded' = Append(decoded, given)
        /\ packetlist # <<>> /\ packetlist' = Tail(packetlist)
        /\ copies' = copies /\ sentdata' = sentdata /\ numcycles' = numcycles /\ exthighseqnr' = exthighseqnr
  BY DEF Stream!TakePacket, Stream!statsVars
<1>3. /\ Head(packetlist) = packetlist[1] /\ 1 \in 1..Len(packetlist)
      /\ Len(Tail(packetlist)) = Len(packetlist) - 1
      /\ \A i \in 1..Len(packetlist) - 1 : i + 1 \in 1..Len(packetlist) /\ Tail(packetlist)[i] = packetlist[i + 1]
  BY <1>2, HeadTailProperties DEF PacketsInv, Numbers
<1>4. /\ Len(decoded') = Len(decoded) + 1
      /\ \A i \in 1..Len(decoded) : decoded'[i] = decoded[i]
      /\ decoded'[Len(decoded) + 1] = given
  BY <1>2, AppendProperties DEF PacketsInv, Numbers
<1> DEFINE n == Len(decoded)
           m == Len(packetlist) - 1
           k == given.index
<1>5. n \in Nat /\ m \in Nat
  BY <1>3 DEF PacketsInv, Numbers
<1>6. k = packetlist[1].index /\ k \in 0..EndMarker /\ k \in Int
  <2>1. packetlist[1] \in Waiting
    BY <1>3 DEF PacketsInv, Numbers
  <2> QED BY <1>2, <1>3, <2>1, Track DEF Waiting
<1>7. /\ Len(decoded') = n + 1 /\ Len(packetlist') = m
      /\ \A i \in 1..n : decoded'[i].index = decoded[i].index
      /\ decoded'[n + 1].index = k
      /\ \A i \in 1..m : packetlist'[i] = packetlist[i + 1]
  BY <1>2, <1>3, <1>4
<1>8. /\ \A i, j \in 1..n : i < j => decoded[i].index <= decoded[j].index
      /\ \A i \in 1..n : decoded[i].index <= k
      /\ \A i \in 1..n, j \in 1..m : decoded[i].index <= packetlist[j + 1].index
      /\ \A j \in 1..m : k <= packetlist[j + 1].index
      /\ \A i, j \in 1..m : i < j => packetlist[i + 1].index <= packetlist[j + 1].index
  <2>1. \A j \in 1..m : j + 1 \in 1..Len(packetlist) /\ 1 < j + 1
    BY <1>3, <1>5
  <2>2. \A i, j \in 1..m : i < j => i + 1 < j + 1
    BY <1>5
  <2> QED BY <1>1, <1>3, <1>6, <2>1, <2>2 DEF InOrder
<1>9. \A j \in 0..EndMarker : copies[j] > 0 =>
        /\ \A i \in 1..m : packetlist[i + 1].index <= j
        /\ k <= j
        /\ \A i \in 1..n : decoded[i].index <= j
  BY <1>1, <1>3, <1>6 DEF InOrder
<1>10. Extended'
  BY <1>1, <1>2, <1>3, <1>7 DEF Extended
<1> HIDE DEF n, m, k
<1>11. \A i \in 1..n + 1 : i \in 1..n \/ i = n + 1
  BY <1>5
<1>12. InOrder'
  <2>1. \A i, j \in 1..n + 1 : i < j => decoded'[i].index <= decoded'[j].index
    <3>1. \A i, j \in 1..n + 1 : i < j => i \in 1..n /\ (j \in 1..n \/ j = n + 1)
      BY <1>5
    <3> QED BY <1>7, <1>8, <3>1
  <2>2. \A i \in 1..n + 1, j \in 1..m : decoded'[i].index <= packetlist'[j].index
    BY <1>7, <1>8, <1>11
  <2>3. \A i, j \in 1..m : i < j => packetlist'[i].index <= packetlist'[j].index
    BY <1>7, <1>8
  <2>4. \A j \in 0..EndMarker : copies'[j] > 0 =>
          /\ \A i \in 1..m : packetlist'[i].index <= j
          /\ \A i \in 1..n + 1 : decoded'[i].index <= j
    BY <1>2, <1>7, <1>9, <1>11
  <2> QED BY <1>7, <2>1, <2>2, <2>3, <2>4, StreamConstants DEF InOrder
<1> QED BY <1>10, <1>12

\* Packets keep their order when the new one goes behind those that wait.
LEMMA OrderInserted ==
  ASSUME PacketsInv, InOrder, NEW k \in 0..EndMarker, copies[k] > 0,
         NEW list \in Seq(Waiting), NEW ext \in Nat,
         \/ list = packetlist
         \/ packetlist # <<>> /\ list = Tail(packetlist),
         packetlist' = list \/ packetlist' = Append(list, [index |-> k, ext |-> ext]),
         decoded' = decoded,
         \A j \in 0..EndMarker : copies'[j] > 0 => copies[j] > 0 /\ j >= k
  PROVE  InOrder'
<1> DEFINE rec == [index |-> k, ext |-> ext]
           d == IF list = packetlist THEN 0 ELSE 1
           n == Len(list)
<1>1. n \in Nat /\ d \in 0..1 /\ \A i \in 1..n : i + d \in 1..Len(packetlist) /\ list[i] = packetlist[i + d]
  <2>1. packetlist \in Seq(Waiting)
    BY DEF PacketsInv, Numbers
  <2>2. CASE list = packetlist
    BY <2>2
  <2>3. CASE list # packetlist /\ packetlist # <<>> /\ list = Tail(packetlist)
    BY <2>1, <2>3, HeadTailProperties
  <2> QED BY <2>2, <2>3
<1>2. rec \in Waiting /\ rec.index = k
  BY DEF Waiting
<1>3. \/ Len(packetlist') = n /\ \A i \in 1..n : packetlist'[i] = list[i]
      \/ /\ Len(packetlist') = n + 1
         /\ \A i \in 1..n : packetlist'[i] = list[i]
         /\ packetlist'[n + 1] = rec
  <2>1. /\ Len(Append(list, rec)) = n + 1
        /\ \A i \in 1..n : Append(list, rec)[i] = list[i]
        /\ Append(list, rec)[n + 1] = rec
    BY <1>2, AppendProperties
  <2> HIDE DEF n
  <2>2. packetlist' = list \/ packetlist' = Append(list, rec)
    OBVIOUS
  <2> HIDE DEF rec
  <2>3. Len(list) = n
    BY DEF n
  <2> QED BY <2>1, <2>2, <2>3
<1> HIDE DEF n, d, rec
<1>4. \A i \in 1..n : list[i].index <= k
  BY <1>1 DEF InOrder
<1>5. \A i, j \in 1..n : i < j => list[i].index <= list[j].index
  <2>1. \A i, j \in 1..n : i < j => i + d < j + d
    BY <1>1
  <2> QED BY <1>1, <2>1 DEF InOrder
<1>6. \A i \in 1..Len(packetlist') : i \in 1..n \/ (i = n + 1 /\ packetlist'[i] = rec)
  BY <1>1, <1>3
<1>7. \A i \in 1..n : packetlist'[i] = list[i]
  BY <1>3
<1>8. \A i, j \in 1..Len(packetlist') : i < j => packetlist'[i].index <= packetlist'[j].index
  <2>1. \A i, j \in 1..Len(packetlist') : i < j => i \in 1..n
    BY <1>1, <1>3
  <2> QED BY <1>2, <1>4, <1>5, <1>6, <1>7, <2>1
<1>9. \A i \in 1..Len(decoded), j \in 1..Len(packetlist') : decoded[i].index <= packetlist'[j].index
  <2>1. \A i \in 1..Len(decoded) : decoded[i].index <= k
    BY DEF InOrder
  <2>2. \A i \in 1..Len(decoded), j \in 1..n : decoded[i].index <= list[j].index
    BY <1>1 DEF InOrder
  <2> QED BY <1>2, <1>6, <1>7, <2>1, <2>2
<1>10. \A j \in 0..EndMarker : copies'[j] > 0 =>
         /\ \A i \in 1..Len(packetlist') : packetlist'[i].index <= j
         /\ \A i \in 1..Len(decoded) : decoded[i].index <= j
  <2>1. \A j \in 0..EndMarker : copies[j] > 0 =>
          /\ \A i \in 1..n : list[i].index <= j
          /\ \A i \in 1..Len(decoded) : decoded[i].index <= j
    BY <1>1 DEF InOrder
  <2> QED BY <1>2, <1>6, <1>7, <2>1
<1>11. \A i, j \in 1..Len(decoded) : i < j => decoded[i].index <= decoded[j].index
  BY DEF InOrder
<1> QED BY <1>8, <1>9, <1>10, <1>11, StreamConstants DEF InOrder

\* A number at most half the range ahead gets an extended number that is not lower.
LEMMA NextNumber ==
  ASSUME NEW seq \in 0..SeqNumMod - 1, numcycles \in Nat, exthighseqnr \in Nat,
         numcycles % SeqNumMod = 0, numcycles <= exthighseqnr, exthighseqnr < numcycles + SeqNumMod,
         2 * ((seq - exthighseqnr) % SeqNumMod) < SeqNumMod
  PROVE  /\ Stream!CycleOf(seq) \in Nat /\ Stream!CycleOf(seq) % SeqNumMod = 0
         /\ exthighseqnr <= Stream!CycleOf(seq) + seq
         /\ seq >= exthighseqnr % SeqNumMod \/ Stream!CycleOf(seq) # numcycles
<1> DEFINE M == SeqNumMod
           r == exthighseqnr - numcycles
<1>1. M \in Nat \ {0} /\ r \in 0..M - 1 /\ exthighseqnr = numcycles + r /\ seq \in Int /\ numcycles \in Int
  BY Track
<1>2. Multiple(numcycles, M)
  <2>1. PICK m \in Int : Multiple(m, M) /\ numcycles = m + (numcycles % M)
    BY <1>1, ModForm
  <2>2. numcycles = m
    BY <2>1
  <2> QED BY <2>1, <2>2
<1>3. Multiple(0, M) /\ Multiple(M, M)
  <2>1. 0 = 0 * M /\ M = 1 * M
    BY <1>1
  <2> QED BY <2>1 DEF Multiple
<1>4. 0 - numcycles \in Int /\ Multiple(0 - numcycles, M) /\ 0 - M \in Int /\ Multiple(0 - M, M)
      /\ numcycles + M \in Int /\ Multiple(numcycles + M, M)
  BY <1>1, <1>2, <1>3, Multiples
<1> HIDE DEF M, r
<1>5. exthighseqnr % M = r
  BY <1>1, <1>2, ModUnique
<1>6. (seq - exthighseqnr) % M = (seq - r) % M
  <2>1. PICK x \in Int, y \in Int, m \in Int :
          x = seq - exthighseqnr /\ y = seq - r /\ m = 0 - numcycles
    BY <1>1
  <2>2. x = m + y
    BY <1>1, <2>1
  <2>3. Multiple(m, M) /\ M \in Nat \ {0}
    BY <1>1, <1>4, <2>1
  <2>4. x % M = y % M
    BY <2>2, <2>3, ModShift, ZenonT(60)
  <2> QED BY <2>1, <2>4
<1>7. Stream!CycleOf(seq) = IF seq < r /\ (seq - r) % M < (r - seq) % M THEN numcycles + M ELSE numcycles
  BY <1>5 DEF Stream!CycleOf, M
<1>8. 2 * ((seq - r) % M) < M
  BY <1>6 DEF M
<1>9. seq \in 0..M - 1
  BY DEF M
<1>10. CASE seq >= r
  <2>1. Stream!CycleOf(seq) = numcycles
    BY <1>1, <1>7, <1>10
  <2> QED BY <1>1, <1>5, <1>10, <2>1 DEF M
<1>11. CASE seq < r
  <2>1. PICK d \in 0..M - 1 : d = (seq - r) + M
    BY <1>1, <1>9, <1>11
  <2>2. (seq - r) % M = d
    <3>1. (0 - M) + d = seq - r
      BY <1>1, <2>1
    <3>2. ((0 - M) + d) % M = d
      BY <1>1, <1>4, ModUnique
    <3> QED BY <3>1, <3>2
  <2>3. PICK e \in 0..M - 1 : e = r - seq
    BY <1>1, <1>9, <1>11
  <2>4. (r - seq) % M = e
    BY <1>1, <2>3, ModSmall
  <2>5. 2 * d < M
    BY <1>8, <2>2
  <2>6. d < e
    BY <1>1, <2>1, <2>3, <2>5
  <2>7. Stream!CycleOf(seq) = numcycles + M
    BY <1>7, <1>11, <2>2, <2>4, <2>6
  <2>8. (numcycles + M) % M = 0
    <3>1. 0 \in 0..M - 1 /\ (numcycles + M) + 0 = numcycles + M
      BY <1>1
    <3>2. ((numcycles + M) + 0) % M = 0
      BY <1>1, <1>4, <3>1, ModUnique
    <3> QED BY <3>1, <3>2
  <2>9. numcycles + M \in Nat /\ exthighseqnr <= (numcycles + M) + seq /\ numcycles + M # numcycles
    BY <1>1, <1>9
  <2> QED BY <2>7, <2>8, <2>9 DEF M
<1> QED BY <1>1, <1>10, <1>11

LEMMA OrderReceive ==
  ASSUME PacketsInv, OrderInv, NEW k \in 0..EndMarker, Stream!ReceivePacket(k),
         ~stream.reorders => Continues(k)
  PROVE  OrderInv'
<1> SUFFICES ASSUME ~stream.reorders PROVE InOrder' /\ Extended'
  BY DEF OrderInv, Stream!ReceivePacket, Stream!senderVars
<1>1. InOrder /\ Extended /\ Continues(k)
  BY DEF OrderInv
<1> DEFINE seq == packets[k + 1].seq
           next == Stream!CycleOf(seq) + seq
<1>2. /\ packets[k + 1] \in Datum /\ copies[k] > 0
      /\ copies' \in [0..EndMarker -> Nat]
      /\ \A j \in 0..EndMarker : copies'[j] > 0 => copies[j] > 0 /\ (j < k => stream.reorders)
  BY Received
<1>3. seq \in 0..SeqNumMod - 1 /\ packetlist \in Seq(Waiting) /\ numcycles \in Nat /\ exthighseqnr \in Nat
  BY <1>2 DEF Datum, PacketsInv, Numbers
<1>4. \A i \in 1..Len(packetlist) : packetlist[i].ext \in Nat
  <2>1. \A i \in 1..Len(packetlist) : packetlist[i] \in Waiting
    BY <1>3
  <2> QED BY <2>1 DEF Waiting
<1>5. PICK list \in Seq(Waiting), ext \in Nat :
        /\ packetlist' = Stream!InsertPacket(list, k, ext)
        /\ list = packetlist \/ (packetlist # <<>> /\ list = Tail(packetlist))
        /\ \A i \in 1..Len(list) : list[i].ext <= ext
        /\ IF sentdata' THEN /\ numcycles' % SeqNumMod = 0 /\ numcycles' <= exthighseqnr'
                             /\ exthighseqnr' < numcycles' + SeqNumMod /\ exthighseqnr' = ext
                        ELSE numcycles' = 0
  <2>1. CASE Stream!OnProbation(k)
    <3>1. /\ packetlist' = Stream!InsertPacket(Stream!Unvalidated(packetlist), k, seq)
          /\ numcycles' = numcycles /\ sentdata' = sentdata
          /\ ~sentdata /\ ~validated /\ ~Stream!EndsProbation(seq)
      BY <2>1 DEF Stream!OnProbation
    <3>2. \A i \in 1..Len(packetlist) : packetlist[i].ext <= seq
      BY <1>1, <3>1 DEF Continues, FirstNumber
    <3>3. numcycles = 0
      BY <1>1, <3>1 DEF Extended
    <3>4. \A i \in 1..Len(Stream!Unvalidated(packetlist)) : Stream!Unvalidated(packetlist)[i].ext <= seq
      BY <1>3, <3>2, UnvalidatedList
    <3>5. seq \in Nat
      BY <1>3, Track
    <3> HIDE DEF seq
    <3> QED BY <1>3, <3>1, <3>3, <3>4, <3>5, UnvalidatedList
  <2>2. CASE Stream!AcceptFirst(k)
    <3> DEFINE first == IF seq = 0 THEN SeqNumMod ELSE seq
    <3>1. /\ packetlist' = Stream!InsertPacket(packetlist, k, first)
          /\ numcycles' = (IF seq = 0 THEN SeqNumMod ELSE numcycles) /\ exthighseqnr' = first
          /\ ~sentdata /\ sentdata' = TRUE /\ (validated \/ Stream!EndsProbation(seq))
      BY <2>2 DEF Stream!AcceptFirst
    <3>2. \A i \in 1..Len(packetlist) : packetlist[i].ext <= first
      BY <1>1, <3>1 DEF Continues, FirstNumber
    <3>3. numcycles = 0
      BY <1>1, <3>1 DEF Extended
    <3>4. SeqNumMod % SeqNumMod = 0 /\ 0 % SeqNumMod = 0
      BY Track, ModSmall
    <3> HIDE DEF seq
    <3>5. first \in Nat /\ numcycles' <= first /\ first < numcycles' + SeqNumMod /\ numcycles' % SeqNumMod = 0
      <4>1. CASE seq = 0
        BY <3>1, <3>4, <4>1, Track
      <4>2. CASE seq # 0
        BY <1>3, <3>1, <3>3, <3>4, <4>2, Track
      <4> QED BY <4>1, <4>2
    <3> QED BY <1>3, <3>1, <3>2, <3>5
  <2>3. CASE Stream!AcceptNext(k)
    <3>1. /\ packetlist' = Stream!InsertPacket(packetlist, k, next)
          /\ numcycles' = Stream!CycleOf(seq)
          /\ exthighseqnr' = IF seq >= exthighseqnr % SeqNumMod \/ Stream!CycleOf(seq) # numcycles
                               THEN next ELSE exthighseqnr
          /\ sentdata /\ sentdata' = sentdata
      BY <2>3 DEF Stream!AcceptNext
    <3>2. /\ numcycles % SeqNumMod = 0 /\ numcycles <= exthighseqnr /\ exthighseqnr < numcycles + SeqNumMod
          /\ \A i \in 1..Len(packetlist) : packetlist[i].ext <= exthighseqnr
      BY <1>1, <3>1 DEF Extended
    <3>3. 2 * ((seq - exthighseqnr) % SeqNumMod) < SeqNumMod
      BY <1>1, <3>1 DEF Continues
    <3>4. /\ Stream!CycleOf(seq) \in Nat /\ Stream!CycleOf(seq) % SeqNumMod = 0
          /\ exthighseqnr <= next
          /\ seq >= exthighseqnr % SeqNumMod \/ Stream!CycleOf(seq) # numcycles
      <4> HIDE DEF seq
      <4> QED BY <1>3, <3>2, <3>3, NextNumber
    <3>5. exthighseqnr' = next /\ next \in Nat
      <4> HIDE DEF seq
      <4> QED BY <1>3, <3>1, <3>4, Track
    <3>6. numcycles' <= next /\ next < numcycles' + SeqNumMod
      <4>1. PICK c \in Nat : c = Stream!CycleOf(seq)
        BY <3>4
      <4>2. next = c + seq /\ numcycles' = c
        BY <3>1, <4>1
      <4> HIDE DEF seq, next
      <4> QED BY <1>3, <4>2, Track
    <3>7. \A i \in 1..Len(packetlist) : packetlist[i].ext <= next
      <4> HIDE DEF next
      <4> QED BY <1>3, <1>4, <3>2, <3>4, <3>5
    <3> HIDE DEF next, seq
    <3> QED BY <1>3, <3>1, <3>4, <3>5, <3>6, <3>7
  <2> QED BY <2>1, <2>2, <2>3 DEF Stream!ReceivePacket
<1>6. packetlist' = list \/ packetlist' = Append(list, [index |-> k, ext |-> ext])
  BY <1>5, Inserted
<1>7. decoded' = decoded
  BY DEF Stream!ReceivePacket, Stream!loopVars
<1>8. \A j \in 0..EndMarker : copies'[j] > 0 => copies[j] > 0 /\ j >= k
  <2>1. \A j \in 0..EndMarker : j < k \/ j >= k
    BY Track
  <2> QED BY <1>2, <2>1
<1>9. InOrder'
  BY <1>1, <1>2, <1>5, <1>6, <1>7, <1>8, OrderInserted
<1>10. \A i \in 1..Len(packetlist') : packetlist'[i].ext <= ext
  <2>1. ASSUME NEW i \in 1..Len(packetlist')
        PROVE  packetlist'[i] = [index |-> k, ext |-> ext] \/ \E j \in 1..Len(list) : packetlist'[i] = list[j]
    BY <1>5, Inserted
  <2>2. ASSUME NEW i \in 1..Len(packetlist') PROVE packetlist'[i].ext <= ext
    BY <1>5, <2>1
  <2> QED BY <2>2
<1>11. Extended'
  BY <1>5, <1>10 DEF Extended
<1> QED BY <1>9, <1>11
-----------------------------------------------------------------------------
(* What the decoder gets.                                                  *)

\* A step of the specification keeps both parts, as long as the numbers continue.
LEMMA StreamStep ==
  ASSUME PacketsInv, OrderInv, NamesATime, [Stream!Next]_(Stream!vars), [NumbersContinue]_(Stream!vars)
  PROVE  PacketsInv' /\ OrderInv'
<1>1. CASE UNCHANGED Stream!vars
  <2>1. UNCHANGED <<Stream!senderVars, Stream!loopVars, copies, packetlist, numcycles, exthighseqnr, sentdata>>
        /\ UNCHANGED <<stream, decoded>>
    BY <1>1 DEF Stream!vars, Stream!entryVars, Stream!statsVars, Stream!senderVars, Stream!loopVars
  <2> QED BY <2>1, PacketsKept, OrderKept DEF PacketsInv, Numbers
<1>2. CASE Stream!SendFrame \/ Stream!SendEndMarker
  BY <1>2, PacketsSend, OrderSend
<1>3. ASSUME NEW k \in 0..Stream!EndMarker, Stream!ReceivePacket(k)
      PROVE  PacketsInv' /\ OrderInv'
  <2>1. k \in 0..EndMarker
    BY DEF EndMarker
  <2>2. stream' = stream /\ copies' # copies
    <3>1. copies \in [0..EndMarker -> Nat]
      BY DEF PacketsInv, Numbers
    <3>2. copies[k] > 0 /\ copies'[k] = copies[k] - 1
      BY <1>3 DEF Stream!ReceivePacket, Stream!Deliver, EndMarker
    <3>3. copies[k] # copies[k] - 1
      BY <2>1, <3>1
    <3>4. UNCHANGED Stream!senderVars
      BY <1>3 DEF Stream!ReceivePacket
    <3> QED BY <3>2, <3>3, <3>4 DEF Stream!senderVars
  <2>3. NumbersContinue
    BY <2>2 DEF Stream!vars
  <2> QED BY <1>3, <2>1, <2>3, PacketsReceive, OrderReceive DEF NumbersContinue
<1>4. ASSUME NEW ok \in BOOLEAN, Stream!TakePacket(ok)
      PROVE  PacketsInv' /\ OrderInv'
  BY <1>4, PacketsTake, OrderTake
<1>5. CASE \/ Stream!ReceiveCNAME \/ Stream!BeginDataAccess \/ Stream!EndDataAccess
           \/ Stream!LeaveLoop \/ Stream!Stop
  <2>1. UNCHANGED <<Stream!senderVars, Stream!loopVars, copies, packetlist, numcycles, exthighseqnr, sentdata>>
    BY <1>5 DEF Stream!ReceiveCNAME, Stream!BeginDataAccess, Stream!EndDataAccess, Stream!LeaveLoop, Stream!Stop,
                Stream!entryVars, Stream!statsVars
  <2>2. UNCHANGED <<stream, decoded>>
    BY <2>1 DEF Stream!senderVars, Stream!loopVars
  <2> QED BY <2>1, <2>2, PacketsKept, OrderKept DEF PacketsInv, Numbers
<1> QED BY <1>1, <1>2, <1>3, <1>4, <1>5 DEF Stream!Next, Stream!NetworkThread

THEOREM StreamPackets ==
  ASSUME NamesATime
  PROVE  StreamSpec /\ [][NumbersContinue]_(Stream!vars) => [](PacketsInv /\ OrderInv)
<1>1. Stream!Init => PacketsInv /\ OrderInv
  BY PacketsInit, OrderInit
<1>2. (PacketsInv /\ OrderInv) /\ [Stream!Next]_(Stream!vars) /\ [NumbersContinue]_(Stream!vars)
        => (PacketsInv /\ OrderInv)'
  BY StreamStep
<1> QED BY <1>1, <1>2, PTL DEF StreamSpec, Stream!Spec

\* Whatever is lost or repeated on the way, and wherever numbers and timestamps wrap, the
\* decoder is given the stream in its order and told to begin anew only where it has a gap
\* (ReceiverSession.cpp:68 to 110).
THEOREM StreamInOrder ==
  ASSUME NamesATime
  PROVE  StreamSpec /\ [][NumbersContinue]_(Stream!vars) => []DecoderGetsStream
<1>1. PacketsInv /\ OrderInv => DecoderGetsStream
  <2> SUFFICES ASSUME PacketsInv, OrderInv PROVE Stream!TakenInOrder /\ Stream!FlushOnlyAtGap
    BY DEF DecoderGetsStream, Stream!DecoderGetsStream
  <2>1. DOMAIN decoded = 1..Len(decoded)
    BY DEF PacketsInv, Numbers
  <2> QED BY <2>1 DEF PacketsInv, OrderInv, InOrder, Stream!TakenInOrder
<1> QED BY <1>1, StreamPackets, PTL

\* In order, no frame is scheduled further than the duration of one frame from the time
\* the sender means (ReceiverSession.cpp:105, 110).
THEOREM StreamWithinOneFrame ==
  ASSUME NamesATime
  PROVE  StreamSpec /\ [][NumbersContinue]_(Stream!vars) => []WithinOneFrame
<1>1. PacketsInv /\ OrderInv => WithinOneFrame
  <2> SUFFICES ASSUME PacketsInv, OrderInv, ~stream.reorders,
                      NEW i \in DOMAIN decoded, decoded[i].index # EndMarker
               PROVE  Stream!Off(i) \in -Stream!LongestFrame..Stream!LongestFrame
    BY DEF WithinOneFrame, Stream!WithinOneFrame, Stream!Frames, EndMarker
  <2> USE DEF PacketsInv
  <2>1. i \in 1..Len(decoded) /\ 1 \in 1..Len(decoded) /\ decoded # <<>> /\ Len(decoded) \in Nat
    BY DEF Numbers
  <2>2. PICK j, k : j = decoded[1].index /\ k = decoded[i].index
    OBVIOUS
  <2>3. j \in 0..EndMarker /\ k \in 0..EndMarker /\ j < Len(packets) /\ k < Len(packets)
    <3>1. decoded[1] \in Given /\ decoded[i] \in Given
      BY <2>1 DEF Numbers
    <3> QED BY <2>1, <2>2, <3>1 DEF Numbers, Given
  <2>4. j <= k
    <3>1. i = 1 \/ 1 < i
      BY <2>1
    <3>2. i = 1 => j = k
      BY <2>2
    <3>3. 1 < i => j <= k
      BY <2>1, <2>2 DEF OrderInv, InOrder
    <3> QED BY <2>3, <3>1, <3>2, <3>3, Track
  <2>5. j # EndMarker /\ j \in 0..EndMarker - 1 /\ k \in 0..EndMarker - 1
    <3>1. k # EndMarker
      BY <2>2
    <3>2. \A e \in Nat : \A x \in 0..e, y \in 0..e :
            x <= y /\ y # e => x # e /\ x \in 0..e - 1 /\ y \in 0..e - 1
      OBVIOUS
    <3> QED BY <2>3, <2>4, <3>1, <3>2, Track
  <2>6. (packets[k + 1].timestamp - packets[j + 1].timestamp) % TimestampMod = Behind(k) - Behind(j)
    BY <2>3, <2>4, Distance
  <2>7. beginTimestamp = packets[j + 1].timestamp
    BY <2>1, <2>2 DEF Loop
  <2>8. syncTime = PlaybackStart + Time(j)
        /\ decoded[i].at = syncTime + ((packets[k + 1].timestamp - beginTimestamp) % TimestampMod)
    BY <2>1, <2>2, <2>5 DEF Synchronised
  <2>9. decoded[i].at = (PlaybackStart + Time(j)) + (Behind(k) - Behind(j))
    BY <2>6, <2>7, <2>8
  <2>10. ASSUME NEW x \in 0..EndMarker - 1
         PROVE  Time(x) \in Int /\ Behind(x) \in Int /\ Time(x) - Behind(x) \in 0..Stream!LongestFrame
    <3>1. CASE x = 0
      BY <3>1, Longest, Track DEF Behind
    <3>2. CASE x # 0
      <4>1. PICK y \in 0..EndMarker - 2 : x = y + 1
        BY <2>10, <3>2, Track
      <4>2. y + 1 - 1 = y /\ Behind(x) = Time(y)
        BY <3>2, <4>1, Track DEF Behind
      <4>3. Time(y + 1) - Time(y) \in 0..Stream!LongestFrame
        BY Longest
      <4>4. Time(x) \in Int /\ Time(y) \in Int
        BY <4>1, Track
      <4> QED BY <4>1, <4>2, <4>3, <4>4
    <3> QED BY <3>1, <3>2
  <2>11. Stream!Off(i) = decoded[i].at - (PlaybackStart + Time(k))
    BY <2>2 DEF Stream!Off, Stream!Ideal, Time
  <2>12. PICK a, b, c, d, p, l :
           /\ a = Time(j) /\ b = Behind(j) /\ c = Time(k) /\ d = Behind(k) /\ p = PlaybackStart
           /\ l = Stream!LongestFrame
    OBVIOUS
  <2>13. a \in Int /\ b \in Int /\ c \in Int /\ d \in Int /\ p \in Int /\ l \in Nat
    BY <2>5, <2>10, <2>12, Longest, Track
  <2>14. a - b \in 0..l /\ c - d \in 0..l
    BY <2>5, <2>10, <2>12
  <2>15. ((p + a) + (d - b)) - (p + c) \in -l..l
    BY <2>13, <2>14
  <2> QED BY <2>9, <2>11, <2>12, <2>15
<1> QED BY <1>1, StreamPackets, PTL
-----------------------------------------------------------------------------
(* Third part: the reports.                                                *)

Hosts == {"sender", "receiver"}

Counts ==
  [sentdata : BOOLEAN, probation : Int, prevseqnr : Int, numcycles : Nat, baseseqnr : Int,
   exthighseqnr : Nat, savedextseqnr : Int, packetsreceived : Nat, numnewpackets : Nat,
   fresh : BOOLEAN, first : Int, heard : SUBSET Int, surplus : Nat]
Pending == [to : Hosts, ssrc : Int, seqnr : 0..SeqMod - 1, index : Int, more : BOOLEAN]

\* Stats of an entry: when something came, it was counted.
Kept(s) == s \in Counts /\ (s.fresh => s.numnewpackets > 0)
Member(e) ==
  /\ e \in [ownssrc : BOOLEAN, validated : BOOLEAN, receivedbye : BOOLEAN, stats : Counts, RRinf : {e.RRinf}]
  /\ Kept(e.stats)

\* Where packet i comes with number n: the number that packet 0 would have.
Offset(w, n, i) == IF w THEN (n - i) % SeqMod ELSE n - i

\* The last packet that was heard, and the offset it shows.
Last(s) == Reports!Max(s.heard)
Shown(w, s) == Offset(w, s.exthighseqnr % SeqMod, Last(s))

\* What stats have counted of a stream of n packets.
Counting(s, n) ==
  /\ ~s.sentdata => s.packetsreceived = 0 /\ s.surplus = 0 /\ s.numcycles = 0
  /\ s.sentdata =>
       /\ s.numcycles % SeqMod = 0
       /\ s.numcycles <= s.exthighseqnr /\ s.exthighseqnr < s.numcycles + SeqMod
       /\ s.first \in 1..n /\ Last(s) \in s.heard /\ Last(s) <= n
       /\ s.heard \subseteq s.first..Last(s)
       /\ s.exthighseqnr - s.baseseqnr = Last(s) - s.first + 1
       /\ s.packetsreceived = Cardinality(s.heard) + s.surplus

\* The entries of a session.
MembersOf(p) == DOMAIN table[p]

Drawn ==
  /\ session \in ReportTrials
  /\ drawn \in Nat /\ ssrc \in [Hosts -> Nat] /\ \A p \in Hosts : ssrc[p] <= drawn
  /\ DOMAIN table = Hosts
  /\ \A p \in Hosts : \A x \in MembersOf(p) : Member(table[p][x])
  /\ seqnr \in 0..SeqMod - 1 /\ count \in Nat /\ count <= session.packets
  /\ rtp \subseteq Pending /\ IsFiniteSet(rtp)
  /\ DOMAIN rtcp = Hosts

\* The stream of the sender on its way.
Way(S) == {q \in S : q.to = "receiver"}
Again(S) == {q \in Way(S) : q.more}
Copies(S) == Cardinality(Way(S)) + Cardinality(Again(S))
OnTheWay == Way(rtp)
ToCome == Copies(rtp)

Accepted(x) == x \in MembersOf("receiver") /\ table["receiver"][x].stats.sentdata

\* All that was numbered under an SSRC shows the same offset.
NumberedFrom(x, o) ==
  /\ \A q \in OnTheWay : q.ssrc = x => Offset(session.wraps, q.seqnr, q.index) = o
  /\ ssrc["sender"] = x => Offset(session.wraps, seqnr, count + 1) = o
  /\ Accepted(x) => Shown(session.wraps, table["receiver"][x].stats) = o

Numbered ==
  /\ \A x \in 0..drawn : \E o \in Int : NumberedFrom(x, o)
  /\ \A q \in OnTheWay : q.ssrc \in 0..drawn /\ q.index \in 1..count
  /\ \A x \in MembersOf("receiver") : Accepted(x) => x \in 0..drawn
  /\ ~session.wraps => seqnr <= count
  /\ session.wraps =>
       \A q \in OnTheWay : Accepted(q.ssrc) => Last(table["receiver"][q.ssrc].stats) <= q.index

\* No packet is counted more than twice.
Delivered ==
  /\ ToCome <= 2 * count
  /\ \A x \in MembersOf("receiver") :
       /\ Counting(table["receiver"][x].stats, count)
       /\ table["receiver"][x].stats.packetsreceived + ToCome <= 2 * count

\* What reports say.
Said ==
  /\ rtcp["sender"] # NULL =>
       \A x \in DOMAIN rtcp["sender"].blocks :
         Reports!GetLostPacketCount(rtcp["sender"].blocks[x]) = rtcp["sender"].blocks[x].truth
  /\ LossIsReported

ReportInv == Drawn /\ Numbered /\ Delivered /\ Said
-----------------------------------------------------------------------------
LEMMA ReportConstants ==
  /\ Reports!Sessions = Hosts
  /\ Reports!Other("sender") = "receiver" /\ Reports!Other("receiver") = "sender"
  /\ SeqMod \in Nat /\ LostMod \in Nat /\ 1 < SeqMod
  /\ \A t \in ReportTrials :
       /\ t.wraps \in BOOLEAN /\ t.same \in BOOLEAN /\ t.before \in BOOLEAN
       /\ t.packets \in Nat /\ 2 * t.packets < SeqMod /\ 4 * t.packets < LostMod
  BY ReportAssumption DEF Reports!Constants, Reports!Sessions, Reports!Other, Hosts

LEMMA DrawnBounds ==
  ASSUME Drawn
  PROVE  /\ SeqMod \in Nat \ {0} /\ LostMod \in Nat \ {0} /\ 1 < SeqMod /\ count \in Nat /\ session.wraps \in BOOLEAN
         /\ 2 * count < SeqMod /\ 4 * count < LostMod
<1>1. PICK p \in Nat : p = session.packets /\ count <= p /\ 2 * p < SeqMod /\ 4 * p < LostMod
  BY ReportConstants DEF Drawn
<1>2. SeqMod \in Nat /\ LostMod \in Nat /\ 1 < SeqMod /\ count \in Nat
  BY ReportConstants DEF Drawn
<1>3. session.wraps \in BOOLEAN
  BY ReportConstants DEF Drawn
<1> QED BY <1>1, <1>2, <1>3

LEMMA MaxIs ==
  ASSUME NEW S \in SUBSET Int, NEW m \in S, \A y \in S : y <= m
  PROVE  Reports!Max(S) = m
<1>1. \A y \in S : m >= y
  OBVIOUS
<1>2. Reports!Max(S) \in S /\ \A y \in S : Reports!Max(S) >= y
  BY <1>1 DEF Reports!Max
<1>3. Reports!Max(S) \in Int /\ m \in Int /\ Reports!Max(S) <= m /\ m <= Reports!Max(S)
  BY <1>2
<1> QED BY <1>3

\* Remainders of what lies less than half the range ahead or behind.
LEMMA Remainders ==
  ASSUME NEW M \in Nat \ {0}, NEW a \in 0..M - 1, NEW b \in 0..M - 1
  PROVE  (a - b) % M = IF a >= b THEN a - b ELSE (a - b) + M
<1>1. CASE a >= b
  <2>1. a - b \in 0..M - 1
    BY <1>1
  <2> QED BY <1>1, <2>1, ModSmall
<1>2. CASE a < b
  <2>1. PICK d \in 0..M - 1 : d = (a - b) + M
    BY <1>2
  <2>2. Multiple(0 - M, M) /\ 0 - M \in Int
    <3>1. 0 - M = (0 - 1) * M /\ 0 - 1 \in Int /\ 0 - M \in Int
      OBVIOUS
    <3> QED BY <3>1 DEF Multiple
  <2>3. ((0 - M) + d) % M = d
    BY <2>2, ModUnique
  <2>4. (0 - M) + d = a - b
    BY <2>1
  <2> QED BY <1>2, <2>1, <2>3, <2>4
<1> QED BY <1>1, <1>2

LEMMA NoRemainder ==
  ASSUME NEW n \in Int, NEW M \in Nat \ {0}
  PROVE  n % M = 0 <=> Multiple(n, M)
<1>1. n % M = 0 => Multiple(n, M)
  <2>1. PICK w \in Int : Multiple(w, M) /\ n = w + (n % M)
    BY ModForm
  <2>2. n % M = 0 => n = w
    BY <2>1
  <2> QED BY <2>1, <2>2
<1>2. Multiple(n, M) => n % M = 0
  <2> SUFFICES ASSUME Multiple(n, M) PROVE n % M = 0
    OBVIOUS
  <2>1. 0 \in 0..M - 1 /\ n + 0 = n
    OBVIOUS
  <2>2. (n + 0) % M = 0
    BY <2>1, ModUnique
  <2> QED BY <2>1, <2>2
<1> QED BY <1>1, <1>2

\* An extended number is its cycles and its number.
LEMMA Cycles ==
  ASSUME NEW n \in Nat, NEW e \in Nat, NEW M \in Nat \ {0}, n % M = 0, n <= e, e < n + M
  PROVE  Multiple(n, M) /\ e % M \in 0..M - 1 /\ e = n + (e % M)
<1>1. n \in Int
  OBVIOUS
<1>2. Multiple(n, M)
  BY <1>1, NoRemainder
<1>3. PICK x \in 0..M - 1 : x = e - n
  OBVIOUS
<1>4. e = n + x
  BY <1>3
<1>5. (n + x) % M = x
  BY <1>1, <1>2, ModUnique
<1> QED BY <1>2, <1>4, <1>5

\* Numbers are as far apart as their packets.
Even(q, i, r, m, M) == (q - i) % M = (r - m) % M
Ahead(q, r, i, m, M) == (q - r) % M = i - m

LEMMA EvenIsAhead ==
  ASSUME NEW M \in Nat \ {0}, NEW q \in Int, NEW i \in Int, NEW r \in Int, NEW m \in Int,
         Even(q, i, r, m, M), i - m \in 0..M - 1
  PROVE  Ahead(q, r, i, m, M)
<1>1. PICK x \in Int, y \in Int, d \in 0..M - 1 : x = q - i /\ y = r - m /\ d = i - m
  OBVIOUS
<1>2. ((x % M) - (y % M)) % M = (x - y) % M
  BY ModAdd
<1>3. (x % M) - (y % M) = 0
  <2>1. x % M \in Int
    BY ModRange
  <2> QED BY <1>1, <2>1 DEF Even
<1>4. (x - y) % M = 0
  <2>1. 0 \in 0..M - 1
    OBVIOUS
  <2> QED BY <1>2, <1>3, <2>1, ModSmall
<1>5. x - y \in Int
  OBVIOUS
<1>6. Multiple(x - y, M)
  BY <1>4, <1>5, NoRemainder
<1>7. ((x - y) + d) % M = d
  BY <1>5, <1>6, ModUnique
<1>8. (x - y) + d = q - r
  BY <1>1
<1> QED BY <1>1, <1>7, <1>8 DEF Ahead

\* How Count extends a number, when the highest one is n + r.
Late(q, r, M) == ~(q >= r) /\ (q - r) % M >= (r - q) % M
CyclesAt(q, r, n, M) == IF q >= r \/ Late(q, r, M) THEN n ELSE n + M
HighestAt(q, r, n, M) == IF Late(q, r, M) THEN n + r ELSE CyclesAt(q, r, n, M) + q

\* A number q of packet i that is less than half the range from r, the number of packet m.
Near(q, r, i, m, M) == (m <= i /\ Ahead(q, r, i, m, M)) \/ q - r = i - m
Fits(q, r, n, i, m, M) ==
  /\ CyclesAt(q, r, n, M) % M = 0 /\ CyclesAt(q, r, n, M) \in Nat /\ HighestAt(q, r, n, M) \in Nat
  /\ CyclesAt(q, r, n, M) <= HighestAt(q, r, n, M) /\ HighestAt(q, r, n, M) < CyclesAt(q, r, n, M) + M
  /\ m <= i => HighestAt(q, r, n, M) = (n + r) + (i - m) /\ HighestAt(q, r, n, M) % M = q
  /\ i < m => HighestAt(q, r, n, M) = n + r

\* How a number is extended that is less than half the range from the highest one.
LEMMA NumberFits ==
  ASSUME NEW M \in Nat \ {0}, NEW N \in Nat, 2 * N < M, NEW q \in 0..M - 1, NEW i \in 1..N, NEW m \in 1..N,
         NEW n \in Nat, NEW r \in 0..M - 1, Multiple(n, M),
         Near(q, r, i, m, M)
  PROVE  Fits(q, r, n, i, m, M)
<1> DEFINE c == CyclesAt(q, r, n, M)
           t == HighestAt(q, r, n, M)
<1> HIDE DEF c, t
<1> SUFFICES /\ c % M = 0 /\ c \in Nat /\ t \in Nat /\ c <= t /\ t < c + M
             /\ m <= i => t = (n + r) + (i - m) /\ t % M = q
             /\ i < m => t = n + r
  BY DEF c, t, Fits
<1>0. (m <= i /\ (q - r) % M = i - m) \/ q - r = i - m
  BY DEF Near, Ahead
<1>1. (q - r) % M = IF q >= r THEN q - r ELSE (q - r) + M
  BY Remainders
<1>2. (r - q) % M = IF r >= q THEN r - q ELSE (r - q) + M
  BY Remainders
<1>3. n \in Int /\ n % M = 0
  BY NoRemainder
<1>4. (n + q) % M = q
  BY <1>3, ModUnique
<1>5. CASE q >= r
  <2>1. i - m = q - r
    BY <1>0, <1>1, <1>5
  <2>2. ~Late(q, r, M) /\ c = n /\ t = n + q
    <3>1. ~Late(q, r, M)
      BY <1>5 DEF Late
    <3> QED BY <1>5, <3>1 DEF CyclesAt, HighestAt, c, t
  <2> QED BY <1>3, <1>4, <1>5, <2>1, <2>2
<1>6. CASE q < r /\ m <= i
  <2>1. i - m = (q - r) + M
    BY <1>0, <1>1, <1>6
  <2>2. (q - r) + M < r - q
    BY <2>1
  <2>3. ~Late(q, r, M)
    BY <1>1, <1>2, <1>6, <2>2 DEF Late
  <2>4. c = n + M /\ t = (n + M) + q
    BY <1>6, <2>3 DEF CyclesAt, HighestAt, c, t
  <2>5. Multiple(M, M) /\ M \in Int
    <3>1. M = 1 * M
      OBVIOUS
    <3> QED BY <3>1 DEF Multiple
  <2>6. Multiple(n + M, M) /\ n + M \in Int
    BY <1>3, <2>5, Multiples
  <2>7. ((n + M) + q) % M = q
    BY <2>6, ModUnique
  <2>8. (n + M) % M = 0
    BY <2>6, NoRemainder
  <2>9. t % M = q /\ c % M = 0
    BY <2>4, <2>7, <2>8
  <2>10. c \in Nat /\ t \in Nat /\ c <= t /\ t < c + M /\ t = (n + r) + (i - m)
    BY <2>1, <2>4
  <2> QED BY <1>6, <2>9, <2>10
<1>7. CASE q < r /\ i < m
  <2>1. q - r = i - m
    BY <1>0, <1>7
  <2>2. (q - r) + M >= r - q
    BY <2>1
  <2>3. Late(q, r, M)
    BY <1>1, <1>2, <1>7, <2>2 DEF Late
  <2>4. c = n /\ t = n + r
    BY <2>3 DEF CyclesAt, HighestAt, c, t
  <2>5. ~(m <= i)
    BY <1>7
  <2> QED BY <1>3, <1>7, <2>4, <2>5
<1> QED BY <1>5, <1>6, <1>7

\* Packets of the stream that may come to an entry with stats s.
Follows(s, pack, w, n) ==
  /\ n \in Nat /\ 2 * n < SeqMod /\ pack.index \in 1..n
  /\ s.sentdata => Offset(w, pack.seqnr, pack.index) = Shown(w, s) /\ (w => Last(s) <= pack.index)

\* A number less than half the range from the highest one extends as its packet does.
LEMMA CountNumbers ==
  ASSUME NEW s \in Counts, NEW pack \in Pending, NEW w \in BOOLEAN, NEW N,
         s.sentdata, Counting(s, N), Follows(s, pack, w, N)
  PROVE  LET t == Reports!Count(s, pack)
         IN /\ t.numcycles % SeqMod = 0 /\ t.numcycles \in Nat /\ t.exthighseqnr \in Nat
            /\ t.numcycles <= t.exthighseqnr /\ t.exthighseqnr < t.numcycles + SeqMod
            /\ Last(s) <= pack.index =>
                 t.exthighseqnr = s.exthighseqnr + (pack.index - Last(s)) /\ t.exthighseqnr % SeqMod = pack.seqnr
            /\ pack.index < Last(s) => t.exthighseqnr = s.exthighseqnr
<1>1. PICK M, q, i, m, e, n, r :
        /\ M = SeqMod /\ q = pack.seqnr /\ i = pack.index /\ m = Last(s)
        /\ e = s.exthighseqnr /\ n = s.numcycles /\ r = e % M
  OBVIOUS
<1>2. M \in Nat \ {0} /\ N \in Nat /\ 2 * N < M
  BY <1>1, ReportConstants DEF Follows
<1>3. q \in 0..M - 1 /\ i \in 1..N
  BY <1>1 DEF Pending, Follows
<1>4. m \in 1..N
  BY <1>1, <1>2 DEF Counting, Counts
<1>5. e \in Nat /\ n \in Nat /\ n % M = 0 /\ n <= e /\ e < n + M
  BY <1>1 DEF Counting, Counts
<1>6. Multiple(n, M) /\ r \in 0..M - 1 /\ e = n + r
  <2>1. Multiple(n, M) /\ e % M \in 0..M - 1 /\ e = n + (e % M)
    BY <1>2, <1>5, Cycles, ZenonT(60)
  <2> QED BY <1>1, <2>1
<1>7. Near(q, r, i, m, M)
  <2>1. CASE w
    <3>1. (q - i) % M = (r - m) % M /\ m <= i
      BY <1>1, <2>1 DEF Offset, Follows, Shown
    <3>2. i - m \in 0..M - 1
      BY <1>2, <1>3, <1>4, <3>1
    <3>3. q \in Int /\ i \in Int /\ r \in Int /\ m \in Int
      BY <1>3, <1>4, <1>6
    <3>4. Ahead(q, r, i, m, M)
      <4>1. Even(q, i, r, m, M)
        BY <3>1 DEF Even
      <4>2. Ahead(q, r, i, m, M)
        BY <1>2, <3>2, <3>3, <4>1, EvenIsAhead
      <4> QED BY <4>2
    <3> QED BY <3>1, <3>4 DEF Near
  <2>2. CASE ~w
    <3>1. q - i = r - m
      BY <1>1, <2>2 DEF Offset, Follows, Shown
    <3> QED BY <1>3, <1>4, <1>6, <3>1 DEF Near
  <2> QED BY <2>1, <2>2
<1> DEFINE t == Reports!Count(s, pack)
<1>8. t.numcycles = CyclesAt(q, r, n, M) /\ t.exthighseqnr = HighestAt(q, r, n, M)
  <2>1. t.numcycles = CyclesAt(q, r, n, M) /\ t.exthighseqnr = IF Late(q, r, M) THEN e ELSE CyclesAt(q, r, n, M) + q
    BY <1>1 DEF Reports!Count, Reports!Behind, Counts, Late, CyclesAt
  <2> QED BY <1>6, <2>1 DEF HighestAt
<1>9. Fits(q, r, n, i, m, M)
  BY <1>2, <1>3, <1>4, <1>5, <1>6, <1>7, NumberFits
<1> HIDE DEF t
<1> QED BY <1>1, <1>6, <1>8, <1>9 DEF t, Fits

\* What processing a packet does to stats.
Right(s, t, pack, w, n) ==
  /\ t \in Counts /\ Counting(t, n) /\ t.packetsreceived <= s.packetsreceived + 1
  /\ t.sentdata => Shown(w, t) = Offset(w, pack.seqnr, pack.index) /\ (w => Last(t) = pack.index)

LEMMA CountTypes ==
  ASSUME NEW s \in Counts, NEW pack \in Pending
  PROVE  /\ Reports!Count(s, pack) \in Counts
         /\ Reports!Count(s, pack).numnewpackets > 0
<1>1. s.numcycles + SeqMod \in Nat /\ s.packetsreceived + 1 \in Nat /\ s.numnewpackets + 1 \in Nat /\ s.surplus + 1 \in Nat
  BY ReportConstants DEF Counts
<1>2. pack.seqnr \in Nat /\ s.heard \cup {pack.index} \in SUBSET Int
  BY DEF Pending, Counts
<1>3. s.numnewpackets + 1 > 0
  BY DEF Counts
<1> DEFINE t == Reports!Count(s, pack)
<1>4. PICK c \in Nat : c = t.numcycles
  BY <1>1 DEF Reports!Count, Counts
<1>5. c + pack.seqnr \in Nat
  BY <1>2
<1>6. t.exthighseqnr \in {s.exthighseqnr, c + pack.seqnr}
  BY <1>4 DEF Reports!Count, Counts
<1>7. t.exthighseqnr \in Nat
  BY <1>5, <1>6 DEF Counts
<1>8. t = [s EXCEPT !.packetsreceived = s.packetsreceived + 1, !.numnewpackets = s.numnewpackets + 1, !.fresh = TRUE,
             !.numcycles = t.numcycles, !.exthighseqnr = t.exthighseqnr, !.heard = t.heard, !.surplus = t.surplus]
  BY DEF Reports!Count, Counts
<1>9. t.heard \in SUBSET Int /\ t.surplus \in Nat
  BY <1>1, <1>2 DEF Reports!Count, Counts
<1> HIDE DEF t
<1>10. t \in Counts /\ t.numnewpackets = s.numnewpackets + 1
  BY <1>1, <1>4, <1>7, <1>8, <1>9 DEF Counts
<1> QED BY <1>3, <1>10 DEF t

LEMMA CountRight ==
  ASSUME NEW s \in Counts, NEW pack \in Pending, NEW w \in BOOLEAN, NEW N,
         s.sentdata, Counting(s, N), Follows(s, pack, w, N)
  PROVE  Right(s, Reports!Count(s, pack), pack, w, N)
<1>1. PICK t : t = Reports!Count(s, pack)
  OBVIOUS
<1>2. t \in Counts
  BY <1>1, CountTypes
<1>3. PICK i \in 1..N : i = pack.index
  BY DEF Follows
<1>4. PICK m \in Int : m = Last(s) /\ m \in s.heard /\ m <= N /\ s.heard \subseteq s.first..m /\ s.first \in 1..N
  BY DEF Counting, Counts
<1>5. N \in Nat
  BY DEF Follows
<1>6. /\ t.numcycles % SeqMod = 0 /\ t.numcycles <= t.exthighseqnr /\ t.exthighseqnr < t.numcycles + SeqMod
      /\ m <= i => t.exthighseqnr = s.exthighseqnr + (i - m) /\ t.exthighseqnr % SeqMod = pack.seqnr
      /\ i < m => t.exthighseqnr = s.exthighseqnr
  BY <1>1, <1>3, <1>4, CountNumbers
<1>7. /\ t.sentdata /\ t.packetsreceived = s.packetsreceived + 1 /\ t.first = s.first /\ t.baseseqnr = s.baseseqnr
      /\ IF i < s.first \/ i \in s.heard
         THEN t.heard = s.heard /\ t.surplus = s.surplus + 1
         ELSE t.heard = s.heard \cup {i} /\ t.surplus = s.surplus
  BY <1>1, <1>3 DEF Reports!Count, Counts
<1>8. PICK h \in Int : h = IF m <= i THEN i ELSE m
  OBVIOUS
<1>9. h \in t.heard /\ t.heard \subseteq s.first..h
  <2>1. CASE i < s.first \/ i \in s.heard
    <3>1. i <= m
      BY <1>4, <2>1
    <3>2. h = m
      BY <1>8, <3>1
    <3> QED BY <1>4, <1>7, <2>1, <3>2
  <2>2. CASE ~(i < s.first \/ i \in s.heard)
    <3>1. t.heard = s.heard \cup {i} /\ s.first <= i
      BY <1>4, <1>7, <2>2
    <3>2. m <= h /\ i <= h /\ h \in {i, m}
      BY <1>8
    <3>3. s.first..m \subseteq s.first..h /\ i \in s.first..h
      BY <1>4, <3>1, <3>2
    <3> QED BY <1>4, <3>1, <3>2, <3>3
  <2> QED BY <2>1, <2>2
<1>10. Last(t) = h
  <2>1. t.heard \in SUBSET Int /\ \A y \in t.heard : y <= h
    BY <1>2, <1>4, <1>9 DEF Counts
  <2> QED BY <1>9, <2>1, MaxIs DEF Last
<1>11. h <= N /\ s.first \in 1..N
  BY <1>4, <1>5, <1>8
<1>12. s.packetsreceived = Cardinality(s.heard) + s.surplus /\ IsFiniteSet(s.heard) /\ Cardinality(s.heard) \in Nat
  <2>1. s.first \in Int /\ s.heard \in SUBSET (s.first..m)
    BY <1>4
  <2>2. IsFiniteSet(s.first..m)
    BY <2>1, FS_Interval
  <2> QED BY <2>1, <2>2, FS_Subset, FS_CardinalityType DEF Counting
<1>13. t.packetsreceived = Cardinality(t.heard) + t.surplus
  <2>1. CASE i < s.first \/ i \in s.heard
    BY <1>7, <1>12, <2>1 DEF Counts
  <2>2. CASE ~(i < s.first \/ i \in s.heard)
    <3>1. Cardinality(s.heard \cup {i}) = Cardinality(s.heard) + 1
      BY <1>12, <2>2, FS_AddElement
    <3>2. t.heard = s.heard \cup {i} /\ t.surplus = s.surplus /\ t.packetsreceived = s.packetsreceived + 1
      BY <1>7, <2>2
    <3>3. Cardinality(t.heard) = Cardinality(s.heard) + 1 /\ s.surplus \in Nat
      BY <3>1, <3>2 DEF Counts
    <3> QED BY <1>12, <3>2, <3>3
  <2> QED BY <2>1, <2>2
<1>14. t.exthighseqnr - t.baseseqnr = h - t.first + 1
  <2>1. s.exthighseqnr - s.baseseqnr = m - s.first + 1
    BY <1>4 DEF Counting
  <2>2. s.exthighseqnr \in Int /\ s.baseseqnr \in Int /\ s.first \in Int
    BY DEF Counts
  <2> QED BY <1>6, <1>7, <1>8, <2>1, <2>2
<1>15. Counting(t, N)
  BY <1>6, <1>7, <1>9, <1>10, <1>11, <1>13, <1>14 DEF Counting
<1>16. Shown(w, t) = Offset(w, pack.seqnr, i)
  <2>1. CASE m <= i
    BY <1>6, <1>8, <1>10, <2>1 DEF Shown
  <2>2. CASE i < m
    <3>1. t.exthighseqnr = s.exthighseqnr /\ Last(t) = Last(s)
      BY <1>4, <1>6, <1>8, <1>10, <2>2
    <3>2. Shown(w, t) = Shown(w, s)
      BY <3>1 DEF Shown
    <3> QED BY <1>3, <3>2 DEF Follows
  <2> QED BY <2>1, <2>2
<1>17. w => Last(t) = i
  BY <1>3, <1>4, <1>8, <1>10 DEF Follows
<1>18. t.packetsreceived <= s.packetsreceived + 1
  BY <1>7 DEF Counts
<1> QED BY <1>1, <1>2, <1>3, <1>15, <1>16, <1>17, <1>18 DEF Right

LEMMA AcceptTypes ==
  ASSUME NEW u \in Counts, NEW pack \in Pending
  PROVE  Reports!Accept(u, pack) \in Counts /\ Reports!Accept(u, pack).numnewpackets > 0
<1>1. PICK c \in Nat : c = IF pack.seqnr = 0 THEN SeqMod ELSE 0
  BY ReportConstants
<1>2. PICK e \in Nat, b \in Int : e = (c + pack.seqnr - 1) + 1 /\ b = c + pack.seqnr - 1
  BY DEF Pending
<1>3. PICK n \in Nat, p \in Nat : n = u.numnewpackets + 1 /\ p = u.packetsreceived + 1 /\ n > 0
  BY DEF Counts
<1>4. PICK d \in Nat : d = IF pack.seqnr = 0 THEN SeqMod ELSE u.numcycles
  BY ReportConstants DEF Counts
<1>5. PICK H \in SUBSET Int, i \in Int : H = {pack.index} /\ i = pack.index
  BY DEF Pending
<1>6. Reports!Accept(u, pack) =
        [u EXCEPT !.sentdata = TRUE, !.fresh = TRUE, !.packetsreceived = p, !.numnewpackets = n,
                  !.numcycles = d, !.baseseqnr = b, !.savedextseqnr = b, !.exthighseqnr = e,
                  !.first = i, !.heard = H]
  BY <1>1, <1>2, <1>3, <1>4, <1>5 DEF Reports!Accept, Counts
<1>7. PICK y : y = [u EXCEPT !.sentdata = TRUE, !.fresh = TRUE, !.packetsreceived = p, !.numnewpackets = n]
  OBVIOUS
<1>8. y \in Counts /\ y.numnewpackets = n
  BY <1>7 DEF Counts
<1>9. PICK z : z = [y EXCEPT !.numcycles = d, !.baseseqnr = b, !.savedextseqnr = b]
  OBVIOUS
<1>10. z \in Counts /\ z.numnewpackets = n
  BY <1>8, <1>9 DEF Counts
<1>11. Reports!Accept(u, pack) = [z EXCEPT !.exthighseqnr = e, !.first = i, !.heard = H]
  BY <1>6, <1>7, <1>9
<1>12. Reports!Accept(u, pack) \in Counts /\ Reports!Accept(u, pack).numnewpackets = n
  BY <1>10, <1>11 DEF Counts
<1> QED BY <1>3, <1>12

LEMMA AcceptRight ==
  ASSUME NEW s \in Counts, NEW pack \in Pending, NEW w \in BOOLEAN, NEW N, NEW u \in Counts,
         ~s.sentdata, Counting(s, N), Follows(s, pack, w, N), Counting(u, N), ~u.sentdata,
         u.packetsreceived = s.packetsreceived, s.numnewpackets = u.numnewpackets
  PROVE  /\ Right(s, Reports!Accept(u, pack), pack, w, N)
         /\ Reports!Accept(u, pack).numnewpackets > 0
<1>1. PICK t : t = Reports!Accept(u, pack)
  OBVIOUS
<1>2. PICK M \in Nat, q \in Nat, c \in Nat :
        M = SeqMod /\ 0 < M /\ q = pack.seqnr /\ q < M /\ c = IF q = 0 THEN M ELSE 0
  BY ReportConstants DEF Pending
<1>3. PICK i \in Int : i = pack.index /\ i \in 1..N /\ N \in Nat
  BY DEF Follows
<1>4. u.packetsreceived = 0 /\ u.surplus = 0 /\ u.numcycles = 0
  BY DEF Counting
<1>5. t = [u EXCEPT !.sentdata = TRUE, !.fresh = TRUE, !.packetsreceived = 1, !.numnewpackets = u.numnewpackets + 1,
             !.numcycles = c, !.baseseqnr = c + q - 1, !.savedextseqnr = c + q - 1, !.exthighseqnr = c + q,
             !.first = i, !.heard = {i}]
  <2>1. u.packetsreceived + 1 = 1
    BY <1>4
  <2>2. (c + q - 1) + 1 = c + q
    OBVIOUS
  <2>3. (IF pack.seqnr = 0 THEN SeqMod ELSE u.numcycles) = c /\ (IF pack.seqnr = 0 THEN SeqMod ELSE 0) = c
    BY <1>2, <1>4
  <2> QED BY <1>1, <1>2, <1>3, <2>1, <2>2, <2>3 DEF Reports!Accept, Counts
<1>6. t \in Counts
  BY <1>1, AcceptTypes
<1>7. /\ t.sentdata /\ t.packetsreceived = 1 /\ t.numnewpackets = u.numnewpackets + 1 /\ t.numcycles = c
      /\ t.baseseqnr = c + q - 1 /\ t.exthighseqnr = c + q /\ t.first = i /\ t.heard = {i} /\ t.surplus = 0
  BY <1>4, <1>5 DEF Counts
<1>8. Last(t) = i
  BY <1>7, MaxIs DEF Last
<1>9. c % SeqMod = 0 /\ c <= c + q /\ c + q < c + SeqMod /\ (c + q) % SeqMod = q
  <2>1. 0 \in 0..M - 1 /\ 0 % M = 0 /\ q % M = q /\ M % M = 0 /\ M + 0 = M
    <3>1. 0 \in 0..M - 1 /\ q \in 0..M - 1
      BY <1>2
    <3>2. 0 % M = 0 /\ q % M = q
      BY <1>2, <3>1, ModSmall
    <3>3. Multiple(M, M) /\ M \in Int
      <4>1. M = 1 * M
        OBVIOUS
      <4> QED BY <4>1 DEF Multiple
    <3>4. M % M = 0
      BY <1>2, <3>3, NoRemainder
    <3> QED BY <3>1, <3>2, <3>4
  <2>2. CASE q = 0
    <3>1. c = M /\ c + q = M
      BY <1>2, <2>2
    <3> QED BY <1>2, <2>1, <2>2, <3>1
  <2>3. CASE q # 0
    <3>1. c = 0 /\ c + q = q
      BY <1>2, <2>3
    <3> QED BY <1>2, <2>1, <3>1
  <2> QED BY <2>2, <2>3
<1>10. Cardinality(t.heard) = 1
  BY <1>7, FS_Singleton
<1>11. (c + q) - (c + q - 1) = i - i + 1
  OBVIOUS
<1>12. {i} \subseteq i..i /\ i <= N
  BY <1>3
<1>13. Counting(t, N)
  BY <1>3, <1>7, <1>8, <1>9, <1>10, <1>11, <1>12 DEF Counting
<1>14. Shown(w, t) = Offset(w, pack.seqnr, pack.index)
  BY <1>2, <1>3, <1>7, <1>8, <1>9 DEF Shown
<1>15. t.packetsreceived <= s.packetsreceived + 1 /\ t.numnewpackets > 0
  BY <1>7 DEF Counts
<1> QED BY <1>1, <1>3, <1>6, <1>8, <1>13, <1>14, <1>15 DEF Right

LEMMA ProcessRight ==
  ASSUME NEW s \in Counts, Kept(s), NEW pack \in Pending, NEW w \in BOOLEAN, NEW N, NEW a \in BOOLEAN,
         Counting(s, N), Follows(s, pack, w, N)
  PROVE  /\ Right(s, Reports!ProcessPacket(s, pack, a), pack, w, N)
         /\ Kept(Reports!ProcessPacket(s, pack, a))
<1> DEFINE t == Reports!ProcessPacket(s, pack, a)
<1>1. CASE s.sentdata
  <2>1. t = Reports!Count(s, pack)
    BY <1>1 DEF Reports!ProcessPacket
  <2> QED BY <1>1, <2>1, CountRight, CountTypes DEF Kept
<1>2. CASE ~s.sentdata /\ ~a
  <2>1. t = Reports!Accept(s, pack)
    BY <1>2 DEF Reports!ProcessPacket
  <2>2. Right(s, Reports!Accept(s, pack), pack, w, N) /\ Reports!Accept(s, pack).numnewpackets > 0
    BY <1>2, AcceptRight
  <2> QED BY <2>1, <2>2 DEF Kept, Right
<1>3. CASE ~s.sentdata /\ a
  <2>1. t = Reports!OnProbation(s, pack)
    BY <1>3 DEF Reports!ProcessPacket
  <2>2. PICK left : left = (IF s.probation > 0 /\ Reports!Expected(s, pack) THEN s.probation - 1 ELSE RTPPROBATION)
    OBVIOUS
  <2>3. left \in Int
    BY <2>2, ReportAssumption DEF Reports!Constants, Counts
  <2>4. PICK u : u = [s EXCEPT !.probation = left, !.prevseqnr = pack.seqnr]
    OBVIOUS
  <2>5. t = IF left = 0 THEN Reports!Accept(u, pack) ELSE u
    BY <2>1, <2>2, <2>4 DEF Reports!OnProbation
  <2>6. pack.seqnr \in Int
    BY DEF Pending
  <2>7. /\ u \in Counts /\ ~u.sentdata /\ u.packetsreceived = s.packetsreceived /\ u.numnewpackets = s.numnewpackets
        /\ u.surplus = s.surplus /\ u.numcycles = s.numcycles /\ u.fresh = s.fresh
    BY <1>3, <2>3, <2>4, <2>6 DEF Counts
  <2>8. Counting(u, N)
    BY <1>3, <2>7 DEF Counting
  <2>9. Right(s, u, pack, w, N)
    BY <2>7, <2>8 DEF Right, Counts
  <2>10. Right(s, Reports!Accept(u, pack), pack, w, N) /\ Reports!Accept(u, pack).numnewpackets > 0
    BY <1>3, <2>7, <2>8, AcceptRight
  <2>11. CASE left = 0
    BY <2>5, <2>10, <2>11 DEF Kept, Right
  <2>12. CASE left # 0
    BY <2>5, <2>7, <2>9, <2>12 DEF Kept
  <2> QED BY <2>11, <2>12
<1> QED BY <1>1, <1>2, <1>3

\* Whatever the packet, the stats stay stats.
LEMMA ProcessKept ==
  ASSUME NEW s \in Counts, Kept(s), NEW pack \in Pending, NEW a \in BOOLEAN
  PROVE  Kept(Reports!ProcessPacket(s, pack, a))
<1> DEFINE t == Reports!ProcessPacket(s, pack, a)
<1>1. CASE s.sentdata
  BY <1>1, CountTypes DEF Reports!ProcessPacket, Kept
<1>2. CASE ~s.sentdata /\ ~a
  BY <1>2, AcceptTypes DEF Reports!ProcessPacket, Kept
<1>3. CASE ~s.sentdata /\ a
  <2>1. t = Reports!OnProbation(s, pack)
    BY <1>3 DEF Reports!ProcessPacket
  <2>2. PICK left \in Int : left = (IF s.probation > 0 /\ Reports!Expected(s, pack) THEN s.probation - 1 ELSE RTPPROBATION)
    BY ReportAssumption DEF Reports!Constants, Counts
  <2>3. PICK u : u = [s EXCEPT !.probation = left, !.prevseqnr = pack.seqnr]
    OBVIOUS
  <2>4. t = IF left = 0 THEN Reports!Accept(u, pack) ELSE u
    BY <2>1, <2>2, <2>3 DEF Reports!OnProbation
  <2>5. pack.seqnr \in Int
    BY DEF Pending
  <2>6. u \in Counts /\ u.numnewpackets = s.numnewpackets /\ u.fresh = s.fresh
    BY <2>3, <2>5 DEF Counts
  <2>7. Kept(u) /\ Kept(Reports!Accept(u, pack))
    BY <2>6, AcceptTypes DEF Kept
  <2> QED BY <2>4, <2>7
<1> QED BY <1>1, <1>2, <1>3
-----------------------------------------------------------------------------
(* Reports.                                                                *)

\* What was counted tells what is missing.
LEMMA LostIsTrue ==
  ASSUME NEW s \in Counts, NEW N \in Nat, s.sentdata, Counting(s, N), s.packetsreceived <= 2 * N, 4 * N < LostMod
  PROVE  Reports!GetLostPacketCount(Reports!ReportBlock(s)) = Reports!ReportBlock(s).truth
<1>1. PICK L \in Nat \ {0} : L = LostMod
  BY ReportConstants
<1>2. PICK m \in Int, f \in 1..N : m = Last(s) /\ f = s.first /\ m <= N /\ s.heard \subseteq f..m /\ m \in s.heard
  BY DEF Counting, Counts
<1>3. PICK h \in Nat, u \in Nat, v \in Int :
        /\ h = Cardinality(s.heard) /\ u = s.surplus /\ s.packetsreceived = h + u
        /\ s.exthighseqnr - s.baseseqnr = m - f + 1
        /\ v = (m - f + 1) - (h + u)
        /\ IsFiniteSet(s.heard)
  <2>1. f \in Int /\ s.heard \in SUBSET (f..m)
    BY <1>2
  <2>2. IsFiniteSet(f..m)
    BY <2>1, FS_Interval
  <2>3. IsFiniteSet(s.heard) /\ Cardinality(s.heard) \in Nat
    BY <2>1, <2>2, FS_Subset, FS_CardinalityType
  <2>4. s.packetsreceived = Cardinality(s.heard) + s.surplus /\ s.surplus \in Nat
        /\ s.exthighseqnr - s.baseseqnr = m - f + 1
    BY <1>2 DEF Counting, Counts
  <2>5. (m - f + 1) - (Cardinality(s.heard) + s.surplus) \in Int
    BY <2>3, <2>4
  <2> QED BY <2>3, <2>4, <2>5
<1>4. Reports!ReallyLost(s) = v
  <2>1. f \in Int /\ m \in Int /\ f <= m
    BY <1>2
  <2>2. IsFiniteSet(f..m) /\ Cardinality(f..m) = m - f + 1
    <3>1. IsFiniteSet(f..m) /\ Cardinality(f..m) = IF f > m THEN 0 ELSE m - f + 1
      BY <2>1, FS_Interval, Zenon
    <3> QED BY <2>1, <3>1
  <2>3. (f..m) \cap s.heard = s.heard
    BY <1>2
  <2>4. Cardinality((f..m) \ s.heard) = Cardinality(f..m) - Cardinality(s.heard)
    <3>1. Cardinality((f..m) \ s.heard) = Cardinality(f..m) - Cardinality((f..m) \cap s.heard)
      BY <2>2, FS_Difference, Zenon
    <3> QED BY <2>3, <3>1
  <2>5. Reports!ReallyLost(s) = Reports!Cardinality((f..m) \ s.heard) - u
    BY <1>2, <1>3 DEF Reports!ReallyLost, Last
  <2>6. Reports!Cardinality((f..m) \ s.heard) = Cardinality((f..m) \ s.heard)
    BY DEF Reports!Cardinality, Cardinality
  <2> QED BY <1>3, <2>2, <2>4, <2>5, <2>6
<1>5. v <= N /\ 0 - 2 * N <= v
  <2>1. h + u <= 2 * N
    BY <1>3
  <2>2. m - f + 1 >= 0 /\ m - f + 1 <= N
    BY <1>2
  <2> QED BY <1>3, <2>1, <2>2
<1>6. v % L = IF v >= 0 THEN v ELSE v + L
  <2>1. 4 * N < L
    BY <1>1
  <2>2. CASE v >= 0
    <3>1. v \in 0..L - 1
      BY <1>5, <2>1, <2>2
    <3> QED BY <2>2, <3>1, ModSmall
  <2>3. CASE v < 0
    <3>1. 0 \in 0..L - 1 /\ 0 - v \in 0..L - 1 /\ 0 - (0 - v) = v /\ ~(0 >= 0 - v)
      BY <1>5, <2>1, <2>3
    <3>2. (0 - (0 - v)) % L = IF 0 >= 0 - v THEN 0 - (0 - v) ELSE (0 - (0 - v)) + L
      BY <3>1, Remainders
    <3> QED BY <2>3, <3>1, <3>2
  <2> QED BY <2>2, <2>3
<1>7. /\ Reports!ReportBlock(s).truth = v
      /\ Reports!ReportBlock(s).packetslost = v % L
  <2>1. (s.exthighseqnr - s.baseseqnr) - s.packetsreceived = v
    BY <1>3
  <2> QED BY <1>1, <1>4, <2>1 DEF Reports!ReportBlock
<1>8. PICK x \in Int : x = Reports!ReportBlock(s).packetslost /\ x = IF v >= 0 THEN v ELSE v + L
  BY <1>6, <1>7
<1>9. Reports!GetLostPacketCount(Reports!ReportBlock(s)) = IF 2 * x >= L THEN x - L ELSE x
  BY <1>1, <1>8 DEF Reports!GetLostPacketCount
<1>10. (IF 2 * x >= L THEN x - L ELSE x) = v
  <2>1. 4 * N < L
    BY <1>1
  <2>2. CASE v >= 0
    BY <1>5, <1>8, <2>1, <2>2
  <2>3. CASE v < 0
    BY <1>5, <1>8, <2>1, <2>3
  <2> QED BY <2>2, <2>3
<1> QED BY <1>7, <1>9, <1>10

\* A fraction of a positive number of packets fits into eight bits.
LEMMA EightBits ==
  ASSUME NEW e \in Int, NEW n \in Nat \ {0}
  PROVE  Reports!Fraction(e, n) \in 0..255
<1>1. CASE e < n
  BY <1>1 DEF Reports!Fraction
<1>2. CASE e >= n
  <2>1. e \in Nat \ {0}
    BY <1>2
  <2>2. PICK d \in Nat : d = e - n /\ d < e
    BY <1>2
  <2>3. PICK k \in Int : k = (d * 256) \div e
    BY <2>1
  <2>4. PICK a \in Nat, r \in Int : a = d * 256 /\ r = a % e
    BY <2>1
  <2>5. r \in 0..e - 1 /\ a = k * e + r
    BY <2>1, <2>3, <2>4
  <2>6. a < 256 * e
    BY <2>1, <2>2, <2>4
  <2>7. k >= 0
    <3>1. k < 0 => k * e <= 0 - e
      BY <2>1
    <3> QED BY <2>4, <2>5, <3>1
  <2>8. k <= 255
    <3>1. k >= 256 => k * e >= 256 * e
      BY <2>1
    <3> QED BY <2>4, <2>5, <2>6, <3>1
  <2>9. Reports!Fraction(e, n) = k
    BY <1>2, <2>1, <2>2, <2>3 DEF Reports!Fraction
  <2> QED BY <2>7, <2>8, <2>9
<1> QED BY <1>1, <1>2
-----------------------------------------------------------------------------
(* Packets under way.                                                      *)

LEMMA CopiesCount ==
  ASSUME NEW S, IsFiniteSet(S)
  PROVE  /\ IsFiniteSet(Way(S)) /\ IsFiniteSet(Again(S))
         /\ Cardinality(Way(S)) \in Nat /\ Cardinality(Again(S)) \in Nat /\ Copies(S) \in Nat
<1>1. Way(S) \in SUBSET S /\ Again(S) \in SUBSET S
  BY DEF Way, Again
<1>2. IsFiniteSet(Way(S)) /\ IsFiniteSet(Again(S))
  BY <1>1, FS_Subset
<1>3. Cardinality(Way(S)) \in Nat /\ Cardinality(Again(S)) \in Nat
  BY <1>2, FS_CardinalityType
<1> QED BY <1>2, <1>3 DEF Copies

\* A packet arrives: it may come once more, those in G are lost.
Arrived(S, pack, G) ==
  (S \ ({pack} \cup G)) \cup (IF pack.more THEN {[pack EXCEPT !.more = FALSE]} ELSE {})

LEMMA CopiesGo ==
  ASSUME NEW S \in SUBSET Pending, IsFiniteSet(S), NEW pack \in S, NEW G \in SUBSET S,
         \A g \in G : g.to = pack.to
  PROVE  LET T == Arrived(S, pack, G)
         IN /\ T \subseteq Pending /\ IsFiniteSet(T)
            /\ pack.to = "receiver" => Copies(T) + 1 <= Copies(S)
            /\ pack.to = "sender" => Way(T) = Way(S)
            /\ \A q \in Way(T) : \E r \in Way(S) : r.ssrc = q.ssrc /\ r.seqnr = q.seqnr /\ r.index = q.index
<1>1. PICK p2 : p2 = [pack EXCEPT !.more = FALSE]
  OBVIOUS
<1>2. p2 \in Pending /\ p2.to = pack.to /\ p2.ssrc = pack.ssrc /\ p2.seqnr = pack.seqnr /\ p2.index = pack.index /\ p2.more = FALSE
  BY <1>1 DEF Pending
<1>3. PICK T : T = Arrived(S, pack, G)
  OBVIOUS
<1>4. T \subseteq (S \ {pack}) \cup {p2} /\ (~pack.more => T \subseteq S \ {pack})
  BY <1>1, <1>3 DEF Arrived
<1>5. IsFiniteSet((S \ {pack}) \cup {p2})
  BY FS_RemoveElement, FS_AddElement
<1>6. IsFiniteSet(T) /\ T \subseteq Pending
  <2>1. T \in SUBSET ((S \ {pack}) \cup {p2})
    BY <1>4
  <2>2. IsFiniteSet(T)
    BY <1>5, <2>1, FS_Subset
  <2> QED BY <1>2, <1>4, <2>2
<1>7. pack.to = "receiver" => Copies(T) + 1 <= Copies(S)
  <2> SUFFICES ASSUME pack.to = "receiver" PROVE Copies(T) + 1 <= Copies(S)
    OBVIOUS
  <2>1. PICK a \in Nat, b \in Nat, c \in Nat, d \in Nat :
          a = Cardinality(Way(S)) /\ b = Cardinality(Again(S)) /\ c = Cardinality(Way(T)) /\ d = Cardinality(Again(T))
          /\ Copies(S) = a + b /\ Copies(T) = c + d
    BY <1>6, CopiesCount DEF Copies
  <2>2. IsFiniteSet(Way(S)) /\ IsFiniteSet(Again(S)) /\ pack \in Way(S)
    BY CopiesCount DEF Way
  <2>3. IsFiniteSet(Way(S) \ {pack}) /\ Cardinality(Way(S) \ {pack}) = a - 1
    BY <2>1, <2>2, FS_RemoveElement
  <2>4. CASE pack.more
    <3>1. Again(T) \in SUBSET (Again(S) \ {pack}) /\ pack \in Again(S)
      BY <1>2, <1>4, <2>2, <2>4 DEF Way, Again
    <3>2. IsFiniteSet(Again(S) \ {pack}) /\ Cardinality(Again(S) \ {pack}) = b - 1
      BY <2>1, <2>2, <3>1, FS_RemoveElement
    <3>3. Cardinality(Again(T)) <= Cardinality(Again(S) \ {pack})
      BY <3>1, <3>2, FS_Subset
    <3>4. d <= b - 1
      BY <2>1, <3>2, <3>3
    <3>5. Way(T) \in SUBSET ((Way(S) \ {pack}) \cup {p2})
      BY <1>4 DEF Way
    <3>6. /\ IsFiniteSet((Way(S) \ {pack}) \cup {p2})
          /\ Cardinality((Way(S) \ {pack}) \cup {p2}) =
               IF p2 \in Way(S) \ {pack} THEN Cardinality(Way(S) \ {pack}) ELSE Cardinality(Way(S) \ {pack}) + 1
      BY <2>3, FS_AddElement, Zenon
    <3>7. Cardinality((Way(S) \ {pack}) \cup {p2}) <= a /\ Cardinality((Way(S) \ {pack}) \cup {p2}) \in Int
      BY <2>3, <3>6
    <3>8. Cardinality(Way(T)) <= Cardinality((Way(S) \ {pack}) \cup {p2})
      BY <3>5, <3>6, FS_Subset
    <3>9. c <= a
      BY <2>1, <3>7, <3>8
    <3> QED BY <2>1, <3>4, <3>9
  <2>5. CASE ~pack.more
    <3>1. Way(T) \in SUBSET (Way(S) \ {pack}) /\ Again(T) \in SUBSET Again(S)
      BY <1>4, <2>5 DEF Way, Again
    <3>2. Cardinality(Way(T)) <= Cardinality(Way(S) \ {pack}) /\ Cardinality(Again(T)) <= Cardinality(Again(S))
      BY <2>2, <2>3, <3>1, FS_Subset
    <3> QED BY <2>1, <2>3, <3>2
  <2> QED BY <2>4, <2>5
<1>8. pack.to = "sender" => Way(T) = Way(S)
  <2> SUFFICES ASSUME pack.to = "sender" PROVE Way(T) = Way(S)
    OBVIOUS
  <2>1. Way(T) \subseteq Way(S)
    BY <1>2, <1>4 DEF Way
  <2>2. Way(S) \subseteq Way(T)
    BY <1>3 DEF Way, Arrived
  <2> QED BY <2>1, <2>2
<1>9. \A q \in Way(T) : \E r \in Way(S) : r.ssrc = q.ssrc /\ r.seqnr = q.seqnr /\ r.index = q.index
  <2> SUFFICES ASSUME NEW q \in Way(T) PROVE \E r \in Way(S) : r.ssrc = q.ssrc /\ r.seqnr = q.seqnr /\ r.index = q.index
    OBVIOUS
  <2>1. CASE q \in S
    BY <2>1 DEF Way
  <2>2. CASE q = p2
    <3>1. pack \in Way(S)
      BY <1>2, <2>2 DEF Way
    <3> QED BY <1>2, <2>2, <3>1
  <2> QED BY <1>4, <2>1, <2>2 DEF Way
<1> QED BY <1>3, <1>6, <1>7, <1>8, <1>9
-----------------------------------------------------------------------------
LEMMA NewIsKept ==
  /\ Kept(Reports!NewStats) /\ Member(Reports!NewEntry) /\ Member(Reports!OwnEntry)
  /\ Reports!NewEntry.stats = Reports!NewStats /\ Reports!OwnEntry.stats = Reports!NewStats
  /\ Reports!NewEntry.RRinf = Reports!NoReport /\ Reports!OwnEntry.RRinf = Reports!NoReport
  /\ Reports!NoReport.packetslost = Reports!NoReport.truth
  /\ ~Reports!NewStats.sentdata /\ Reports!NewStats.packetsreceived = 0
  /\ \A n : Counting(Reports!NewStats, n)
<1>1. Reports!NewStats \in Counts
  BY DEF Reports!NewStats, Counts
<1>2. ~Reports!NewStats.sentdata /\ Reports!NewStats.packetsreceived = 0 /\ ~Reports!NewStats.fresh
  BY DEF Reports!NewStats
<1>3. \A n : Counting(Reports!NewStats, n)
  BY DEF Reports!NewStats, Counting
<1>4. Kept(Reports!NewStats)
  BY <1>1, <1>2 DEF Kept
<1> HIDE DEF Reports!NewStats
<1> DEFINE entries == [ownssrc : BOOLEAN, validated : BOOLEAN, receivedbye : BOOLEAN,
                       stats : {Reports!NewStats}, RRinf : {Reports!NoReport}]
<1>5. Reports!NewEntry \in entries
  BY DEF Reports!NewEntry
<1>6. Reports!OwnEntry \in entries
  <2> HIDE DEF Reports!NewEntry
  <2> QED BY <1>5 DEF Reports!OwnEntry
<1>7. ASSUME NEW e \in entries
      PROVE  Member(e) /\ e.stats = Reports!NewStats /\ e.RRinf = Reports!NoReport
  <2>1. Reports!NewStats \in Counts
    BY <1>4 DEF Kept
  <2> QED BY <1>4, <2>1 DEF Member
<1>8. Reports!NoReport.packetslost = Reports!NoReport.truth
  BY DEF Reports!NoReport
<1> HIDE DEF entries
<1> QED BY <1>2, <1>3, <1>4, <1>5, <1>6, <1>7, <1>8

\* The counters of stats that the numbers rest on.
Same(s, t) ==
  /\ t.sentdata = s.sentdata /\ t.numcycles = s.numcycles /\ t.exthighseqnr = s.exthighseqnr
  /\ t.baseseqnr = s.baseseqnr /\ t.packetsreceived = s.packetsreceived
  /\ t.first = s.first /\ t.heard = s.heard /\ t.surplus = s.surplus

LEMMA SameCounts ==
  ASSUME NEW s, NEW t, Same(s, t)
  PROVE  /\ Last(t) = Last(s) /\ \A w : Shown(w, t) = Shown(w, s)
         /\ \A n : Counting(s, n) => Counting(t, n)
<1>1. Last(t) = Last(s)
  BY DEF Same, Last
<1> QED BY <1>1 DEF Same, Shown, Counting

\* Packets leave the network.
Shrinks ==
  /\ rtp' \subseteq Pending /\ IsFiniteSet(rtp') /\ ToCome' \in Nat /\ ToCome' <= ToCome
  /\ \A q \in OnTheWay' : \E r \in OnTheWay : r.ssrc = q.ssrc /\ r.seqnr = q.seqnr /\ r.index = q.index

LEMMA ShrinksNot == ASSUME Drawn, UNCHANGED rtp PROVE Shrinks
<1>1. ToCome' = ToCome /\ OnTheWay' = OnTheWay
  BY DEF ToCome, OnTheWay
<1>2. ToCome \in Nat
  BY CopiesCount DEF ToCome, Drawn
<1> QED BY <1>1, <1>2 DEF Shrinks, Drawn

\* The receiver's entries keep what they have counted, or are new.
EntriesKept ==
  \A x \in DOMAIN table'["receiver"] :
    \/ x \in DOMAIN table["receiver"] /\ Same(table["receiver"][x].stats, table'["receiver"][x].stats)
    \/ table'["receiver"][x].stats = Reports!NewStats

LEMMA AcceptedBefore ==
  ASSUME EntriesKept, NEW x, Accepted(x)'
  PROVE  Accepted(x) /\ Same(table["receiver"][x].stats, table'["receiver"][x].stats)
  BY NewIsKept DEF EntriesKept, Accepted, MembersOf, Same

LEMMA DeliveredKept ==
  ASSUME Drawn, Delivered, Shrinks, EntriesKept, count' = count
  PROVE  Delivered'
<1>1. ToCome' \in Nat /\ ToCome' <= ToCome /\ ToCome <= 2 * count /\ count \in Nat /\ ToCome \in Nat
  BY CopiesCount DEF Shrinks, Delivered, Drawn, ToCome
<1>2. ToCome' <= 2 * count'
  BY <1>1
<1>3. ASSUME NEW x \in MembersOf("receiver")'
      PROVE  /\ Counting(table'["receiver"][x].stats, count')
             /\ table'["receiver"][x].stats.packetsreceived + ToCome' <= 2 * count'
  <2>1. CASE table'["receiver"][x].stats = Reports!NewStats
    <3>1. Counting(Reports!NewStats, count') /\ Reports!NewStats.packetsreceived = 0
      BY NewIsKept
    <3> QED BY <1>1, <2>1, <3>1
  <2>2. CASE x \in DOMAIN table["receiver"] /\ Same(table["receiver"][x].stats, table'["receiver"][x].stats)
    <3>1. Counting(table["receiver"][x].stats, count) /\ table["receiver"][x].stats.packetsreceived + ToCome <= 2 * count
      BY <2>2 DEF Delivered, MembersOf
    <3>2. table["receiver"][x].stats.packetsreceived \in Nat
      BY <2>2 DEF Drawn, MembersOf, Member, Kept, Counts, Hosts
    <3>3. Counting(table'["receiver"][x].stats, count')
      BY <2>2, <3>1, SameCounts
    <3>4. table'["receiver"][x].stats.packetsreceived = table["receiver"][x].stats.packetsreceived
      BY <2>2 DEF Same
    <3> QED BY <1>1, <3>1, <3>2, <3>3, <3>4
  <2> QED BY <1>3, <2>1, <2>2 DEF EntriesKept, MembersOf
<1> QED BY <1>2, <1>3 DEF Delivered

LEMMA NumberedKept ==
  ASSUME Drawn, Numbered, Shrinks, EntriesKept, UNCHANGED <<session, drawn, ssrc, seqnr, count>>
  PROVE  Numbered'
<1>1. ASSUME NEW x \in 0..drawn', NEW o \in Int, NumberedFrom(x, o)
      PROVE  NumberedFrom(x, o)'
  <2>1. ASSUME NEW q \in OnTheWay', q.ssrc = x
        PROVE  Offset(session'.wraps, q.seqnr, q.index) = o
    BY <1>1, <2>1 DEF Shrinks, NumberedFrom
  <2>2. ssrc'["sender"] = x => Offset(session'.wraps, seqnr', count' + 1) = o
    BY <1>1 DEF NumberedFrom
  <2>3. Accepted(x)' => Shown(session'.wraps, table'["receiver"][x].stats) = o
    BY <1>1, AcceptedBefore, SameCounts DEF NumberedFrom
  <2> QED BY <2>1, <2>2, <2>3 DEF NumberedFrom
<1>2. \A x \in 0..drawn' : \E o \in Int : NumberedFrom(x, o)'
  BY <1>1 DEF Numbered
<1>3. \A q \in OnTheWay' : q.ssrc \in 0..drawn' /\ q.index \in 1..count'
  BY DEF Shrinks, Numbered
<1>4. \A x \in MembersOf("receiver")' : Accepted(x)' => x \in 0..drawn'
  BY AcceptedBefore DEF Numbered, Accepted
<1>5. ASSUME session'.wraps, NEW q \in OnTheWay', Accepted(q.ssrc)'
      PROVE  Last(table'["receiver"][q.ssrc].stats) <= q.index
  <2>1. PICK r \in OnTheWay : r.ssrc = q.ssrc /\ r.index = q.index
    BY DEF Shrinks
  <2>2. Accepted(q.ssrc) /\ Same(table["receiver"][q.ssrc].stats, table'["receiver"][q.ssrc].stats)
    BY <1>5, AcceptedBefore
  <2> QED BY <1>5, <2>1, <2>2, SameCounts DEF Numbered
<1> QED BY <1>2, <1>3, <1>4, <1>5 DEF Numbered
-----------------------------------------------------------------------------
(* Steps.                                                                  *)

LEMMA TableWithout ==
  ASSUME NEW f, NEW x
  PROVE  /\ DOMAIN Reports!Without(f, x) = DOMAIN f \ {x}
         /\ \A y \in DOMAIN f \ {x} : Reports!Without(f, x)[y] = f[y]
  BY DEF Reports!Without

\* The reports that the sender keeps.
LostKept ==
  \A x \in DOMAIN table'["sender"] :
    \/ x \in DOMAIN table["sender"] /\ table'["sender"][x].RRinf = table["sender"][x].RRinf
    \/ table'["sender"][x].RRinf.packetslost = table'["sender"][x].RRinf.truth

LEMMA LossKept == ASSUME Reports!LossIsTrue, LostKept PROVE Reports!LossIsTrue'
  BY DEF LostKept, Reports!LossIsTrue

\* An entry of p is put into its table, where x was perhaps taken out.
LEMMA TableStep ==
  ASSUME Drawn, NEW p \in Hosts, NEW F, table' = [table EXCEPT ![p] = F],
         \A y \in DOMAIN F : Member(F[y])
  PROVE  /\ DOMAIN table' = Hosts /\ table'[p] = F /\ \A q \in Hosts : q # p => table'[q] = table[q]
         /\ \A q \in Hosts : \A y \in MembersOf(q)' : Member(table'[q][y])
<1>1. DOMAIN table' = Hosts /\ table'[p] = F /\ \A q \in Hosts : q # p => table'[q] = table[q]
  BY DEF Drawn
<1>2. ASSUME NEW q \in Hosts, NEW y \in MembersOf(q)'
      PROVE  Member(table'[q][y])
  <2>1. CASE q = p
    BY <1>1, <1>2, <2>1 DEF MembersOf
  <2>2. CASE q # p
    BY <1>1, <1>2, <2>2 DEF MembersOf, Drawn
  <2> QED BY <2>1, <2>2
<1> QED BY <1>1, <1>2

LEMMA SameIsSame == \A s : Same(s, s)
  BY DEF Same

LEMMA CollisionStep ==
  ASSUME Drawn, Numbered, Delivered, NEW p \in Hosts, Reports!OwnCollision(p),
         Shrinks, UNCHANGED <<session, count>>, DOMAIN rtcp' = Hosts
  PROVE  Drawn' /\ Numbered' /\ Delivered' /\ LostKept
<1>1. CASE Reports!Changes(p)
  <2>1. /\ drawn' = drawn + 1 /\ ssrc' = [ssrc EXCEPT ![p] = drawn']
        /\ table' = [table EXCEPT ![p] = Reports!Put(Reports!Without(table[p], ssrc[p]), drawn', Reports!OwnEntry)]
        /\ seqnr' = IF p = "sender" THEN (IF session.wraps THEN SeqMod - 1 ELSE 0) ELSE seqnr
    BY <1>1 DEF Reports!OwnCollision, Drawn
  <2>2. PICK F : F = Reports!Put(Reports!Without(table[p], ssrc[p]), drawn', Reports!OwnEntry)
    OBVIOUS
  <2>3. \A y \in DOMAIN F : F[y] = Reports!OwnEntry \/ (y \in DOMAIN table[p] /\ F[y] = table[p][y])
    <3>1. PICK G : G = Reports!Without(table[p], ssrc[p])
      OBVIOUS
    <3>2. DOMAIN G = DOMAIN table[p] \ {ssrc[p]} /\ \A y \in DOMAIN G : G[y] = table[p][y]
      BY <3>1, TableWithout
    <3>3. PICK d : d = drawn' /\ F = Reports!Put(G, d, Reports!OwnEntry)
      BY <2>2, <3>1
    <3>4. /\ DOMAIN F = DOMAIN G \cup {d} /\ F[d] = Reports!OwnEntry
          /\ \A y \in DOMAIN G : y # d => F[y] = G[y]
      BY <3>3 DEF Reports!Put
    <3> QED BY <3>2, <3>4
  <2>4. \A y \in DOMAIN F : Member(F[y])
    BY <2>3, NewIsKept DEF Drawn, MembersOf
  <2>5. /\ DOMAIN table' = Hosts /\ table'[p] = F /\ \A q \in Hosts : q # p => table'[q] = table[q]
        /\ \A q \in Hosts : \A y \in MembersOf(q)' : Member(table'[q][y])
    BY <2>1, <2>2, <2>4, TableStep
  <2>6. EntriesKept
    <3>1. CASE p = "receiver"
      BY <2>3, <2>5, <3>1, NewIsKept, SameIsSame DEF EntriesKept
    <3>2. CASE p # "receiver"
      <4>1. table'["receiver"] = table["receiver"]
        BY <2>5, <3>2 DEF Hosts
      <4> QED BY <4>1, SameIsSame DEF EntriesKept
    <3> QED BY <3>1, <3>2
  <2>7. LostKept
    <3>1. CASE p = "sender"
      BY <2>3, <2>5, <3>1, NewIsKept DEF LostKept
    <3>2. CASE p # "sender"
      <4>1. table'["sender"] = table["sender"]
        BY <2>5, <3>2 DEF Hosts
      <4> QED BY <4>1 DEF LostKept
    <3> QED BY <3>1, <3>2
  <2>8. seqnr' \in 0..SeqMod - 1
    BY <2>1, DrawnBounds DEF Drawn
  <2>9. drawn' \in Nat /\ ssrc' \in [Hosts -> Nat] /\ \A q \in Hosts : ssrc'[q] <= drawn'
    <3>1. drawn \in Nat /\ drawn' \in Nat /\ drawn' = drawn + 1
      BY <2>1 DEF Drawn
    <3>2. ssrc' \in [Hosts -> Nat] /\ \A q \in Hosts : ssrc'[q] \in {drawn', ssrc[q]}
      BY <2>1, <3>1 DEF Drawn
    <3>3. \A q \in Hosts : ssrc[q] \in Nat /\ ssrc[q] <= drawn
      BY DEF Drawn
    <3>4. ASSUME NEW q \in Hosts PROVE ssrc'[q] <= drawn'
      BY <3>1, <3>2, <3>3
    <3> QED BY <3>1, <3>2, <3>4
  <2>10. Drawn'
    BY <2>5, <2>8, <2>9 DEF Drawn, Shrinks
  <2>11. Delivered'
    BY <2>6, DeliveredKept
  <2>12. ASSUME NEW x \in 0..drawn'
         PROVE  \E o \in Int : NumberedFrom(x, o)'
    <3>1. ssrc'["sender"] = drawn + 1 \/ (ssrc'["sender"] = ssrc["sender"] /\ seqnr' = seqnr)
      BY <2>1 DEF Drawn, Hosts
    <3>2. drawn \in Nat /\ drawn' = drawn + 1
      BY <2>1 DEF Drawn
    <3>3. CASE x = drawn + 1
      <4>1. \A q \in OnTheWay' : q.ssrc # x
        BY <3>2, <3>3 DEF Shrinks, Numbered
      <4>2. ~Accepted(x)'
        <5> SUFFICES ASSUME Accepted(x)' PROVE FALSE
          OBVIOUS
        <5>1. Accepted(x)
          BY <2>6, AcceptedBefore
        <5>2. x \in 0..drawn
          BY <5>1 DEF Numbered, Accepted
        <5> QED BY <3>2, <3>3, <5>2
      <4>3. Offset(session'.wraps, seqnr', count' + 1) \in Int
        <5>1. seqnr' - (count' + 1) \in Int
          BY <2>8 DEF Drawn
        <5> QED BY <5>1, DrawnBounds, ModRange DEF Offset
      <4> QED BY <4>1, <4>2, <4>3 DEF NumberedFrom
    <3>4. CASE x # drawn + 1
      <4>1. x \in 0..drawn
        BY <2>12, <3>2, <3>4
      <4>2. PICK o \in Int : NumberedFrom(x, o)
        BY <4>1 DEF Numbered
      <4>3. \A q \in OnTheWay' : q.ssrc = x => Offset(session'.wraps, q.seqnr, q.index) = o
        BY <4>2 DEF Shrinks, NumberedFrom
      <4>4. ssrc'["sender"] = x => Offset(session'.wraps, seqnr', count' + 1) = o
        BY <3>1, <3>4, <4>2 DEF NumberedFrom
      <4>5. Accepted(x)' => Shown(session'.wraps, table'["receiver"][x].stats) = o
        BY <2>6, <4>2, AcceptedBefore, SameCounts DEF NumberedFrom
      <4> QED BY <4>3, <4>4, <4>5 DEF NumberedFrom
    <3> QED BY <3>3, <3>4
  <2>13. \A q \in OnTheWay' : q.ssrc \in 0..drawn' /\ q.index \in 1..count'
    <3>1. 0..drawn \subseteq 0..drawn'
      BY <2>1 DEF Drawn
    <3> QED BY <3>1 DEF Shrinks, Numbered
  <2>14. \A x \in MembersOf("receiver")' : Accepted(x)' => x \in 0..drawn'
    <3>1. 0..drawn \subseteq 0..drawn'
      BY <2>1 DEF Drawn
    <3> QED BY <2>6, <3>1, AcceptedBefore DEF Numbered, Accepted
  <2>15. ~session'.wraps => seqnr' <= count'
    BY <2>1 DEF Numbered, Drawn
  <2>16. ASSUME session'.wraps, NEW q \in OnTheWay', Accepted(q.ssrc)'
         PROVE  Last(table'["receiver"][q.ssrc].stats) <= q.index
    <3>1. PICK r \in OnTheWay : r.ssrc = q.ssrc /\ r.index = q.index
      BY DEF Shrinks
    <3>2. Accepted(q.ssrc) /\ Same(table["receiver"][q.ssrc].stats, table'["receiver"][q.ssrc].stats)
      BY <2>6, <2>16, AcceptedBefore
    <3> QED BY <2>16, <3>1, <3>2, SameCounts DEF Numbered
  <2>17. Numbered'
    BY <2>12, <2>13, <2>14, <2>15, <2>16 DEF Numbered
  <2> QED BY <2>7, <2>10, <2>11, <2>17
<1>2. CASE ~Reports!Changes(p)
  <2>1. UNCHANGED <<drawn, ssrc, table, seqnr>>
    BY <1>2 DEF Reports!OwnCollision
  <2>2. EntriesKept /\ LostKept
    BY <2>1, SameIsSame DEF EntriesKept, LostKept
  <2>3. Numbered' /\ Delivered'
    BY <2>1, <2>2, NumberedKept, DeliveredKept
  <2>4. Drawn'
    BY <2>1 DEF Drawn, MembersOf, Shrinks
  <2> QED BY <2>2, <2>3, <2>4
<1> QED BY <1>1, <1>2

\* RTCP packets that go.
LEMMA SaidSends ==
  ASSUME Drawn, Said, LostKept, NEW p \in Hosts, NEW pack, Reports!SendRTCPData(p, pack),
         \A x \in DOMAIN pack.blocks :
           /\ pack.blocks[x].fractionlost \in 0..255
           /\ p = "receiver" => Reports!GetLostPacketCount(pack.blocks[x]) = pack.blocks[x].truth
  PROVE  Said' /\ DOMAIN rtcp' = Hosts
<1>1. PICK o \in Hosts : o = Reports!Other(p)
  BY ReportConstants DEF Hosts
<1>2. rtcp' = [rtcp EXCEPT ![o] = pack] \/ rtcp' = rtcp
  BY <1>1 DEF Reports!SendRTCPData
<1>3. DOMAIN rtcp' = Hosts /\ \A q \in Hosts : rtcp'[q] = rtcp[q] \/ (q = o /\ rtcp'[q] = pack)
  BY <1>2 DEF Drawn
<1>4. o = "sender" => p = "receiver"
  BY <1>1, ReportConstants DEF Hosts
<1>5. Reports!FractionFits'
  BY <1>3, ReportConstants DEF Reports!FractionFits, Said, LossIsReported, Reports!LossIsReported
<1>6. ASSUME rtcp'["sender"] # NULL, NEW x \in DOMAIN rtcp'["sender"].blocks
      PROVE  Reports!GetLostPacketCount(rtcp'["sender"].blocks[x]) = rtcp'["sender"].blocks[x].truth
  <2>1. CASE rtcp'["sender"] = rtcp["sender"]
    BY <1>6, <2>1 DEF Said
  <2>2. CASE rtcp'["sender"] = pack /\ o = "sender"
    BY <1>4, <1>6, <2>2
  <2> QED BY <1>3, <2>1, <2>2 DEF Hosts
<1>7. Reports!LossIsTrue'
  BY LossKept DEF Said, LossIsReported, Reports!LossIsReported
<1> QED BY <1>3, <1>5, <1>6, <1>7 DEF Said, LossIsReported, Reports!LossIsReported

LEMMA SaidStays ==
  ASSUME Said, LostKept, UNCHANGED rtcp
  PROVE  Said'
<1>1. Reports!LossIsTrue'
  BY LossKept DEF Said, LossIsReported, Reports!LossIsReported
<1>2. Reports!FractionFits'
  BY DEF Reports!FractionFits, Said, LossIsReported, Reports!LossIsReported
<1> QED BY <1>1, <1>2 DEF Said, LossIsReported, Reports!LossIsReported

\* One RTCP packet is taken.
LEMMA SaidTaken ==
  ASSUME Drawn, Said, LostKept, NEW p \in Hosts, rtcp' = [rtcp EXCEPT ![p] = NULL]
  PROVE  Said' /\ DOMAIN rtcp' = Hosts
<1>1. Reports!LossIsTrue'
  BY LossKept DEF Said, LossIsReported, Reports!LossIsReported
<1>2. DOMAIN rtcp' = Hosts /\ \A q \in Hosts : rtcp'[q] = rtcp[q] \/ rtcp'[q] = NULL
  BY DEF Drawn
<1>3. Reports!FractionFits'
  BY <1>2, ReportConstants DEF Reports!FractionFits, Said, LossIsReported, Reports!LossIsReported
<1> QED BY <1>1, <1>2, <1>3 DEF Said, LossIsReported, Reports!LossIsReported, Hosts

LEMMA TableStays ==
  ASSUME UNCHANGED table
  PROVE  EntriesKept /\ LostKept
  BY SameIsSame DEF EntriesKept, LostKept

LEMMA SayHiStep == ReportInv /\ Reports!SayHi => ReportInv'
<1> SUFFICES ASSUME ReportInv, Reports!SayHi PROVE ReportInv'
  OBVIOUS
<1>1. /\ rtp' = rtp \cup {Reports!RTPPacket("receiver", 1, 1)}
      /\ UNCHANGED <<session, ssrc, drawn, table, seqnr, count, rtcp>>
  BY DEF Reports!SayHi
<1>2. PICK k : k = Reports!RTPPacket("receiver", 1, 1)
  OBVIOUS
<1>3. k \in Pending /\ k.to = "sender"
  <2>1. ssrc["receiver"] \in Int /\ 1 \in 0..SeqMod - 1
    BY DrawnBounds DEF ReportInv, Drawn, Hosts
  <2> QED BY <1>2, <2>1, ReportConstants DEF Reports!RTPPacket, Pending, Hosts
<1>4. rtp' \subseteq Pending /\ IsFiniteSet(rtp')
  BY <1>1, <1>2, <1>3, FS_AddElement DEF ReportInv, Drawn
<1>5. Way(rtp') = Way(rtp)
  BY <1>1, <1>2, <1>3 DEF Way
<1>6. Shrinks
  <2>1. OnTheWay' = OnTheWay /\ ToCome' = ToCome
    BY <1>5 DEF OnTheWay, ToCome, Copies, Again
  <2>2. ToCome \in Nat
    BY CopiesCount DEF ToCome, ReportInv, Drawn
  <2> QED BY <1>4, <2>1, <2>2 DEF Shrinks
<1>7. EntriesKept /\ LostKept
  BY <1>1, TableStays
<1>8. Drawn'
  BY <1>1, <1>4 DEF ReportInv, Drawn, MembersOf
<1> QED BY <1>1, <1>6, <1>7, <1>8, NumberedKept, DeliveredKept, SaidStays DEF ReportInv

\* What leaves the packets and the table alone.
LEMMA QuietStep ==
  ASSUME ReportInv, UNCHANGED <<session, ssrc, drawn, table, seqnr, count, rtp>>, DOMAIN rtcp' = Hosts, Said'
  PROVE  ReportInv'
<1>1. EntriesKept /\ Shrinks
  BY TableStays, ShrinksNot DEF ReportInv
<1>2. Drawn'
  BY DEF ReportInv, Drawn, MembersOf
<1> QED BY <1>1, <1>2, NumberedKept, DeliveredKept DEF ReportInv

LEMMA NoBlocks == \A x, bye : DOMAIN Reports!CompoundPacket(x, <<>>, bye).blocks = {}
<1> SUFFICES ASSUME NEW x, NEW bye PROVE DOMAIN Reports!CompoundPacket(x, <<>>, bye).blocks = {}
  OBVIOUS
<1>1. Reports!CompoundPacket(x, <<>>, bye).blocks = <<>>
  BY DEF Reports!CompoundPacket
<1> QED BY <1>1

LEMMA SendClockOffsetStep == ReportInv /\ Reports!SendClockOffset => ReportInv'
<1> SUFFICES ASSUME ReportInv, Reports!SendClockOffset PROVE ReportInv'
  OBVIOUS
<1>1. /\ Reports!SendRTCPData("receiver", Reports!CompoundPacket(ssrc["receiver"], <<>>, FALSE))
      /\ UNCHANGED <<session, ssrc, drawn, table, seqnr, count, rtp>>
  BY DEF Reports!SendClockOffset, Reports!sendVars
<1>2. Said' /\ DOMAIN rtcp' = Hosts
  BY <1>1, SaidSends, TableStays, NoBlocks DEF ReportInv, Hosts
<1> QED BY <1>1, <1>2, QuietStep

LEMMA SendBYEStep == \A p \in Hosts : ReportInv /\ Reports!SendBYE(p) => ReportInv'
<1> SUFFICES ASSUME NEW p \in Hosts, ReportInv, Reports!SendBYE(p) PROVE ReportInv'
  OBVIOUS
<1>1. /\ Reports!SendRTCPData(p, Reports!CompoundPacket(Reports!Head(byepackets[p]), <<>>, TRUE))
      /\ UNCHANGED <<session, ssrc, drawn, table, seqnr, count, rtp>>
  BY DEF Reports!SendBYE, Reports!sendVars
<1>2. Said' /\ DOMAIN rtcp' = Hosts
  BY <1>1, SaidSends, TableStays, NoBlocks DEF ReportInv
<1> QED BY <1>1, <1>2, QuietStep

LEMMA IntervalKept ==
  ASSUME NEW e, Member(e)
  PROVE  LET f == Reports!StartNewInterval(e)
         IN Member(f) /\ Same(e.stats, f.stats) /\ f.RRinf = e.RRinf
<1>1. PICK f : f = Reports!StartNewInterval(e)
  OBVIOUS
<1>2. PICK R : R = {e.RRinf} /\ e \in [ownssrc : BOOLEAN, validated : BOOLEAN, receivedbye : BOOLEAN, stats : Counts, RRinf : R]
  BY DEF Member
<1>3. CASE Reports!ShouldReport(e)
  <2>1. f = [e EXCEPT !.stats = [e.stats EXCEPT !.numnewpackets = 0, !.savedextseqnr = e.stats.exthighseqnr, !.fresh = FALSE]]
    BY <1>1, <1>2, <1>3 DEF Reports!StartNewInterval
  <2>2. PICK t : t = [e.stats EXCEPT !.numnewpackets = 0, !.savedextseqnr = e.stats.exthighseqnr, !.fresh = FALSE]
    OBVIOUS
  <2>3. e.stats \in Counts
    BY <1>2
  <2>4. t \in Counts /\ ~t.fresh /\ Same(e.stats, t)
    <3>1. PICK s \in Counts, h \in Int : s = e.stats /\ h = s.exthighseqnr
      BY <2>3 DEF Counts
    <3>2. t = [s EXCEPT !.numnewpackets = 0, !.savedextseqnr = h, !.fresh = FALSE]
      BY <2>2, <3>1
    <3>3. t \in Counts /\ ~t.fresh
      BY <3>2 DEF Counts
    <3>4. Same(s, t)
      BY <3>2 DEF Counts, Same
    <3> QED BY <3>1, <3>3, <3>4
  <2>5. f = [e EXCEPT !.stats = t]
    BY <2>1, <2>2
  <2>6. f.stats = t /\ f.RRinf = e.RRinf /\ f \in [ownssrc : BOOLEAN, validated : BOOLEAN, receivedbye : BOOLEAN, stats : Counts, RRinf : R]
    BY <1>2, <2>4, <2>5
  <2> QED BY <1>1, <1>2, <2>4, <2>6 DEF Member, Kept
<1>4. CASE ~Reports!ShouldReport(e)
  <2>1. f = [e EXCEPT !.stats = [e.stats EXCEPT !.fresh = FALSE]]
    BY <1>1, <1>2, <1>4 DEF Reports!StartNewInterval
  <2>2. PICK t : t = [e.stats EXCEPT !.fresh = FALSE]
    OBVIOUS
  <2>3. e.stats \in Counts
    BY <1>2
  <2>4. t \in Counts /\ ~t.fresh /\ Same(e.stats, t)
    BY <2>2, <2>3 DEF Counts, Same
  <2>5. f = [e EXCEPT !.stats = t]
    BY <2>1, <2>2
  <2>6. f.stats = t /\ f.RRinf = e.RRinf /\ f \in [ownssrc : BOOLEAN, validated : BOOLEAN, receivedbye : BOOLEAN, stats : Counts, RRinf : R]
    BY <1>2, <2>4, <2>5
  <2> QED BY <1>1, <1>2, <2>4, <2>6 DEF Member, Kept
<1> QED BY <1>1, <1>3, <1>4

\* What a report of p says of x.
LEMMA BlockRight ==
  ASSUME ReportInv, NEW p \in Hosts, NEW x \in MembersOf(p), Reports!ShouldReport(table[p][x])
  PROVE  LET b == Reports!ReportBlock(table[p][x].stats)
         IN b.fractionlost \in 0..255 /\ (p = "receiver" => Reports!GetLostPacketCount(b) = b.truth)
<1>1. PICK s : s = table[p][x].stats
  OBVIOUS
<1>2. s.sentdata /\ s.fresh
  BY <1>1 DEF Reports!ShouldReport
<1>3. s \in Counts /\ s.numnewpackets \in Nat \ {0} /\ s.exthighseqnr - s.savedextseqnr \in Int
  <2>1. s \in Counts /\ s.numnewpackets > 0
    BY <1>1, <1>2 DEF ReportInv, Drawn, Member, Kept
  <2> QED BY <2>1 DEF Counts
<1>4. Reports!ReportBlock(s).fractionlost \in 0..255
  <2>1. Reports!Fraction(s.exthighseqnr - s.savedextseqnr, s.numnewpackets) \in 0..255
    BY <1>3, EightBits
  <2> QED BY <2>1 DEF Reports!ReportBlock
<1>5. ASSUME p = "receiver" PROVE Reports!GetLostPacketCount(Reports!ReportBlock(s)) = Reports!ReportBlock(s).truth
  <2>1. Counting(s, count) /\ s.packetsreceived + ToCome <= 2 * count
    BY <1>1, <1>5 DEF ReportInv, Delivered
  <2>2. ToCome \in Nat /\ s.packetsreceived \in Nat
    BY <1>3, CopiesCount DEF ReportInv, Drawn, ToCome, Counts
  <2>3. count \in Nat /\ 4 * count < LostMod
    BY DrawnBounds DEF ReportInv
  <2>4. s.packetsreceived <= 2 * count
    BY <2>1, <2>2, <2>3
  <2> QED BY <1>2, <1>3, <2>1, <2>3, <2>4, LostIsTrue
<1> QED BY <1>1, <1>4, <1>5

LEMMA SendReportStep == \A p \in Hosts : ReportInv /\ Reports!SendReport(p) => ReportInv'
<1> SUFFICES ASSUME NEW p \in Hosts, ReportInv, Reports!SendReport(p) PROVE ReportInv'
  OBVIOUS
<1>1. PICK D : D = {x \in DOMAIN table[p] : Reports!ShouldReport(table[p][x])}
  OBVIOUS
<1>2. PICK B : B = [x \in D |-> Reports!ReportBlock(table[p][x].stats)]
  OBVIOUS
<1>3. PICK k : k = Reports!CompoundPacket(ssrc[p], B, FALSE)
  OBVIOUS
<1>4. PICK F : F = [x \in DOMAIN table[p] |-> Reports!StartNewInterval(table[p][x])]
  OBVIOUS
<1>5. /\ Reports!SendRTCPData(p, k)
      /\ table' = [table EXCEPT ![p] = F]
      /\ UNCHANGED <<session, ssrc, drawn, seqnr, count, rtp>>
  BY <1>1, <1>2, <1>3, <1>4 DEF Reports!SendReport, Reports!sendVars, ReportInv, Drawn
<1>6. \A x \in DOMAIN F : /\ x \in DOMAIN table[p] /\ Member(F[x])
                          /\ Same(table[p][x].stats, F[x].stats) /\ F[x].RRinf = table[p][x].RRinf
  BY <1>4, IntervalKept DEF ReportInv, Drawn, MembersOf
<1>7. /\ DOMAIN table' = Hosts /\ table'[p] = F /\ \A q \in Hosts : q # p => table'[q] = table[q]
      /\ \A q \in Hosts : \A y \in MembersOf(q)' : Member(table'[q][y])
  BY <1>5, <1>6, TableStep DEF ReportInv
<1>8. EntriesKept
  <2>1. CASE p = "receiver"
    BY <1>6, <1>7, <2>1 DEF EntriesKept
  <2>2. CASE p # "receiver"
    BY <1>7, <2>2, SameIsSame DEF EntriesKept, Hosts
  <2> QED BY <2>1, <2>2
<1>9. LostKept
  <2>1. CASE p = "sender"
    BY <1>6, <1>7, <2>1 DEF LostKept
  <2>2. CASE p # "sender"
    BY <1>7, <2>2, SMTT(30) DEF LostKept, Hosts
  <2> QED BY <2>1, <2>2
<1>10. \A x \in DOMAIN k.blocks :
         /\ k.blocks[x].fractionlost \in 0..255
         /\ p = "receiver" => Reports!GetLostPacketCount(k.blocks[x]) = k.blocks[x].truth
  <2>1. k.blocks = B
    BY <1>3 DEF Reports!CompoundPacket
  <2> QED BY <1>1, <1>2, <2>1, BlockRight DEF MembersOf
<1>11. Said' /\ DOMAIN rtcp' = Hosts
  BY <1>5, <1>9, <1>10, SaidSends DEF ReportInv
<1>12. Shrinks
  BY <1>5, ShrinksNot DEF ReportInv
<1>13. Drawn'
  BY <1>5, <1>7, <1>11 DEF ReportInv, Drawn
<1> QED BY <1>5, <1>8, <1>11, <1>12, <1>13, NumberedKept, DeliveredKept DEF ReportInv

LEMMA RemoveBYEStep == \A p \in Hosts : \A x : ReportInv /\ Reports!RemoveBYE(p, x) => ReportInv'
<1> SUFFICES ASSUME NEW p \in Hosts, NEW x, ReportInv, Reports!RemoveBYE(p, x) PROVE ReportInv'
  OBVIOUS
<1>1. PICK F : F = Reports!Without(table[p], x)
  OBVIOUS
<1>2. /\ table' = [table EXCEPT ![p] = F]
      /\ UNCHANGED <<session, ssrc, drawn, seqnr, count, rtp, rtcp>>
  BY <1>1 DEF Reports!RemoveBYE, Reports!identityVars, Reports!sendVars, ReportInv, Drawn
<1>3. \A y \in DOMAIN F : y \in DOMAIN table[p] /\ F[y] = table[p][y]
  BY <1>1 DEF Reports!Without
<1>4. \A y \in DOMAIN F : Member(F[y])
  BY <1>3 DEF ReportInv, Drawn, MembersOf
<1>5. /\ DOMAIN table' = Hosts /\ table'[p] = F /\ \A q \in Hosts : q # p => table'[q] = table[q]
      /\ \A q \in Hosts : \A y \in MembersOf(q)' : Member(table'[q][y])
  BY <1>2, <1>4, TableStep DEF ReportInv
<1>6. EntriesKept
  <2>1. CASE p = "receiver"
    BY <1>3, <1>5, <2>1, SameIsSame DEF EntriesKept
  <2>2. CASE p # "receiver"
    BY <1>5, <2>2, SameIsSame DEF EntriesKept, Hosts
  <2> QED BY <2>1, <2>2
<1>7. LostKept
  <2>1. CASE p = "sender"
    BY <1>3, <1>5, <2>1 DEF LostKept
  <2>2. CASE p # "sender"
    BY <1>5, <2>2 DEF LostKept, Hosts
  <2> QED BY <2>1, <2>2
<1>8. Shrinks
  BY <1>2, ShrinksNot DEF ReportInv
<1>9. Drawn'
  BY <1>2, <1>5 DEF ReportInv, Drawn
<1> QED BY <1>2, <1>6, <1>7, <1>8, <1>9, NumberedKept, DeliveredKept, SaidStays DEF ReportInv

LEMMA EntryIs ==
  ASSUME Drawn, Reports!LossIsTrue, NEW p \in Hosts, NEW x
  PROVE  /\ Member(Reports!Entry(p, x))
         /\ p = "sender" => Reports!Entry(p, x).RRinf.packetslost = Reports!Entry(p, x).RRinf.truth
<1>1. CASE x \in DOMAIN table[p]
  BY <1>1 DEF Drawn, MembersOf, Reports!Entry, Reports!LossIsTrue
<1>2. CASE x \notin DOMAIN table[p]
  BY <1>2, NewIsKept DEF Reports!Entry
<1> QED BY <1>1, <1>2

LEMMA ReceiveRTCPStep == \A p \in Hosts : ReportInv /\ Reports!ReceiveRTCP(p) => ReportInv'
<1> SUFFICES ASSUME NEW p \in Hosts, ReportInv, Reports!ReceiveRTCP(p) PROVE ReportInv'
  OBVIOUS
<1>1. PICK k : k = rtcp[p] /\ k # NULL
  BY DEF Reports!ReceiveRTCP
<1>2. rtcp' = [rtcp EXCEPT ![p] = NULL] /\ UNCHANGED <<session, count, rtp>>
  BY DEF Reports!ReceiveRTCP
<1>3. Shrinks /\ DOMAIN rtcp' = Hosts
  BY <1>2, ShrinksNot DEF ReportInv, Drawn
<1>4. CASE Reports!IsOwn(p, k.ssrc)
  <2>1. Reports!OwnCollision(p)
    BY <1>1, <1>4 DEF Reports!ReceiveRTCP
  <2>2. Drawn' /\ Numbered' /\ Delivered' /\ LostKept
    BY <1>2, <1>3, <2>1, CollisionStep DEF ReportInv
  <2> QED BY <1>2, <2>2, SaidTaken DEF ReportInv
<1>5. CASE ~Reports!IsOwn(p, k.ssrc)
  <2>1. PICK x, old : x = k.ssrc /\ old = Reports!Entry(p, x)
    OBVIOUS
  <2>2. PICK b : b = (old.receivedbye \/ k.bye)
    OBVIOUS
  <2>3. PICK r : r = Reports!ReportOn(p, k, old.RRinf)
    OBVIOUS
  <2>4. PICK R : R = {old.RRinf} /\ old \in [ownssrc : BOOLEAN, validated : BOOLEAN, receivedbye : BOOLEAN, stats : Counts, RRinf : R]
        /\ Kept(old.stats)
    BY <2>1, EntryIs DEF Member, ReportInv, Said, LossIsReported, Reports!LossIsReported
  <2>5. PICK e : e = [old EXCEPT !.validated = TRUE, !.receivedbye = b, !.RRinf = r]
    OBVIOUS
  <2>6. PICK F : F = Reports!Put(table[p], x, e)
    OBVIOUS
  <2>7. /\ table' = [table EXCEPT ![p] = F]
        /\ UNCHANGED <<ssrc, drawn, seqnr>>
    <3>1. table' = [table EXCEPT ![p] =
                      Reports!Put(@, x, [old EXCEPT !.validated = TRUE, !.receivedbye = @ \/ k.bye,
                                                    !.RRinf = Reports!ReportOn(p, k, @)])]
          /\ UNCHANGED Reports!identityVars /\ UNCHANGED seqnr
      BY <1>1, <1>5, <2>1 DEF Reports!ReceiveRTCP
    <3>2. [old EXCEPT !.validated = TRUE, !.receivedbye = @ \/ k.bye, !.RRinf = Reports!ReportOn(p, k, @)] = e
      BY <2>2, <2>3, <2>4, <2>5
    <3> QED BY <2>6, <3>1, <3>2 DEF ReportInv, Drawn, Reports!identityVars
  <2>8. e.stats = old.stats /\ e.RRinf = r /\ Member(e)
    <3>1. b \in BOOLEAN
      BY <2>2
    <3>2. e \in [ownssrc : BOOLEAN, validated : BOOLEAN, receivedbye : BOOLEAN, stats : Counts, RRinf : {r}]
          /\ e.stats = old.stats /\ e.RRinf = r
      BY <2>4, <2>5, <3>1
    <3> QED BY <2>4, <3>2 DEF Member
  <2>9. p = "sender" => r.packetslost = r.truth
    <3> SUFFICES ASSUME p = "sender" PROVE r.packetslost = r.truth
      OBVIOUS
    <3>1. CASE ssrc[p] \in DOMAIN k.blocks
      <4>1. Reports!GetLostPacketCount(k.blocks[ssrc[p]]) = k.blocks[ssrc[p]].truth
        BY <1>1, <3>1 DEF ReportInv, Said
      <4>2. r = [packetslost |-> Reports!GetLostPacketCount(k.blocks[ssrc[p]]), truth |-> k.blocks[ssrc[p]].truth]
        BY <2>3, <3>1 DEF Reports!ReportOn
      <4> QED BY <4>1, <4>2
    <3>2. CASE ssrc[p] \notin DOMAIN k.blocks
      <4>1. r = old.RRinf
        BY <2>3, <3>2 DEF Reports!ReportOn
      <4> QED BY <2>1, <4>1, EntryIs DEF ReportInv, Said, LossIsReported, Reports!LossIsReported
    <3> QED BY <3>1, <3>2
  <2>10. \A y \in DOMAIN F : \/ y = x /\ F[y] = e
                             \/ y \in DOMAIN table[p] /\ F[y] = table[p][y]
    BY <2>6 DEF Reports!Put
  <2>11. \A y \in DOMAIN F : Member(F[y])
    BY <2>8, <2>10 DEF ReportInv, Drawn, MembersOf
  <2>12. /\ DOMAIN table' = Hosts /\ table'[p] = F /\ \A q \in Hosts : q # p => table'[q] = table[q]
         /\ \A q \in Hosts : \A y \in MembersOf(q)' : Member(table'[q][y])
    BY <2>7, <2>11, TableStep DEF ReportInv
  <2>13. e.stats = Reports!NewStats \/ (x \in DOMAIN table[p] /\ Same(table[p][x].stats, e.stats))
    BY <2>1, <2>8, NewIsKept, SameIsSame DEF Reports!Entry
  <2>14. EntriesKept
    <3>1. CASE p = "receiver"
      BY <2>10, <2>12, <2>13, <3>1, SameIsSame DEF EntriesKept
    <3>2. CASE p # "receiver"
      BY <2>12, <3>2, SameIsSame DEF EntriesKept, Hosts
    <3> QED BY <3>1, <3>2
  <2>15. LostKept
    <3>1. CASE p = "sender"
      BY <2>8, <2>9, <2>10, <2>12, <3>1 DEF LostKept
    <3>2. CASE p # "sender"
      BY <2>12, <3>2 DEF LostKept, Hosts
    <3> QED BY <3>1, <3>2
  <2>16. Drawn'
    BY <1>2, <1>3, <2>7, <2>12 DEF ReportInv, Drawn
  <2> QED BY <1>2, <1>3, <2>7, <2>14, <2>15, <2>16, NumberedKept, DeliveredKept, SaidTaken DEF ReportInv
<1> QED BY <1>4, <1>5

LEMMA CountingMore ==
  ASSUME NEW s \in Counts, NEW n \in Nat, Counting(s, n)
  PROVE  Counting(s, n + 1)
<1>1. \A x \in 1..n : x \in 1..(n + 1)
  OBVIOUS
<1>2. s.sentdata => Last(s) <= n + 1
  <2> SUFFICES ASSUME s.sentdata PROVE Last(s) <= n + 1
    OBVIOUS
  <2>1. PICK m \in Int : m = Last(s) /\ m <= n
    BY DEF Counting, Counts
  <2> QED BY <2>1
<1> QED BY <1>1, <1>2 DEF Counting

\* The next frame has the next number.
LEMMA OffsetStays ==
  ASSUME NEW w \in BOOLEAN, NEW n \in 0..SeqMod - 1, NEW c \in Nat, 2 * (c + 1) < SeqMod, ~w => n <= c
  PROVE  Offset(w, (n + 1) % SeqMod, c + 1 + 1) = Offset(w, n, c + 1)
<1>1. PICK M \in Nat \ {0} : M = SeqMod
  BY ReportConstants
<1>2. CASE w
  <2>1. n + 1 \in Int /\ 0 - (c + 2) \in Int
    OBVIOUS
  <2>2. (((n + 1) % M) + (0 - (c + 2))) % M = ((n + 1) + (0 - (c + 2))) % M
    BY <2>1, ModAdd
  <2>3. (n + 1) + (0 - (c + 2)) = n - (c + 1)
    BY <1>1
  <2>4. PICK r \in Int : r = (n + 1) % M
    BY <2>1, ModRange
  <2>5. r + (0 - (c + 2)) = r - (c + 1 + 1)
    OBVIOUS
  <2> QED BY <1>1, <1>2, <2>2, <2>3, <2>4, <2>5 DEF Offset
<1>3. CASE ~w
  <2>1. n + 1 \in 0..M - 1
    BY <1>1, <1>3
  <2>2. (n + 1) % M = n + 1
    BY <2>1, ModSmall
  <2>3. (n + 1) - (c + 1 + 1) = n - (c + 1)
    BY <1>1
  <2> QED BY <1>1, <1>3, <2>2, <2>3 DEF Offset
<1> QED BY <1>2, <1>3

LEMMA SendFrameStep == ReportInv /\ Reports!SendFrame => ReportInv'
<1> SUFFICES ASSUME ReportInv, Reports!SendFrame PROVE ReportInv'
  OBVIOUS
<1>1. PICK k : k = Reports!RTPPacket("sender", seqnr, count + 1)
  OBVIOUS
<1>2. /\ count < session.packets /\ count' = count + 1 /\ seqnr' = (seqnr + 1) % SeqMod
      /\ rtp' = rtp \cup {k} \/ rtp' = rtp
      /\ UNCHANGED <<session, ssrc, drawn, table, rtcp>>
  BY <1>1 DEF Reports!SendFrame
<1>3. PICK c \in Nat : c = count /\ 2 * c < SeqMod /\ 2 * (c + 1) < SeqMod /\ count' = c + 1 /\ count' <= session.packets
  <2>1. PICK b \in Nat : b = session.packets /\ 2 * b < SeqMod
    BY ReportConstants DEF ReportInv, Drawn
  <2>2. count \in Nat /\ SeqMod \in Nat
    BY DrawnBounds DEF ReportInv
  <2>3. count + 1 <= b
    BY <1>2, <2>1, <2>2
  <2> QED BY <1>2, <2>1, <2>2, <2>3
<1>4. seqnr' \in 0..SeqMod - 1
  <2>1. seqnr + 1 \in Int /\ SeqMod \in Nat \ {0}
    BY DrawnBounds DEF ReportInv, Drawn
  <2> QED BY <1>2, <2>1, ModRange
<1>5. k \in Pending /\ k.to = "receiver" /\ k.ssrc = ssrc["sender"] /\ k.seqnr = seqnr /\ k.index = c + 1
  <2>1. ssrc["sender"] \in Int /\ count + 1 \in Int
    BY <1>3 DEF ReportInv, Drawn, Hosts
  <2> QED BY <1>1, <1>3, <2>1, ReportConstants DEF Reports!RTPPacket, Pending, Hosts, ReportInv, Drawn
<1>6. rtp' \subseteq Pending /\ IsFiniteSet(rtp')
  BY <1>2, <1>5, FS_AddElement DEF ReportInv, Drawn
<1>7. \A q \in OnTheWay' : q \in OnTheWay \/ q = k
  BY <1>2 DEF OnTheWay, Way
<1>8. ToCome \in Nat /\ ToCome' \in Nat /\ ToCome' <= ToCome + 2
  <2>1. IsFiniteSet(Way(rtp)) /\ IsFiniteSet(Again(rtp)) /\ Cardinality(Way(rtp)) \in Nat /\ Cardinality(Again(rtp)) \in Nat
    BY CopiesCount DEF ReportInv, Drawn
  <2>2. PICK T : T = rtp'
    OBVIOUS
  <2>3. Way(T) \in SUBSET (Way(rtp) \cup {k}) /\ Again(T) \in SUBSET (Again(rtp) \cup {k})
    BY <1>2, <2>2 DEF Way, Again
  <2>4. /\ IsFiniteSet(Way(rtp) \cup {k}) /\ IsFiniteSet(Again(rtp) \cup {k})
        /\ Cardinality(Way(rtp) \cup {k}) \in {Cardinality(Way(rtp)), Cardinality(Way(rtp)) + 1}
        /\ Cardinality(Again(rtp) \cup {k}) \in {Cardinality(Again(rtp)), Cardinality(Again(rtp)) + 1}
    BY <2>1, FS_AddElement
  <2>5. Cardinality(Way(T)) <= Cardinality(Way(rtp) \cup {k}) /\ Cardinality(Again(T)) <= Cardinality(Again(rtp) \cup {k})
    BY <2>3, <2>4, FS_Subset
  <2>6. Cardinality(Way(T)) \in Nat /\ Cardinality(Again(T)) \in Nat
    BY <1>6, <2>2, CopiesCount
  <2>7. Copies(T) <= Copies(rtp) + 2 /\ Copies(T) \in Nat /\ Copies(rtp) \in Nat
    BY <2>1, <2>4, <2>5, <2>6 DEF Copies
  <2> QED BY <2>2, <2>7 DEF ToCome
<1>9. Drawn'
  BY <1>2, <1>3, <1>4, <1>6 DEF ReportInv, Drawn, MembersOf
<1>10. Said'
  BY <1>2, TableStays, SaidStays DEF ReportInv
<1>11. Delivered'
  <2>1. ToCome <= 2 * c
    BY <1>3 DEF ReportInv, Delivered
  <2>2. ToCome' <= 2 * count'
    BY <1>3, <1>8, <2>1
  <2>3. ASSUME NEW x \in MembersOf("receiver")'
        PROVE  /\ Counting(table'["receiver"][x].stats, count')
               /\ table'["receiver"][x].stats.packetsreceived + ToCome' <= 2 * count'
    <3>1. PICK s : s = table["receiver"][x].stats /\ s = table'["receiver"][x].stats
      BY <1>2
    <3>2. s \in Counts /\ Counting(s, c) /\ s.packetsreceived + ToCome <= 2 * c
      BY <1>2, <1>3, <2>3, <3>1 DEF ReportInv, Delivered, Drawn, Member, Kept, MembersOf, Hosts
    <3>3. s.packetsreceived \in Nat
      BY <3>2 DEF Counts
    <3>4. s.packetsreceived + ToCome' <= 2 * count'
      BY <1>3, <1>8, <3>2, <3>3
    <3> QED BY <1>3, <3>1, <3>2, <3>4, CountingMore
  <2> QED BY <2>2, <2>3 DEF Delivered
<1>12. Accepted(ssrc["sender"]) => Last(table["receiver"][ssrc["sender"]].stats) <= c + 1
  <2> SUFFICES ASSUME Accepted(ssrc["sender"]) PROVE Last(table["receiver"][ssrc["sender"]].stats) <= c + 1
    OBVIOUS
  <2>1. PICK s : s = table["receiver"][ssrc["sender"]].stats
    OBVIOUS
  <2>2. s \in Counts /\ Counting(s, c) /\ s.sentdata
    BY <1>3, <2>1 DEF Accepted, ReportInv, Delivered, Drawn, Member, Kept, MembersOf, Hosts
  <2>3. Last(s) \in Int /\ Last(s) <= c
    BY <2>2 DEF Counting, Counts
  <2> QED BY <2>1, <2>3
<1>13. Offset(session.wraps, seqnr', count' + 1) = Offset(session.wraps, seqnr, count + 1)
  <2>1. session.wraps \in BOOLEAN
    BY DrawnBounds DEF ReportInv
  <2>2. ~session.wraps => seqnr <= c
    BY <1>3 DEF ReportInv, Numbered
  <2> QED BY <1>2, <1>3, <2>1, <2>2, OffsetStays DEF ReportInv, Drawn
<1>14. ASSUME NEW x \in 0..drawn'
       PROVE  \E o \in Int : NumberedFrom(x, o)'
  <2>1. PICK o \in Int : NumberedFrom(x, o)
    BY <1>2 DEF ReportInv, Numbered
  <2>2. ASSUME NEW q \in OnTheWay', q.ssrc = x
        PROVE  Offset(session'.wraps, q.seqnr, q.index) = o
    BY <1>2, <1>3, <1>5, <1>7, <2>1, <2>2 DEF NumberedFrom
  <2>3. ssrc'["sender"] = x => Offset(session'.wraps, seqnr', count' + 1) = o
    BY <1>2, <1>13, <2>1 DEF NumberedFrom
  <2>4. Accepted(x)' => Shown(session'.wraps, table'["receiver"][x].stats) = o
    BY <1>2, <2>1 DEF NumberedFrom, Accepted, MembersOf
  <2> QED BY <2>2, <2>3, <2>4 DEF NumberedFrom
<1>15. ASSUME NEW q \in OnTheWay'
       PROVE  q.ssrc \in 0..drawn' /\ q.index \in 1..count'
  <2>1. CASE q \in OnTheWay
    BY <1>2, <1>3, <2>1 DEF ReportInv, Numbered
  <2>2. CASE q = k
    BY <1>2, <1>3, <1>5, <2>2 DEF ReportInv, Drawn, Hosts
  <2> QED BY <1>7, <2>1, <2>2
<1>16. \A x \in MembersOf("receiver")' : Accepted(x)' => x \in 0..drawn'
  BY <1>2 DEF ReportInv, Numbered, Accepted, MembersOf
<1>17. ~session'.wraps => seqnr' <= count'
  <2> SUFFICES ASSUME ~session.wraps PROVE seqnr' <= count'
    BY <1>2
  <2>1. PICK n \in Nat, M \in Nat \ {0} : n = seqnr /\ M = SeqMod
    BY DrawnBounds DEF ReportInv, Drawn
  <2>2. n <= c
    BY <1>3, <2>1 DEF ReportInv, Numbered
  <2>3. n + 1 \in 0..M - 1
    BY <1>3, <2>1, <2>2
  <2>4. (n + 1) % M = n + 1
    BY <2>3, ModSmall
  <2> QED BY <1>2, <1>3, <2>1, <2>2, <2>4
<1>18. ASSUME session'.wraps, NEW q \in OnTheWay', Accepted(q.ssrc)'
       PROVE  Last(table'["receiver"][q.ssrc].stats) <= q.index
  <2>1. Accepted(q.ssrc)
    BY <1>2, <1>18 DEF Accepted, MembersOf
  <2>2. CASE q \in OnTheWay
    BY <1>2, <1>18, <2>1, <2>2 DEF ReportInv, Numbered
  <2>3. CASE q = k
    BY <1>2, <1>5, <1>12, <2>1, <2>3
  <2> QED BY <1>7, <2>2, <2>3
<1>19. Numbered'
  BY <1>14, <1>15, <1>16, <1>17, <1>18 DEF Numbered
<1> QED BY <1>9, <1>10, <1>11, <1>19 DEF ReportInv

LEMMA ProcessMember ==
  ASSUME NEW e, Member(e), NEW pack \in Pending
  PROVE  LET f == Reports!ProcessRTPPacket(e, pack)
         IN /\ Member(f) /\ f.RRinf = e.RRinf
            /\ f.stats = Reports!ProcessPacket(e.stats, pack, ~e.validated)
<1>1. PICK f, t : f = Reports!ProcessRTPPacket(e, pack) /\ t = Reports!ProcessPacket(e.stats, pack, ~e.validated)
  OBVIOUS
<1>2. PICK R : R = {e.RRinf} /\ e \in [ownssrc : BOOLEAN, validated : BOOLEAN, receivedbye : BOOLEAN, stats : Counts, RRinf : R]
  BY DEF Member
<1>3. (~e.validated) \in BOOLEAN /\ e.stats \in Counts /\ Kept(e.stats)
  BY DEF Member
<1>4. Kept(t)
  BY <1>1, <1>3, ProcessKept
<1>5. PICK v \in BOOLEAN : v = (e.validated \/ t.sentdata)
  OBVIOUS
<1>6. f = [e EXCEPT !.stats = t, !.validated = v]
  BY <1>1, <1>2, <1>5 DEF Reports!ProcessRTPPacket
<1>7. f \in [ownssrc : BOOLEAN, validated : BOOLEAN, receivedbye : BOOLEAN, stats : Counts, RRinf : R]
      /\ f.stats = t /\ f.RRinf = e.RRinf
  BY <1>2, <1>4, <1>5, <1>6 DEF Kept
<1> QED BY <1>1, <1>2, <1>4, <1>7 DEF Member

\* Where the packets go that a packet comes before.
LEMMA Arrival ==
  ASSUME ReportInv, NEW p \in Hosts, NEW pack, Reports!ReceiveRTP(p, pack)
  PROVE  /\ Shrinks /\ pack \in Pending /\ pack \in rtp /\ pack.to = p
         /\ p = "receiver" => ToCome' + 1 <= ToCome
         /\ session.wraps => \A q \in rtp' : q.to = p /\ q.ssrc = pack.ssrc => pack.index <= q.index
<1>1. PICK G : G = IF session.wraps THEN Reports!Earlier(pack) ELSE {}
  OBVIOUS
<1>2. pack \in rtp /\ pack.to = p /\ pack \in Pending /\ rtp \in SUBSET Pending /\ IsFiniteSet(rtp)
  BY DEF Reports!ReceiveRTP, ReportInv, Drawn
<1>3. G \in SUBSET rtp /\ \A g \in G : g.to = pack.to
  BY <1>1 DEF Reports!Earlier
<1>4. PICK T : T = Arrived(rtp, pack, G) /\ rtp' = T
  BY <1>1 DEF Reports!ReceiveRTP, Arrived
<1>5. /\ T \subseteq Pending /\ IsFiniteSet(T)
      /\ pack.to = "receiver" => Copies(T) + 1 <= Copies(rtp)
      /\ pack.to = "sender" => Way(T) = Way(rtp)
      /\ \A q \in Way(T) : \E r \in Way(rtp) : r.ssrc = q.ssrc /\ r.seqnr = q.seqnr /\ r.index = q.index
  BY <1>2, <1>3, <1>4, CopiesGo
<1>6. Copies(T) \in Nat /\ Copies(rtp) \in Nat
  BY <1>2, <1>5, CopiesCount
<1>7. Copies(T) <= Copies(rtp)
  <2>1. CASE p = "receiver"
    BY <1>2, <1>5, <1>6, <2>1
  <2>2. CASE p = "sender"
    BY <1>2, <1>5, <1>6, <2>2 DEF Copies, Again
  <2> QED BY <2>1, <2>2 DEF Hosts
<1>8. Shrinks
  BY <1>4, <1>5, <1>6, <1>7 DEF Shrinks, ToCome, OnTheWay
<1>9. p = "receiver" => ToCome' + 1 <= ToCome
  BY <1>2, <1>4, <1>5 DEF ToCome
<1>10. ASSUME session.wraps, NEW q \in rtp', q.to = p, q.ssrc = pack.ssrc
       PROVE  pack.index <= q.index
  <2>1. CASE q \in rtp
    <3>1. q \notin G \/ q = [pack EXCEPT !.more = FALSE]
      BY <1>4, <1>10 DEF Arrived
    <3>2. CASE q = [pack EXCEPT !.more = FALSE]
      <4>1. q.index = pack.index /\ pack.index \in Int
        BY <1>2, <3>2 DEF Pending
      <4> QED BY <4>1
    <3>3. CASE q \notin G
      <4>1. ~(q.index < pack.index)
        BY <1>1, <1>2, <1>10, <2>1, <3>3 DEF Reports!Earlier
      <4>2. q.index \in Int /\ pack.index \in Int
        BY <1>2, <2>1 DEF Pending
      <4> QED BY <4>1, <4>2
    <3> QED BY <3>1, <3>2, <3>3
  <2>2. CASE q \notin rtp
    <3>1. q = [pack EXCEPT !.more = FALSE]
      BY <1>4, <1>10, <2>2 DEF Arrived
    <3>2. q.index = pack.index /\ pack.index \in Int
      BY <1>2, <3>1 DEF Pending
    <3> QED BY <3>2
  <2> QED BY <2>1, <2>2
<1> QED BY <1>2, <1>8, <1>9, <1>10

LEMMA ReceiveRTPStep == \A p \in Hosts : \A pack : ReportInv /\ Reports!ReceiveRTP(p, pack) => ReportInv'
<1> SUFFICES ASSUME NEW p \in Hosts, NEW pack, ReportInv, Reports!ReceiveRTP(p, pack) PROVE ReportInv'
  OBVIOUS
<1>1. UNCHANGED <<session, count, rtcp>>
  BY DEF Reports!ReceiveRTP
<1>2. Shrinks /\ pack \in Pending /\ pack \in rtp /\ pack.to = p
  BY Arrival
<1>3. CASE Reports!IsOwn(p, pack.ssrc)
  <2>1. Reports!OwnCollision(p)
    BY <1>3 DEF Reports!ReceiveRTP
  <2>2. DOMAIN rtcp' = Hosts
    BY <1>1 DEF ReportInv, Drawn
  <2>3. Drawn' /\ Numbered' /\ Delivered' /\ LostKept
    BY <1>1, <1>2, <2>1, <2>2, CollisionStep DEF ReportInv
  <2> QED BY <1>1, <2>3, SaidStays DEF ReportInv
<1>4. CASE ~Reports!IsOwn(p, pack.ssrc)
  <2>1. PICK x, old : x = pack.ssrc /\ old = Reports!Entry(p, x)
    OBVIOUS
  <2>2. PICK e : e = Reports!ProcessRTPPacket(old, pack)
    OBVIOUS
  <2>3. PICK F : F = Reports!Put(table[p], x, e)
    OBVIOUS
  <2>4. table' = [table EXCEPT ![p] = F] /\ UNCHANGED <<ssrc, drawn, seqnr>>
    BY <1>4, <2>1, <2>2, <2>3 DEF Reports!ReceiveRTP, Reports!identityVars, ReportInv, Drawn
  <2>5. Member(old) /\ (p = "sender" => old.RRinf.packetslost = old.RRinf.truth)
    BY <2>1, EntryIs DEF ReportInv, Said, LossIsReported, Reports!LossIsReported
  <2>6. Member(e) /\ e.RRinf = old.RRinf /\ e.stats = Reports!ProcessPacket(old.stats, pack, ~old.validated)
    BY <1>2, <2>2, <2>5, ProcessMember
  <2>7. DOMAIN F = DOMAIN table[p] \cup {x} /\ F[x] = e /\ \A y \in DOMAIN F : y # x => F[y] = table[p][y]
    BY <2>3 DEF Reports!Put
  <2>8. \A y \in DOMAIN F : Member(F[y])
    BY <2>6, <2>7 DEF ReportInv, Drawn, MembersOf
  <2>9. /\ DOMAIN table' = Hosts /\ table'[p] = F /\ \A q \in Hosts : q # p => table'[q] = table[q]
        /\ \A q \in Hosts : \A y \in MembersOf(q)' : Member(table'[q][y])
    BY <2>4, <2>8, TableStep DEF ReportInv
  <2>10. Drawn'
    BY <1>1, <1>2, <2>4, <2>9 DEF ReportInv, Drawn, Shrinks
  <2>11. LostKept
    <3>1. CASE p = "sender"
      BY <2>5, <2>6, <2>7, <2>9, <3>1 DEF LostKept
    <3>2. CASE p # "sender"
      BY <2>9, <3>2 DEF LostKept, Hosts
    <3> QED BY <3>1, <3>2
  <2>12. Said'
    BY <1>1, <2>11, SaidStays DEF ReportInv
  <2>13. CASE p = "sender"
    <3>1. EntriesKept
      BY <2>9, <2>13, SameIsSame DEF EntriesKept, Hosts
    <3> QED BY <1>1, <1>2, <2>4, <2>10, <2>12, <3>1, NumberedKept, DeliveredKept DEF ReportInv
  <2>14. CASE p = "receiver"
    <3>1. PICK s, t : s = old.stats /\ t = e.stats
      OBVIOUS
    <3>2. s \in Counts /\ Kept(s) /\ (~old.validated) \in BOOLEAN
      BY <2>5, <3>1 DEF Member
    <3>3. pack \in OnTheWay /\ pack.index \in 1..count /\ x \in 0..drawn
      BY <1>2, <2>1, <2>14 DEF OnTheWay, Way, ReportInv, Numbered
    <3>4. /\ x \in MembersOf("receiver") /\ s = table["receiver"][x].stats
          \/ s = Reports!NewStats
      BY <2>1, <2>14, <3>1, NewIsKept DEF Reports!Entry, MembersOf
    <3>5. PICK o \in Int : NumberedFrom(x, o)
      BY <3>3 DEF ReportInv, Numbered
    <3>6. count \in Nat /\ 2 * count < SeqMod /\ session.wraps \in BOOLEAN
      BY DrawnBounds DEF ReportInv
    <3>7. s.sentdata => Accepted(x) /\ s = table["receiver"][x].stats
      BY <3>4, NewIsKept DEF Accepted
    <3>8. Follows(s, pack, session.wraps, count)
      <4>1. s.sentdata => Offset(session.wraps, pack.seqnr, pack.index) = Shown(session.wraps, s)
        BY <2>1, <3>3, <3>5, <3>7 DEF NumberedFrom
      <4>2. s.sentdata => (session.wraps => Last(s) <= pack.index)
        BY <2>1, <3>3, <3>7 DEF ReportInv, Numbered
      <4> QED BY <3>3, <3>6, <4>1, <4>2 DEF Follows
    <3>9. Counting(s, count) /\ s.packetsreceived + ToCome <= 2 * count /\ s.packetsreceived \in Nat
      <4>1. ToCome \in Nat /\ ToCome <= 2 * count
        BY CopiesCount DEF ReportInv, Delivered, Drawn, ToCome
      <4>2. CASE s = Reports!NewStats
        BY <3>6, <4>1, <4>2, NewIsKept
      <4>3. CASE x \in MembersOf("receiver") /\ s = table["receiver"][x].stats
        BY <3>2, <4>3 DEF ReportInv, Delivered, Counts
      <4> QED BY <3>4, <4>2, <4>3
    <3>10. Right(s, t, pack, session.wraps, count)
      BY <1>2, <2>6, <3>1, <3>2, <3>6, <3>8, <3>9, ProcessRight
    <3>11. ToCome' + 1 <= ToCome /\ ToCome \in Nat /\ ToCome' \in Nat
      BY <2>14, Arrival, CopiesCount DEF Shrinks, ReportInv, Drawn, ToCome
    <3>12. \A y \in MembersOf("receiver")' : \/ y = x /\ table'["receiver"][y].stats = t
                                             \/ y # x /\ y \in MembersOf("receiver") /\ table'["receiver"][y] = table["receiver"][y]
      BY <2>7, <2>9, <2>14, <3>1 DEF MembersOf
    <3>13. Delivered'
      <4>1. ToCome' <= 2 * count'
        BY <1>1, <3>6, <3>11 DEF ReportInv, Delivered
      <4>2. ASSUME NEW y \in MembersOf("receiver")'
            PROVE  /\ Counting(table'["receiver"][y].stats, count')
                   /\ table'["receiver"][y].stats.packetsreceived + ToCome' <= 2 * count'
        <5>1. CASE y = x /\ table'["receiver"][y].stats = t
          <6>1. t.packetsreceived \in Nat /\ t.packetsreceived <= s.packetsreceived + 1 /\ Counting(t, count)
            BY <3>10 DEF Right, Counts
          <6>2. t.packetsreceived + ToCome' <= 2 * count
                    <7>1. PICK a \in Nat, b \in Nat, c \in Nat, d \in Nat, n \in Nat :
                    /\ a = ToCome /\ b = ToCome' /\ c = s.packetsreceived /\ d = t.packetsreceived /\ n = count
                    /\ b + 1 <= a /\ d <= c + 1 /\ c + a <= 2 * n
              BY <3>6, <3>9, <3>11, <6>1
            <7>2. \A u, v, i, j, k \in Nat : v + 1 <= u /\ j <= i + 1 /\ i + u <= 2 * k => j + v <= 2 * k
              OBVIOUS
            <7>3. d + b <= 2 * n
              BY <7>1, <7>2
            <7> QED BY <7>1, <7>3
          <6> QED BY <1>1, <5>1, <6>1, <6>2
        <5>2. CASE y \in MembersOf("receiver") /\ table'["receiver"][y] = table["receiver"][y]
          <6>1. Counting(table["receiver"][y].stats, count) /\ table["receiver"][y].stats.packetsreceived + ToCome <= 2 * count
            BY <5>2 DEF ReportInv, Delivered
          <6>2. table["receiver"][y].stats.packetsreceived \in Nat
            BY <5>2 DEF ReportInv, Drawn, Member, Kept, Counts, Hosts
          <6>3. table["receiver"][y].stats.packetsreceived + ToCome' <= 2 * count
            <7>1. PICK u \in Nat, v \in Nat, i \in Nat, k \in Nat :
                    /\ u = ToCome /\ v = ToCome' /\ i = table["receiver"][y].stats.packetsreceived /\ k = count
                    /\ v + 1 <= u /\ i + u <= 2 * k
              BY <3>6, <3>11, <6>1, <6>2
            <7>2. \A a, b, c, d \in Nat : b + 1 <= a /\ c + a <= 2 * d => c + b <= 2 * d
              OBVIOUS
            <7>3. i + v <= 2 * k
              BY <7>1, <7>2
            <7> QED BY <7>1, <7>3
          <6> QED BY <1>1, <5>2, <6>1, <6>3
        <5> QED BY <3>12, <4>2, <5>1, <5>2
      <4> QED BY <4>1, <4>2 DEF Delivered
    <3>14. \A y : Accepted(y)' => \/ y = x /\ table'["receiver"][y].stats = t /\ t.sentdata
                                  \/ y # x /\ Accepted(y) /\ table'["receiver"][y] = table["receiver"][y]
      BY <3>12 DEF Accepted, MembersOf
    <3>15. ASSUME NEW y \in 0..drawn'
           PROVE  \E u \in Int : NumberedFrom(y, u)'
      <4>1. PICK u \in Int : NumberedFrom(y, u)
        BY <2>4 DEF ReportInv, Numbered
      <4>2. \A q \in OnTheWay' : q.ssrc = y => Offset(session'.wraps, q.seqnr, q.index) = u
        BY <1>1, <1>2, <4>1 DEF Shrinks, NumberedFrom
      <4>3. ssrc'["sender"] = y => Offset(session'.wraps, seqnr', count' + 1) = u
        BY <1>1, <2>4, <4>1 DEF NumberedFrom
      <4>4. ASSUME Accepted(y)' PROVE Shown(session'.wraps, table'["receiver"][y].stats) = u
        <5>1. CASE y = x /\ table'["receiver"][y].stats = t /\ t.sentdata
          <6>1. Shown(session.wraps, t) = Offset(session.wraps, pack.seqnr, pack.index)
            BY <3>10, <5>1 DEF Right
          <6>2. Offset(session.wraps, pack.seqnr, pack.index) = u
            BY <2>1, <3>3, <4>1, <5>1 DEF NumberedFrom
          <6> QED BY <1>1, <5>1, <6>1, <6>2
        <5>2. CASE Accepted(y) /\ table'["receiver"][y] = table["receiver"][y]
          BY <1>1, <4>1, <5>2 DEF NumberedFrom
        <5> QED BY <3>14, <4>4, <5>1, <5>2
      <4> QED BY <4>2, <4>3, <4>4 DEF NumberedFrom
    <3>16. \A q \in OnTheWay' : q.ssrc \in 0..drawn' /\ q.index \in 1..count'
      BY <1>1, <1>2, <2>4 DEF Shrinks, ReportInv, Numbered
    <3>17. \A y \in MembersOf("receiver")' : Accepted(y)' => y \in 0..drawn'
      BY <2>4, <3>3, <3>14 DEF ReportInv, Numbered, Accepted
    <3>18. ~session'.wraps => seqnr' <= count'
      BY <1>1, <2>4 DEF ReportInv, Numbered
    <3>19. ASSUME session'.wraps, NEW q \in OnTheWay', Accepted(q.ssrc)'
           PROVE  Last(table'["receiver"][q.ssrc].stats) <= q.index
      <4>1. CASE q.ssrc = x /\ table'["receiver"][q.ssrc].stats = t /\ t.sentdata
        <5>1. Last(t) = pack.index
          BY <1>1, <3>10, <3>19, <4>1 DEF Right
        <5>2. q \in rtp' /\ q.to = "receiver"
          BY DEF OnTheWay, Way
        <5>3. pack.index <= q.index
          BY <1>1, <2>1, <2>14, <3>19, <4>1, <5>2, Arrival
        <5> QED BY <4>1, <5>1, <5>3
      <4>2. CASE Accepted(q.ssrc) /\ table'["receiver"][q.ssrc] = table["receiver"][q.ssrc]
        <5>1. PICK r \in OnTheWay : r.ssrc = q.ssrc /\ r.index = q.index
          BY <1>2 DEF Shrinks
        <5> QED BY <1>1, <3>19, <4>2, <5>1 DEF ReportInv, Numbered
      <4> QED BY <3>14, <3>19, <4>1, <4>2
    <3>20. Numbered'
      BY <3>15, <3>16, <3>17, <3>18, <3>19 DEF Numbered
    <3> QED BY <2>10, <2>12, <3>13, <3>20 DEF ReportInv
  <2> QED BY <2>13, <2>14 DEF Hosts
<1> QED BY <1>3, <1>4

LEMMA ReportInit == Reports!Init => ReportInv
<1> SUFFICES ASSUME Reports!Init PROVE ReportInv
  OBVIOUS
<1>1. /\ session \in ReportTrials /\ ssrc = [sender |-> 1, receiver |-> IF session.same THEN 1 ELSE 2] /\ drawn = 3
      /\ count = 0 /\ seqnr = (IF session.wraps THEN SeqMod - 2 ELSE 0)
      /\ rtp = {} /\ rtcp = [p \in Reports!Sessions |-> NULL]
      /\ table = [sender |-> IF session.before
                             THEN Reports!Put(Reports!Put(<<>>, 1, Reports!OwnEntry), 3, Reports!NewEntry)
                             ELSE Reports!Put(<<>>, 1, Reports!OwnEntry),
                  receiver |-> Reports!Put(<<>>, ssrc["receiver"], Reports!OwnEntry)]
  BY DEF Reports!Init
<1>2. \A q \in Hosts : \A x \in DOMAIN table[q] : table[q][x] \in {Reports!OwnEntry, Reports!NewEntry}
  <2>1. PICK A : A = Reports!Put(<<>>, 1, Reports!OwnEntry)
    OBVIOUS
  <2>2. \A x \in DOMAIN A : A[x] = Reports!OwnEntry
    BY <2>1 DEF Reports!Put
  <2>3. PICK B : B = Reports!Put(A, 3, Reports!NewEntry)
    OBVIOUS
  <2>4. \A x \in DOMAIN B : B[x] \in {Reports!OwnEntry, Reports!NewEntry}
    BY <2>2, <2>3 DEF Reports!Put
  <2>5. PICK C : C = Reports!Put(<<>>, ssrc["receiver"], Reports!OwnEntry)
    OBVIOUS
  <2>6. \A x \in DOMAIN C : C[x] = Reports!OwnEntry
    BY <2>5 DEF Reports!Put
  <2>7. table["sender"] \in {A, B} /\ table["receiver"] = C
    BY <1>1, <2>1, <2>3, <2>5
  <2> QED BY <2>2, <2>4, <2>6, <2>7 DEF Hosts
<1>3. \A q \in Hosts : \A x \in MembersOf(q) :
        /\ Member(table[q][x]) /\ table[q][x].stats = Reports!NewStats
        /\ table[q][x].RRinf = Reports!NoReport
  BY <1>2, NewIsKept DEF MembersOf
<1>4. \A x : ~Accepted(x)
  BY <1>3, NewIsKept DEF Accepted, Hosts
<1>5. session.wraps \in BOOLEAN /\ SeqMod \in Nat /\ 1 < SeqMod /\ 0 <= session.packets
  BY <1>1, ReportConstants
<1>6. seqnr \in 0..SeqMod - 1 /\ seqnr \in Int
  BY <1>1, <1>5
<1>7. Drawn
  <2>1. DOMAIN table = Hosts /\ DOMAIN rtcp = Hosts
    BY <1>1, ReportConstants DEF Hosts
  <2>2. ssrc \in [Hosts -> Nat] /\ \A p \in Hosts : ssrc[p] <= drawn
    BY <1>1 DEF Hosts
  <2>3. IsFiniteSet(rtp)
    BY <1>1, FS_EmptySet
  <2> QED BY <1>1, <1>3, <1>5, <1>6, <2>1, <2>2, <2>3 DEF Drawn
<1>8. OnTheWay = {} /\ ToCome = 0
  <2>1. Way(rtp) = {} /\ Again(rtp) = {}
    BY <1>1 DEF Way, Again
  <2>2. Cardinality({}) = 0
    BY FS_EmptySet
  <2> QED BY <2>1, <2>2 DEF OnTheWay, ToCome, Copies
<1>9. ASSUME NEW x \in 0..drawn
      PROVE  \E o \in Int : NumberedFrom(x, o)
  <2>1. Offset(session.wraps, seqnr, count + 1) \in Int
    <3>1. seqnr - (count + 1) \in Int /\ SeqMod \in Nat \ {0}
      BY <1>1, <1>5, <1>6
    <3> QED BY <3>1, ModRange DEF Offset
  <2> QED BY <1>4, <1>8, <2>1 DEF NumberedFrom
<1>10. Numbered
  BY <1>1, <1>4, <1>8, <1>9 DEF Numbered
<1>11. Delivered
  <2>1. ASSUME NEW x \in MembersOf("receiver")
        PROVE  /\ Counting(table["receiver"][x].stats, count)
               /\ table["receiver"][x].stats.packetsreceived + ToCome <= 2 * count
    <3>1. table["receiver"][x].stats = Reports!NewStats
      BY <1>3 DEF Hosts
    <3>2. Counting(Reports!NewStats, count) /\ Reports!NewStats.packetsreceived = 0
      BY NewIsKept
    <3>3. 0 + 0 <= 2 * 0
      OBVIOUS
    <3> QED BY <1>1, <1>8, <3>1, <3>2, <3>3
  <2>2. ToCome <= 2 * count
    BY <1>1, <1>8
  <2> QED BY <2>1, <2>2 DEF Delivered
<1>12. Said
  <2>1. \A p \in Hosts : rtcp[p] = NULL
    BY <1>1, ReportConstants
  <2>2. Reports!LossIsTrue
    BY <1>3, NewIsKept DEF Reports!LossIsTrue, MembersOf, Hosts
  <2>3. Reports!FractionFits
    BY <2>1, ReportConstants DEF Reports!FractionFits
  <2> QED BY <2>1, <2>2, <2>3 DEF Said, LossIsReported, Reports!LossIsReported, Hosts
<1> QED BY <1>7, <1>10, <1>11, <1>12 DEF ReportInv

LEMMA ReportNext == ReportInv /\ [Reports!Next]_(Reports!vars) => ReportInv'
<1> SUFFICES ASSUME ReportInv, [Reports!Next]_(Reports!vars) PROVE ReportInv'
  OBVIOUS
<1>1. ASSUME NEW p \in Hosts, Reports!ProcessPolledData(p) PROVE ReportInv'
  BY <1>1, ReceiveRTPStep, ReceiveRTCPStep, RemoveBYEStep, SendReportStep, SendBYEStep DEF Reports!ProcessPolledData
<1>2. CASE Reports!Next
  BY <1>1, <1>2, SayHiStep, SendFrameStep, SendClockOffsetStep, ReportConstants DEF Reports!Next
<1>3. CASE UNCHANGED Reports!vars
  <2>1. UNCHANGED <<session, ssrc, drawn, table, seqnr, count, rtp, rtcp>>
    BY <1>3 DEF Reports!vars, Reports!identityVars, Reports!sendVars
  <2>2. Said'
    BY <2>1, TableStays, SaidStays DEF ReportInv
  <2> QED BY <2>1, <2>2, QuietStep DEF ReportInv, Drawn
<1> QED BY <1>2, <1>3

(* The report blocks tell of losses as they are, for every stream that is  *)
(* shorter than half the range of the numbers: the cumulative count is     *)
(* what is missing at the receiver, less what came twice or from before,   *)
(* and a fraction has eight bits (rtpsourcedata.cpp:54-230,                *)
(* rtcppacketbuilder.cpp:361-436).                                         *)
THEOREM LossesAreReported == ReportSpec => []LossIsReported
<1>1. ReportInv => LossIsReported
  BY DEF ReportInv, Said
<1> QED BY <1>1, ReportInit, ReportNext, PTL DEF ReportSpec, Reports!Spec
=============================================================================
