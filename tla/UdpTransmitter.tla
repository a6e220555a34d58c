---------------------------- MODULE UdpTransmitter ----------------------------
(***************************************************************************)
(* RTPUDPv4Transmitter (rtpudpv4transmitter.cpp), as far as it keeps       *)
(* addresses: the lists of what is accepted or ignored, the multicast      *)
(* groups, and whom packets are taken from.  AudioSync accepts            *)
(* everything and joins no group.  How its threads wait and poll is in     *)
(* RtpSession, how it is created in SessionCreation.                       *)
(*                                                                         *)
(* Every call runs under mainmutex, on a transmitter that is created.      *)
(***************************************************************************)
EXTENDS Naturals, FiniteSets

CONSTANTS
  Hosts, Ports,   \* a port that a call gives as 0 stands for all of them
  Groups,         \* IP addresses of multicast groups
  MaxPending      \* bound: datagrams that were not read yet

Sockets == {"rtpsock", "rtcpsock"}

VARIABLES
  receivemode,
  acceptignoreinfo,  \* PortInfo by host: whether all ports, and its portlist
  multicastgroups,
  memberships,       \* groups a socket has joined, in the system
  pending,           \* datagrams in the sockets: host and port
  rawpacketlist,
  asked, excepted    \* history: addresses that should be listed, and ports
                     \* that were deleted while all were listed

listVars == <<receivemode, acceptignoreinfo, asked, excepted>>
groupVars == <<multicastgroups, memberships>>
packetVars == <<pending, rawpacketlist>>
vars == <<listVars, groupVars, packetVars>>

Init ==
  /\ receivemode = "AcceptAll" /\ acceptignoreinfo = <<>>
  /\ multicastgroups = {} /\ memberships = [s \in Sockets |-> {}]
  /\ pending = {} /\ rawpacketlist = {}
  /\ asked = {} /\ excepted = {}
-----------------------------------------------------------------------------
(* Accept and ignore lists.                                                *)

Put(f, x, e) == [y \in DOMAIN f \cup {x} |-> IF y = x THEN e ELSE f[y]]

ClearAcceptIgnoreInfo ==
  acceptignoreinfo' = <<>> /\ asked' = {} /\ excepted' = {}

SetReceiveMode(m) ==
  /\ receivemode' = m
  /\ IF m # receivemode THEN ClearAcceptIgnoreInfo
     ELSE UNCHANGED <<acceptignoreinfo, asked, excepted>>
  /\ UNCHANGED <<groupVars, packetVars>>

ClearList == ClearAcceptIgnoreInfo /\ UNCHANGED <<receivemode, groupVars, packetVars>>

ClearAcceptList == receivemode = "AcceptSome" /\ ClearList
ClearIgnoreList == receivemode = "IgnoreSome" /\ ClearList

AllPorts == [all |-> TRUE, portlist |-> {}]
NoPorts == [all |-> FALSE, portlist |-> {}]
PortInfo(host) == IF host \in DOMAIN acceptignoreinfo THEN acceptignoreinfo[host] ELSE NoPorts

\* ProcessAddAcceptIgnoreEntry.  A port is not added when all are listed, not
\* even one that was deleted since.
WithPort(info, port) ==
  IF port = 0 THEN AllPorts
  ELSE IF info.all THEN info
  ELSE [info EXCEPT !.portlist = @ \cup {port}]

AddToList(host, port) ==
  /\ acceptignoreinfo' = Put(acceptignoreinfo, host, WithPort(PortInfo(host), port))
  /\ LET ports == IF port = 0 THEN Ports ELSE {port}
     IN /\ asked' = asked \cup ({host} \X ports)
        /\ excepted' = IF port = 0 THEN excepted \ ({host} \X Ports) ELSE excepted
  /\ UNCHANGED <<receivemode, groupVars, packetVars>>

\* Mutated form: a port is always taken out of the list of ports.
WithoutPortAlways(info, port) ==
  IF port = 0 THEN NoPorts
  ELSE [info EXCEPT !.portlist = @ \ {port}]

\* ProcessDeleteAcceptIgnoreEntry: when all ports are listed the portlist
\* holds those that are not.
WithoutPort(info, port) ==
  IF port = 0 THEN NoPorts
  ELSE IF info.all THEN [info EXCEPT !.portlist = @ \cup {port}]
  ELSE [info EXCEPT !.portlist = @ \ {port}]

DeleteFromList(host, port) ==
  /\ host \in DOMAIN acceptignoreinfo
  /\ acceptignoreinfo' = Put(acceptignoreinfo, host, WithoutPort(PortInfo(host), port))
  /\ LET ports == IF port = 0 THEN Ports ELSE {port}
     IN /\ asked' = asked \ ({host} \X ports)
        /\ excepted' = IF port = 0 THEN excepted \ ({host} \X Ports)
                       ELSE IF PortInfo(host).all THEN excepted \cup {<<host, port>>}
                       ELSE excepted
  /\ UNCHANGED <<receivemode, groupVars, packetVars>>

AddToAcceptList(host, port) == receivemode = "AcceptSome" /\ AddToList(host, port)
AddToIgnoreList(host, port) == receivemode = "IgnoreSome" /\ AddToList(host, port)
DeleteFromAcceptList(host, port) == receivemode = "AcceptSome" /\ DeleteFromList(host, port)
DeleteFromIgnoreList(host, port) == receivemode = "IgnoreSome" /\ DeleteFromList(host, port)

\* ShouldAcceptData, for both modes
Listed(host, port) ==
  /\ host \in DOMAIN acceptignoreinfo
  /\ acceptignoreinfo[host].all # (port \in acceptignoreinfo[host].portlist)

ShouldAcceptData(host, port) == Listed(host, port) = (receivemode = "AcceptSome")
-----------------------------------------------------------------------------
(* Packets.                                                                *)

Arrives(host, port) ==
  /\ Cardinality(pending) < MaxPending
  /\ pending' = pending \cup {<<host, port>>}
  /\ UNCHANGED <<listVars, groupVars, rawpacketlist>>

\* PollSocket: reads all there is.
PollSocket ==
  /\ rawpacketlist' =
       rawpacketlist \cup {a \in pending : receivemode = "AcceptAll" \/ ShouldAcceptData(a[1], a[2])}
  /\ pending' = {}
  /\ UNCHANGED <<listVars, groupVars>>

GetNextPacket ==
  /\ \E a \in rawpacketlist : rawpacketlist' = rawpacketlist \ {a}
  /\ UNCHANGED <<listVars, groupVars, pending>>
-----------------------------------------------------------------------------
(* Multicast groups.  The system may refuse either socket.                 *)

Joined(group, refused) ==
  memberships' = [s \in Sockets |-> memberships[s] \cup (IF refused = "none" THEN {group} ELSE {})]

JoinMulticastGroup(group, refused) ==
  /\ group \notin multicastgroups
  /\ Joined(group, refused)
  /\ multicastgroups' = multicastgroups \cup (IF refused = "none" THEN {group} ELSE {})
  /\ UNCHANGED <<listVars, packetVars>>

LeaveMulticastGroup(group) ==
  /\ group \in multicastgroups
  /\ multicastgroups' = multicastgroups \ {group}
  /\ memberships' = [s \in Sockets |-> memberships[s] \ {group}]
  /\ UNCHANGED <<listVars, packetVars>>

LeaveAllMulticastGroups ==
  /\ multicastgroups' = {}
  /\ memberships' = [s \in Sockets |-> memberships[s] \ multicastgroups]
  /\ UNCHANGED <<listVars, packetVars>>

Next ==
  \/ \E m \in {"AcceptAll", "AcceptSome", "IgnoreSome"} : SetReceiveMode(m)
  \/ ClearAcceptList \/ ClearIgnoreList
  \/ \E host \in Hosts, port \in Ports \cup {0} :
       \/ AddToAcceptList(host, port) \/ AddToIgnoreList(host, port)
       \/ DeleteFromAcceptList(host, port) \/ DeleteFromIgnoreList(host, port)
  \/ \E host \in Hosts, port \in Ports : Arrives(host, port)
  \/ PollSocket \/ GetNextPacket
  \/ \E group \in Groups :
       \/ \E refused \in Sockets \cup {"none"} : JoinMulticastGroup(group, refused)
       \/ LeaveMulticastGroup(group)
  \/ LeaveAllMulticastGroups
-----------------------------------------------------------------------------
(* Properties.                                                             *)

\* However all ports and single ones are added and deleted, the list is what
\* it was asked to be, but for ports that were deleted while all of them were
\* listed: adding one of those has no effect.
ListsWhatWasAsked ==
  \A host \in Hosts, port \in Ports :
    /\ Listed(host, port) => <<host, port>> \in asked
    /\ <<host, port>> \in asked => Listed(host, port) \/ <<host, port>> \in excepted

\* The two sockets are members of the groups of the table and of no others,
\* whichever of them the system refuses.
MembershipsMatch == \A s \in Sockets : memberships[s] = multicastgroups
=============================================================================
