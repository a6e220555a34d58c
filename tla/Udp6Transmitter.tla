---------------------------- MODULE Udp6Transmitter ----------------------------
(***************************************************************************)
(* RTPUDPv6Transmitter (rtpudpv6transmitter.cpp), the transmitter for IPv6 *)
(* that a session may be given instead of the one for IPv4: its life cycle,*)
(* its waiting thread, whom it sends to, and what it takes itself for.     *)
(* Its lists, groups and packets are those of UdpTransmitter, behind the   *)
(* check that the transmitter is created.                                  *)
(*                                                                         *)
(* A call is one step under mainmutex, but for WaitForIncomingData, which  *)
(* leaves it while it waits, and for Destroy, which waits for that.        *)
(***************************************************************************)
EXTENDS Naturals, FiniteSets

CONSTANTS
  Hosts, Ports, Groups, MaxPending,
  Named,               \* own addresses by the DNS
  Loopback,            \* in6addr_loopback
  NULL,
  MaxAborts            \* bound: bytes in the pipe of abortdesc

VARIABLES
  receivemode, acceptignoreinfo, multicastgroups, memberships, pending, rawpacketlist, asked, excepted,
  created,
  waitingfordata,
  waiter,              \* the thread in WaitForIncomingData
  destroying,          \* Destroy waits for waitmutex
  aborts,              \* bytes in the pipe of abortdesc
  destinations,
  localIPs,
  localhostname        \* the address it is the name of

Lists == INSTANCE UdpTransmitter

\* Without RTP_SUPPORT_IFADDRS, as in rtpconfig.h:93, interfaces are not asked.
OwnAddresses == INSTANCE LocalAddresses WITH Interfaces <- {}

listsVars == <<receivemode, acceptignoreinfo, multicastgroups, memberships, pending, rawpacketlist, asked,
               excepted>>
waitVars == <<waitingfordata, waiter, destroying, aborts>>
ownVars == <<destinations, localIPs, localhostname>>
lifeVars == <<created, waitVars, ownVars>>
vars == <<listsVars, lifeVars>>

Init ==
  /\ Lists!Init
  /\ waitingfordata = FALSE /\ waiter = "out" /\ destroying = FALSE /\ aborts = 0
  /\ destinations = {} /\ OwnAddresses!Init
-----------------------------------------------------------------------------
(* Life cycle.                                                             *)

CreateLocalIPList == OwnAddresses!CreateLocalIPList
AddressLists == CreateLocalIPList \cup {given \in SUBSET Named : given # {}}

\* Sockets and pipe are closed again, the list of addresses may have been made.
CreateFails ==
  /\ ~created
  /\ localIPs' \in {localIPs} \cup AddressLists
  /\ UNCHANGED <<listsVars, created, waitVars, destinations, localhostname>>

\* No session creates its transmitter while it destroys it.
Create ==
  /\ ~created /\ ~destroying
  /\ created' = TRUE /\ waitingfordata' = FALSE /\ aborts' = 0
  /\ localIPs' \in AddressLists /\ localhostname' = NULL
  /\ receivemode' = "AcceptAll"
  /\ UNCHANGED <<acceptignoreinfo, asked, excepted, multicastgroups, memberships, pending, rawpacketlist,
                 waiter, destroying, destinations>>

ClearAcceptIgnoreInfo == Lists!ClearAcceptIgnoreInfo
FlushPackets == rawpacketlist' = {}

\* The sockets are closed, which leaves their groups and what is pending; a
\* thread that waits gets a byte before the pipe is closed, too.
Destroy ==
  /\ ~destroying /\ OwnAddresses!Destroy /\ aborts' = 0
  /\ waiter' = IF waiter = "asleep" THEN "aborted" ELSE waiter
  /\ destroying' = waitingfordata
  /\ destinations' = {}
  /\ multicastgroups' = {} /\ memberships' = [s \in Lists!Sockets |-> {}]
  /\ ClearAcceptIgnoreInfo /\ FlushPackets /\ pending' = {}
  /\ UNCHANGED <<receivemode, waitingfordata>>

DestroyReturns ==
  /\ destroying /\ waiter = "out" /\ destroying' = FALSE
  /\ UNCHANGED <<listsVars, created, waitingfordata, waiter, aborts, ownVars>>

GetLocalHostName ==
  /\ OwnAddresses!GetLocalHostName
  /\ UNCHANGED <<listsVars, waitVars, destinations>>

ComesFromThisTransmitter(host) == OwnAddresses!ComesFromThisTransmitter(host)
-----------------------------------------------------------------------------
(* Waiting.                                                                *)

WaitForIncomingData ==
  /\ created /\ waiter = "out" /\ ~waitingfordata
  /\ waitingfordata' = TRUE /\ waiter' = "asleep"
  /\ UNCHANGED <<listsVars, created, destroying, aborts, ownVars>>

\* select returns for a byte, or for a datagram, the time or an error.
Wakes ==
  /\ waiter = "asleep"
  /\ (waiter' = "aborted" /\ aborts > 0) \/ waiter' = "returned"
  /\ UNCHANGED <<listsVars, created, waitingfordata, destroying, aborts, ownVars>>

\* One byte is read, however many there are.
WaitReturns ==
  /\ waiter \in {"aborted", "returned"}
  /\ waiter' = "out" /\ waitingfordata' = FALSE
  /\ aborts' = IF created /\ waiter = "aborted" THEN aborts - 1 ELSE aborts
  /\ UNCHANGED <<listsVars, created, destroying, ownVars>>

AbortWait ==
  /\ created /\ waitingfordata /\ aborts < MaxAborts
  /\ aborts' = aborts + 1
  /\ UNCHANGED <<listsVars, created, waitingfordata, waiter, destroying, ownVars>>
-----------------------------------------------------------------------------
(* Destinations.                                                           *)

AddDestination(host) ==
  /\ created /\ host \notin destinations
  /\ destinations' = destinations \cup {host}
  /\ UNCHANGED <<listsVars, created, waitVars, localIPs, localhostname>>

DeleteDestination(host) ==
  /\ created /\ host \in destinations
  /\ destinations' = destinations \ {host}
  /\ UNCHANGED <<listsVars, created, waitVars, localIPs, localhostname>>

ClearDestinations ==
  /\ created /\ destinations' = {}
  /\ UNCHANGED <<listsVars, created, waitVars, localIPs, localhostname>>
-----------------------------------------------------------------------------
(* What it has in common with the transmitter for IPv4.                    *)

ProcessAddAcceptIgnoreEntry(host, port) == Lists!AddToList(host, port)
ProcessDeleteAcceptIgnoreEntry(host, port) == Lists!DeleteFromList(host, port)

AddToAcceptList(host, port) == Lists!AddToAcceptList(host, port)
AddToIgnoreList(host, port) == Lists!AddToIgnoreList(host, port)
DeleteFromAcceptList(host, port) == Lists!DeleteFromAcceptList(host, port)
DeleteFromIgnoreList(host, port) == Lists!DeleteFromIgnoreList(host, port)
ClearAcceptList == Lists!ClearAcceptList
ClearIgnoreList == Lists!ClearIgnoreList
SetReceiveMode(m) == Lists!SetReceiveMode(m)

JoinMulticastGroup(group, refused) == Lists!JoinMulticastGroup(group, refused)
LeaveMulticastGroup(group) == Lists!LeaveMulticastGroup(group)
LeaveAllMulticastGroups == Lists!LeaveAllMulticastGroups

ShouldAcceptData(host, port) == receivemode = "AcceptAll" \/ Lists!ShouldAcceptData(host, port)

PollSocket ==
  /\ rawpacketlist' = rawpacketlist \cup {a \in pending : ShouldAcceptData(a[1], a[2])}
  /\ pending' = {}
  /\ UNCHANGED <<receivemode, acceptignoreinfo, asked, excepted, multicastgroups, memberships>>

GetNextPacket == Lists!GetNextPacket

OnLists ==
  \/ \E m \in {"AcceptAll", "AcceptSome", "IgnoreSome"} : SetReceiveMode(m)
  \/ \E host \in Hosts, port \in Ports \cup {0} :
       \/ AddToAcceptList(host, port) \/ AddToIgnoreList(host, port)
       \/ DeleteFromAcceptList(host, port) \/ DeleteFromIgnoreList(host, port)
  \/ ClearAcceptList \/ ClearIgnoreList
  \/ \E host \in Hosts, port \in Ports : Lists!Arrives(host, port)
  \/ PollSocket \/ GetNextPacket
  \/ \E group \in Groups :
       \/ \E refused \in Lists!Sockets \cup {"none"} : JoinMulticastGroup(group, refused)
       \/ LeaveMulticastGroup(group)
  \/ LeaveAllMulticastGroups

Next ==
  \/ Create \/ CreateFails \/ Destroy \/ DestroyReturns \/ GetLocalHostName
  \/ WaitForIncomingData \/ Wakes \/ WaitReturns \/ AbortWait
  \/ \E host \in Hosts : AddDestination(host) \/ DeleteDestination(host)
  \/ ClearDestinations
  \/ created /\ OnLists /\ UNCHANGED lifeVars
-----------------------------------------------------------------------------
(* Properties.                                                             *)

\* However often it is destroyed and created again, over whatever addresses:
\* nothing of an earlier life is left in its lists and groups, its name is one
\* of its own addresses, and no thread sleeps on closed sockets.
StartsAfresh ==
  /\ ~created => acceptignoreinfo = <<>> /\ multicastgroups = {} /\ rawpacketlist = {} /\ destinations = {}
  /\ localhostname # NULL => ComesFromThisTransmitter(localhostname)
  /\ waiter = "asleep" => created
=============================================================================
