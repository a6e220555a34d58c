---------------------------- MODULE LocalAddresses ----------------------------
(***************************************************************************)
(* What a UDP transmitter takes itself for (rtpudpv4transmitter.cpp; the   *)
(* transmitter for IPv6 does the same): the addresses it is created with   *)
(* and the name it gives for one of them, which a session makes its CNAME  *)
(* of.  Its own packets are those from one of these addresses.             *)
(***************************************************************************)
CONSTANTS
  Interfaces, Named,   \* own addresses: of the interfaces, and by the DNS
  Loopback, NULL

VARIABLES
  created,
  localIPs,
  localhostname        \* the address it is the name of

Init == created = FALSE /\ localIPs = {} /\ localhostname = NULL

\* GetLocalIPList_Interfaces: false when there is none.
GetLocalIPListInterfaces == {ips \in SUBSET Interfaces : ips # {}}

GetLocalIPListDNS == SUBSET Named

AddLoopbackAddress(ips) == ips \cup {Loopback}

\* The DNS is only asked when the interfaces give no address.
CreateLocalIPList == {AddLoopbackAddress(ips) : ips \in GetLocalIPListInterfaces \cup GetLocalIPListDNS}

\* The list is made when the caller gives none.
AddressLists == CreateLocalIPList \cup {given \in SUBSET Named : given # {}}

Create ==
  /\ ~created /\ created' = TRUE
  /\ localIPs' \in AddressLists /\ localhostname' = NULL

\* It may fail before the list is made, or after, which leaves the list.
CreateFails ==
  /\ ~created
  /\ localIPs' \in {localIPs} \cup AddressLists
  /\ UNCHANGED <<created, localhostname>>

Destroy == created /\ created' = FALSE /\ localIPs' = {} /\ localhostname' = NULL

\* A name that one of the addresses has, or the first address.  It is kept,
\* even when the caller's buffer is too small for it.
GetLocalHostName ==
  /\ created /\ localIPs # {}
  /\ IF localhostname = NULL THEN localhostname' \in localIPs ELSE UNCHANGED localhostname
  /\ UNCHANGED <<created, localIPs>>

Next == Create \/ CreateFails \/ Destroy \/ GetLocalHostName

\* For its own ports
ComesFromThisTransmitter(host) == created /\ host \in localIPs

\* The name it gives is always one of its own addresses, also when it was
\* destroyed and created again with others in between.
NamesItself == localhostname # NULL => ComesFromThisTransmitter(localhostname)
=============================================================================
