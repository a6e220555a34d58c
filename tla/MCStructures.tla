----------------------------- MODULE MCStructures -----------------------------
(***************************************************************************)
(* The modules of one data structure or one object each, for TLC: a        *)
(* behaviour is one of them at work while the others rest in an initial    *)
(* state, so that their states are added, not multiplied.  They share no   *)
(* state in the program either: each is used through the components of     *)
(* modules of their own.                                                   *)
(***************************************************************************)
EXTENDS AudioFifo, ReaderWriterQueue, KeyHashTable

CONSTANTS
  Hosts, Ssrcs, OwnSsrcs, sendermultiplier, membermultiplier, byemultiplier, SELF, UNSET,
  Own, CnameLengths, ReasonLengths, AppLengths, PacketSizes, MaxCount, FULL,
  tmin, bandwidth, Sizes, Factors, MaxMembers, MaxByes, MaxLeaves,
  Sessions, FREE,
  PortNumbers, Groups, MaxPending,
  Interfaces, Named, Loopback, NULL, MaxPackets, MaxAborts,
  ItemLengths, Intervals, Cycle,
  Fixed, Changing, Values, PrivPrefixes, MaxPrivItems,
  Csrcs, MaxCsrcs, PayloadTypes, PayloadLengths, ExtensionLengths, MaxPackSizes, SeqNrs, NONE

\* The session and the missing address are no hosts.
ASSUME TableAssumption ==
  /\ SELF # UNSET /\ SELF \notin Hosts /\ UNSET \notin Hosts
  /\ {sendermultiplier, membermultiplier, byemultiplier} \subseteq Nat

ASSUME CreationAssumption == FREE \notin Sessions

\* The random factors are drawn from a range.
ASSUME SchedulerAssumption ==
  /\ tmin \in Nat /\ bandwidth \in Nat \ {0} /\ Sizes \subseteq Nat /\ MaxMembers \in Nat
  /\ Factors \subseteq Nat /\ \E least \in Factors : \A factor \in Factors : least <= factor

\* Items and private items are told apart, and the CNAME is one of those set once.
ASSUME DescriptionAssumption ==
  /\ "CNAME" \in Fixed /\ Fixed \cap Changing = {}
  /\ PrivPrefixes \cap (Fixed \cup Changing) = {}

ASSUME PacketAssumption ==
  PayloadTypes \subseteq Nat /\ PayloadLengths \subseteq Nat /\ ExtensionLengths \subseteq Nat /\ NONE \notin Nat

VARIABLES which    \* the one at work

VARIABLES sourcelist, owndata, totalcount, sendercount, activecount
tableVars == <<sourcelist, owndata, totalcount, sendercount, activecount>>

VARIABLES maxpacketsize, cname, processed, parts, waited
packetsVars == <<maxpacketsize, cname, processed, parts, waited>>

VARIABLES members, senders, aresender, avgrtcppacksize, hassentrtcp, firstcall, next, since, pmembers,
          byescheduled, byepackets, gap, left
schedulerVars == <<members, senders, aresender, avgrtcppacksize, hassentrtcp, firstcall, next, since,
                   pmembers, byescheduled, byepackets, gap, left>>

VARIABLES step, held, mutexes, created, boundTo, status, login
creationVars == <<step, held, mutexes, created, boundTo, status, login>>

VARIABLES receivemode, acceptignoreinfo, multicastgroups, memberships, unread, rawpacketlist, asked,
          excepted
transmitterVars == <<receivemode, acceptignoreinfo, multicastgroups, memberships, unread, rawpacketlist,
                     asked, excepted>>

VARIABLES alive, localIPs, localhostname
addressVars == <<alive, localIPs, localhostname>>

VARIABLES waitingfordata, waiter, destroying, aborts
waitVars == <<waitingfordata, waiter, destroying, aborts>>

VARIABLES destinations

VARIABLES mainmutex, injected, dataavailable
externalVars == <<mainmutex, injected, dataavailable>>

VARIABLES intervals, local, sdesbuildcount, due, sent, processingsdes, added, reported, missed
itemVars == <<intervals, local, sdesbuildcount, due, sent, processingsdes, added, reported, missed>>

VARIABLES info, privitems, validated, said
descriptionVars == <<info, privitems, validated, said>>

VARIABLES maxpacksize, csrcs, contributors, seqnr, numpackets, numpayloadbytes, buffer, given
builtVars == <<maxpacksize, csrcs, contributors, seqnr, numpackets, numpayloadbytes, buffer, given>>

-----------------------------------------------------------------------------
\* One block of two slots that grows, by doubling, to blocks of four; and four
\* elements reserved in blocks of two slots.
SmallBlocks == {<<1, 4>>, <<4, 2>>}

\* Two keys in one bucket, and one by itself.
TwoBuckets == [key \in Keys |-> IF key = "c" THEN 1 ELSE 0]

Table == INSTANCE SourceTable

Sources == <<"a", "b", "c">>

Packets == INSTANCE RtcpPackets

Scheduler == INSTANCE RtcpScheduler WITH membermultiplier <- 5

\* A member is taken for gone after five intervals.  Each that leaves may delay
\* a report by half of the longest interval.
ASSUME SilenceAssumption ==
  /\ MaxLeaves \in Nat
  /\ \E longest \in 0 .. 5 * tmin :
       /\ \A size \in Sizes, factor \in Factors :
            Scheduler!Scaled(Scheduler!AtLeast(tmin, (4 * MaxMembers * size) \div (3 * bandwidth)), factor)
              <= longest
       /\ 2 * longest + MaxLeaves * (longest + 1) <= 2 * 5 * tmin

\* Two sessions that want the same ports, and one with an odd port.
Portbase == [s \in Sessions |-> IF s = "c" THEN 7 ELSE 4]

Creation == INSTANCE SessionCreation

Transmitter == INSTANCE UdpTransmitter WITH Hosts <- {1}, Ports <- PortNumbers, pending <- unread

Addresses == INSTANCE LocalAddresses WITH created <- alive

Transmitter6 == INSTANCE Udp6Transmitter WITH Hosts <- {1}, Ports <- {1}, pending <- unread, created <- alive

External == INSTANCE ExternalTransmitter WITH rawpacketlist <- injected, created <- alive

OwnItems == INSTANCE SdesItems WITH Items <- <<"name", "note">>

Description == INSTANCE SourceDescription

Built == INSTANCE RtpPackets

-----------------------------------------------------------------------------
Structures ==
  {"marks", "fifo", "destinations", "table", "packets", "items", "description", "scheduler", "creation",
   "addresses", "transmitter", "transmitter6", "external", "built"}

\* One initial state is enough for those that rest.
Resting(structure, state) == which = structure \/ state

StructuresInit ==
  /\ which \in Structures
  /\ Init /\ Resting("fifo", mBuffer = [slot \in Slot |-> 1])
  /\ MarksInit /\ Resting("marks", maxSize = 1)
  /\ HashInit
  /\ Table!Init /\ Resting("table", owndata = 2)
  /\ Packets!Init /\ Resting("packets", maxpacketsize \in {72, 128} /\ cname = 7)
  /\ OwnItems!Init /\ (which \in {"packets", "items"} \/ maxpacketsize = 128)
  /\ Description!Init
  /\ Scheduler!Init /\ Resting("scheduler", members = 1 /\ ~aresender /\ avgrtcppacksize = 3)
  /\ Creation!Init /\ Resting("creation", login)
  /\ Transmitter6!Init /\ External!Init
  /\ Built!Init /\ Resting("built", maxpacksize = 40 /\ seqnr = 0)

StructuresNext ==
  /\ UNCHANGED which
  /\ IF which = "fifo" THEN Next ELSE UNCHANGED vars
  /\ IF which = "marks" THEN MarksNext ELSE UNCHANGED marksVars
  /\ IF which = "destinations" THEN HashNext ELSE UNCHANGED hashVars
  /\ IF which = "table" THEN Table!Next ELSE UNCHANGED tableVars
  /\ CASE which = "packets" -> Packets!Next /\ UNCHANGED itemVars
       [] which = "items" -> OwnItems!Next
       [] OTHER -> UNCHANGED <<packetsVars, itemVars>>
  /\ IF which = "description" THEN Description!Next ELSE UNCHANGED descriptionVars
  /\ IF which = "scheduler" THEN Scheduler!Next ELSE UNCHANGED schedulerVars
  /\ IF which = "creation" THEN Creation!Next ELSE UNCHANGED creationVars
  /\ CASE which = "addresses" ->
              Addresses!Next /\ UNCHANGED <<transmitterVars, waitVars, destinations, externalVars>>
       [] which = "transmitter" ->
              Transmitter!Next /\ UNCHANGED <<addressVars, waitVars, destinations, externalVars>>
       [] which = "transmitter6" ->
              Transmitter6!Next /\ UNCHANGED externalVars
       [] which = "external" ->
              External!Next /\ UNCHANGED <<transmitterVars, localIPs, localhostname, destinations>>
       [] OTHER -> UNCHANGED <<addressVars, transmitterVars, waitVars, destinations, externalVars>>
  /\ IF which = "built" THEN Built!Next ELSE UNCHANGED builtVars

structuresVars ==
  <<which, vars, marksVars, hashVars, tableVars, packetsVars, itemVars, descriptionVars,
    schedulerVars, creationVars, addressVars, transmitterVars, waitVars, destinations, externalVars,
    builtVars>>

StructuresSpec == StructuresInit /\ [][StructuresNext]_structuresVars
-----------------------------------------------------------------------------
(* The properties, each of the module that defines it; they are evaluated  *)
(* while their structure is at work.                                       *)

\* The source table (rtpsources.cpp): its counters are right, and no entry
\* mixes packets of two hosts.
SourcesConsistent == which = "table" => Table!CountersMatch /\ Table!OneHostPerSource

\* RTP and RTCP packets (rtppacket.cpp, rtcpcompoundpacketbuilder.cpp): what
\* was built is what is read, what does not fit comes in a later report, and
\* what a participant says of itself is what is known of it.
BuiltIsRead ==
  /\ which = "packets" => Packets!FillsItsBuffer /\ Packets!ReadsBack /\ Packets!ReportedInTurn
  /\ which = "items" => OwnItems!ItemsInRounds
  /\ which = "description" => Description!DescribesItself
  /\ which = "built" => Built!ParsesBack

\* The scheduler of reports (rtcpscheduler.cpp): never more often than the
\* bandwidth allows, and often enough to stay a member.
NotTooSoon == Scheduler!NotTooSoon
StaysMember == which = "scheduler" => Scheduler!StaysMember

\* A session that could not be created (rtpsession.cpp:107-400) has given back
\* what it had got.
NothingLeft == which = "creation" => Creation!NothingLeft

\* The lists and groups of a transmitter (rtpudpv4transmitter.cpp,
\* rtpudpv6transmitter.cpp) are those the calls asked for, in every life of it,
\* it names itself, and a thread that waits for packets is woken for them, by
\* the external one (rtpexternaltransmitter.cpp) too.
ListsWhatWasAsked ==
  /\ which = "transmitter" => Transmitter!ListsWhatWasAsked /\ Transmitter!MembershipsMatch
  /\ which = "transmitter6" =>
       Transmitter6!Lists!ListsWhatWasAsked /\ Transmitter6!Lists!MembershipsMatch /\ Transmitter6!StartsAfresh
  /\ which = "addresses" => Addresses!NamesItself
  /\ which = "external" => External!NothingSleptThrough
=============================================================================
