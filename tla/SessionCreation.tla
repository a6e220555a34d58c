--------------------------- MODULE SessionCreation ---------------------------
(***************************************************************************)
(* RTPSession::Create, step by step (rtpsession.cpp), with the creation of *)
(* the transmitter (rtpudpv4transmitter.cpp) and of the two packet         *)
(* builders: what a session takes, what each step that fails gives back,   *)
(* and what Destroy gives back in the end.  AudioSync creates a session    *)
(* for each stream, of a sender or of a receiver, and they compete for     *)
(* ports.  A step may fail for lack of some resource of the system.        *)
(*                                                                         *)
(* What the threads do with a session that was created is left to          *)
(* RtpSession, and what they do with one that was not, to AudioSync:       *)
(* _checkerror only writes to the log.                                     *)
(***************************************************************************)
EXTENDS Naturals, Sequences

CONSTANTS
  Sessions,
  Portbase,     \* what a session was given, not always an even number
  FREE          \* instead of a session

Ports == {Portbase[s] : s \in Sessions} \cup {Portbase[s] + 1 : s \in Sessions}

VARIABLES
  step,         \* of the next thing that Create does, 0 before it was called
  held,         \* what a session has
  mutexes,      \* sessions whose mutexes are initialised
  created,
  boundTo,      \* session whose socket is bound to a port
  status,       \* of the last Create
  login         \* getlogin() or LOGNAME has a name for the user

vars == <<step, held, mutexes, created, boundTo, status, login>>

Init ==
  /\ step = [s \in Sessions |-> 0] /\ held = [s \in Sessions |-> {}]
  /\ mutexes = {} /\ created = {} /\ boundTo = [p \in Ports |-> FREE]
  /\ status = [s \in Sessions |-> "none"] /\ login \in BOOLEAN
-----------------------------------------------------------------------------
(* What is given back.                                                     *)

Sockets == {"rtpsock", "rtcpsock"}

\* DestroyAbortDescriptors closes both ends.
Abortdesc == {"abortdesc"}

\* RTPUDPv4Transmitter::Destroy
Transmitter == Sockets \cup Abortdesc \cup {"localIPs"}

\* A step of Create: what it takes, and what the session loses when it fails.
\* A transmitter that is not created has nothing that its destructor would
\* close: its own steps close what they leave behind.
Step(name, takes, loses) == [name |-> name, takes |-> takes, loses |-> loses]

TransmitterSteps ==
  <<Step("parameters", {}, {}),
    Step("rtpsock", {"rtpsock"}, {}),
    Step("rtcpsock", {"rtcpsock"}, {"rtpsock"}),
    Step("buffers", {}, Sockets),
    Step("bindrtp", {}, Sockets),
    Step("bindrtcp", {}, Sockets),
    Step("localIPs", {"localIPs"}, Sockets),
    Step("abortdesc", Abortdesc, Sockets \cup {"localIPs"}),
    Step("size", {}, Transmitter)>>

\* Mutated form: the RTCP builder stays as it was initialised.
SessionStepsKeeping ==
  <<Step("packetbuilder", {"packetbuilder"}, Transmitter),
    Step("ownssrc", {"ownssrc"}, Transmitter \cup {"packetbuilder"}),
    Step("receivemode", {}, Transmitter \cup {"packetbuilder", "ownssrc"}),
    Step("cname", {}, Transmitter \cup {"packetbuilder", "ownssrc"}),
    Step("rtcpbuilder", {"rtcpbuilder"}, Transmitter \cup {"packetbuilder", "ownssrc"}),
    Step("scheduler", {}, Transmitter \cup {"packetbuilder", "ownssrc"}),
    Step("mutexes", {}, Transmitter \cup {"packetbuilder", "ownssrc"}),
    Step("pollthread", {"pollthread"}, Transmitter \cup {"packetbuilder", "ownssrc"})>>

Builders == {"packetbuilder", "ownssrc", "rtcpbuilder"}

\* RTPSession::InternalCreate
SessionSteps ==
  <<Step("packetbuilder", {"packetbuilder"}, Transmitter),
    Step("ownssrc", {"ownssrc"}, Transmitter \cup {"packetbuilder"}),
    Step("receivemode", {}, Transmitter \cup {"packetbuilder", "ownssrc"}),
    Step("cname", {}, Transmitter \cup {"packetbuilder", "ownssrc"}),
    Step("rtcpbuilder", {"rtcpbuilder"}, Transmitter \cup {"packetbuilder", "ownssrc"}),
    Step("scheduler", {}, Transmitter \cup Builders),
    Step("mutexes", {}, Transmitter \cup Builders),
    Step("pollthread", {"pollthread"}, Transmitter \cup Builders)>>

Steps == TransmitterSteps \o SessionSteps

\* A socket that is closed leaves its port.
Released(s, loses) ==
  [p \in Ports |-> IF boundTo[p] = s /\ (IF p = Portbase[s] THEN "rtpsock" ELSE "rtcpsock") \in loses
                   THEN FREE ELSE boundTo[p]]
-----------------------------------------------------------------------------
(* Create and Destroy.                                                     *)

Create(s) ==
  /\ step[s] = 0
  /\ IF s \in created
     THEN status' = [status EXCEPT ![s] = "alreadycreated"] /\ UNCHANGED step
     ELSE step' = [step EXCEPT ![s] = 1] /\ UNCHANGED status
  /\ UNCHANGED <<held, mutexes, created, boundTo, login>>

Current(s) == Steps[step[s]]

\* RTPPacketBuilder::Init and RTCPPacketBuilder::Init refuse to do it twice,
\* CreateOwnSSRC does not add a second entry.
Already(s) ==
  Current(s).name \in Builders /\ Current(s).name \in held[s]

PortOf(s) == IF Current(s).name = "bindrtp" THEN Portbase[s] ELSE Portbase[s] + 1
Binds(s) == Current(s).name \in {"bindrtp", "bindrtcp"}

\* A canonical name needs a user; the host's is not resolved, and it has a default.
CreateCNAME(s) == Current(s).name = "cname" => login

\* The interfaces, or else the DNS, or at least the loopback address.
CreateLocalIPList(s) == Current(s).name = "localIPs"

MayDo(s) ==
  /\ ~Already(s) /\ CreateCNAME(s)
  /\ Current(s).name = "parameters" => Portbase[s] % 2 = 0
  /\ Binds(s) => boundTo[PortOf(s)] = FREE

Succeeds(s) ==
  /\ step[s] > 0 /\ MayDo(s) /\ UNCHANGED login
  /\ held' = [held EXCEPT ![s] = @ \cup Current(s).takes]
  /\ boundTo' = IF Binds(s) THEN [boundTo EXCEPT ![PortOf(s)] = s] ELSE boundTo
  /\ mutexes' = IF Current(s).name = "mutexes" THEN mutexes \cup {s} ELSE mutexes
  /\ IF step[s] = Len(Steps)
     THEN /\ step' = [step EXCEPT ![s] = 0] /\ created' = created \cup {s}
          /\ status' = [status EXCEPT ![s] = "created"]
     ELSE step' = [step EXCEPT ![s] = @ + 1] /\ UNCHANGED <<created, status>>

Fails(s) ==
  /\ step[s] > 0
  /\ Current(s).name = "mutexes" => s \notin mutexes
  /\ Current(s).name = "cname" => ~CreateCNAME(s)
  /\ ~CreateLocalIPList(s)
  /\ held' = [held EXCEPT ![s] = @ \ Current(s).loses]
  /\ boundTo' = Released(s, Current(s).loses)
  /\ step' = [step EXCEPT ![s] = 0]
  /\ status' = [status EXCEPT ![s] = IF Already(s) THEN "alreadyinitialised" ELSE "failed"]
  /\ UNCHANGED <<mutexes, created, login>>

\* A session that is not created gives nothing back.
Destroy(s) ==
  /\ step[s] = 0 /\ s \in created
  /\ held' = [held EXCEPT ![s] = @ \ (Transmitter \cup Builders \cup {"pollthread"})]
  /\ boundTo' = Released(s, Transmitter)
  /\ created' = created \ {s}
  /\ UNCHANGED <<step, mutexes, status, login>>

Next == \E s \in Sessions : Create(s) \/ Succeeds(s) \/ Fails(s) \/ Destroy(s)
-----------------------------------------------------------------------------
(* Properties.                                                             *)

\* Whichever step fails, however often, and whoever else wants the ports: a
\* session that is not created and not being created holds nothing, neither
\* a port that the next one could not bind nor a part that could not be
\* initialised again.
NothingLeft ==
  \A s \in Sessions :
    step[s] = 0 /\ s \notin created =>
      held[s] = {} /\ (\A p \in Ports : boundTo[p] # s) /\ status[s] # "alreadyinitialised"
=============================================================================
