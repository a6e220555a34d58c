-------------------------- MODULE ExternalTransmitter --------------------------
(***************************************************************************)
(* RTPExternalTransmitter (rtpexternaltransmitter.cpp): a transmitter      *)
(* without sockets, whose packets another part of the program injects.     *)
(* AudioSync uses the UDP transmitter; this one stands behind the same     *)
(* interface and wakes its waiting thread by the same descriptor.          *)
(*                                                                         *)
(* A call is one step under mainmutex, but for WaitForIncomingData, which  *)
(* leaves it while it waits, and for Destroy, which waits for that.        *)
(***************************************************************************)
EXTENDS Naturals, Sequences

CONSTANTS
  MaxPackets,    \* bound: packets that were not taken yet
  MaxAborts      \* bound: bytes in the pipe of abortdesc

VARIABLES
  created,
  mainmutex,       \* "free", or "kept" by an injection without memory
  waitingfordata,
  waiter,          \* the thread in WaitForIncomingData
  destroying,      \* Destroy waits for waitmutex
  aborts,          \* bytes in the pipe of abortdesc
  rawpacketlist,   \* whether RTP, for each packet
  dataavailable    \* what the last wait has said

vars == <<created, mainmutex, waitingfordata, waiter, destroying, aborts, rawpacketlist, dataavailable>>

Init ==
  /\ created = FALSE /\ mainmutex = "free" /\ waitingfordata = FALSE
  /\ waiter = "out" /\ destroying = FALSE
  /\ aborts = 0 /\ rawpacketlist = <<>> /\ dataavailable = FALSE

Enters == mainmutex = "free"
-----------------------------------------------------------------------------
(* Life cycle.                                                             *)

\* CreateAbortDescriptors, where pipe may fail, leaves an empty pipe.
CreateAbortDescriptors == aborts' = 0

Create ==
  /\ Enters /\ ~created
  /\ created' = TRUE /\ waitingfordata' = FALSE
  /\ CreateAbortDescriptors
  /\ UNCHANGED <<mainmutex, waiter, destroying, rawpacketlist, dataavailable>>

CreateFails == Enters /\ ~created /\ UNCHANGED vars

FlushPackets == rawpacketlist' = <<>>

\* A thread that waits gets a last byte, before both ends are closed.
Destroy ==
  /\ Enters /\ created /\ ~destroying
  /\ created' = FALSE /\ FlushPackets /\ aborts' = 0
  /\ waiter' = IF waiter = "asleep" THEN "aborted" ELSE waiter
  /\ destroying' = waitingfordata
  /\ UNCHANGED <<mainmutex, waitingfordata, dataavailable>>

\* The wait has ended.  The mutex is unlocked once more than it was locked,
\* which may open it for a thread that has it.
DestroyReturns ==
  /\ destroying /\ waiter = "out"
  /\ destroying' = FALSE /\ mainmutex' \in {mainmutex, "free"}
  /\ UNCHANGED <<created, waitingfordata, waiter, aborts, rawpacketlist, dataavailable>>
-----------------------------------------------------------------------------
(* Waiting.                                                                *)

AbortWaitInternal == aborts < MaxAborts /\ aborts' = aborts + 1

AbortWait ==
  /\ Enters /\ created /\ waitingfordata
  /\ AbortWaitInternal
  /\ UNCHANGED <<created, mainmutex, waitingfordata, waiter, destroying, rawpacketlist, dataavailable>>

\* Packets that are there already need no wait.
WaitForIncomingData ==
  /\ Enters /\ waiter = "out" /\ created /\ ~waitingfordata
  /\ \/ /\ rawpacketlist # <<>>
        /\ dataavailable' = TRUE
        /\ UNCHANGED <<waitingfordata, waiter>>
     \/ /\ rawpacketlist = <<>>
        /\ waitingfordata' = TRUE /\ waiter' = "asleep"
        /\ UNCHANGED dataavailable
  /\ UNCHANGED <<created, mainmutex, destroying, aborts, rawpacketlist>>

\* select returns for a byte, for the time that has passed, or for an error.
Wakes ==
  /\ waiter = "asleep"
  /\ \/ aborts > 0 /\ waiter' = "aborted"
     \/ aborts = 0 /\ waiter' = "timeout"
     \/ waiter' = "error"
  /\ UNCHANGED <<created, mainmutex, waitingfordata, destroying, aborts, rawpacketlist, dataavailable>>

\* After an abort the pipe is read dry; the answer is what the list is now.
WaitReturns ==
  /\ Enters /\ waiter \in {"aborted", "timeout", "error"}
  /\ waiter' = "out" /\ waitingfordata' = FALSE
  /\ aborts' = IF created /\ waiter = "aborted" THEN 0 ELSE aborts
  /\ dataavailable' = IF created /\ waiter # "error" THEN rawpacketlist # <<>> ELSE dataavailable
  /\ UNCHANGED <<created, mainmutex, destroying, rawpacketlist>>
-----------------------------------------------------------------------------
(* Packets.                                                                *)

\* InjectRTP, InjectRTCP and InjectRTPorRTCP, which looks at the type
Inject(rtp) ==
  /\ Enters /\ created
  /\ Len(rawpacketlist) < MaxPackets
  /\ rawpacketlist' = Append(rawpacketlist, rtp)
  /\ AbortWaitInternal
  /\ UNCHANGED <<created, mainmutex, waitingfordata, waiter, destroying, dataavailable>>

\* Without memory it returns as it is, and the mutex stays locked.
InjectFails ==
  /\ Enters /\ created /\ mainmutex' = "kept"
  /\ UNCHANGED <<created, waitingfordata, waiter, destroying, aborts, rawpacketlist, dataavailable>>

GetNextPacket ==
  /\ Enters /\ created /\ rawpacketlist # <<>>
  /\ rawpacketlist' = Tail(rawpacketlist)
  /\ UNCHANGED <<created, mainmutex, waitingfordata, waiter, destroying, aborts, dataavailable>>

Next ==
  \/ Create \/ CreateFails \/ Destroy \/ DestroyReturns
  \/ AbortWait \/ WaitForIncomingData \/ Wakes \/ WaitReturns
  \/ (\E rtp \in BOOLEAN : Inject(rtp)) \/ InjectFails \/ GetNextPacket
-----------------------------------------------------------------------------
(* Properties.                                                             *)

\* No packet is slept through: when a thread sleeps on a transmitter that has
\* a packet for it, or that is destroyed, there is a byte that will wake it.
NothingSleptThrough ==
  waiter = "asleep" => created /\ (rawpacketlist # <<>> => aborts > 0)
=============================================================================
