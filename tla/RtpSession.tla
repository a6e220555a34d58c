------------------------------ MODULE RtpSession ------------------------------
(***************************************************************************)
(* The threads that share one RTPSession of jrtplib, from the end of       *)
(* Create to the session's deletion: the poll thread (rtppollthread.cpp),  *)
(* the session's network thread, the SNTP thread of a receiver, the thread *)
(* that shows statistics, and the one that creates, stops and deletes it.  *)
(* They meet in the mutexes of rtpsession.cpp and of the transmitter       *)
(* (rtpudpv4transmitter.cpp), or without any.                              *)
(*                                                                         *)
(* A call is the sequence of what it does with mutexes and shared state;   *)
(* todo is what each thread still has to do.  What a call does between     *)
(* locking and unlocking a mutex without wanting another one is one step   *)
(* (Within): nobody can be kept waiting by it.                             *)
(*                                                                         *)
(* Packets only matter for what they make the poll thread call.  Not       *)
(* modelled: failures of the system's sockets, IPv6, multicast, accept and *)
(* ignore lists, which AudioSync does not use, and the numbers of the RTCP *)
(* scheduler: any report may be due.                                       *)
(***************************************************************************)
EXTENDS Naturals, Sequences, FiniteSets

CONSTANTS
  Arrivals,      \* bound: sets of kinds of datagrams, "new", "bye" and "collision"; one of each
                 \* kind in one of these sets may arrive
  NULL

Threads == {"control", "poll", "network", "sntp", "stats"}
Mutexes == {"sources", "sched", "builder", "packsent", "main", "stop"}

VARIABLES
  role,           \* of the session, sender or receiver
  todo, holds,    \* by thread, and by mutex
  isRunning,      \* of AudioStreamSession
  \* RTPSession
  created, sentpackets, byepackets,
  walking,        \* who goes through the source table without its lock, or clears it
  \* RTPPollThread
  running, stop,
  delay,          \* until the next RTCP report, when waiting for it: whether longer than Stop waits
  \* RTPUDPv4Transmitter
  rtptrans,       \* created, closed by Destroy, or deleted
  waitingfordata,
  abortdesc,      \* bytes in the pipe
  aborted,        \* select found one
  socket, rawpacketlist,
  \* SenderSession
  connectedSources,
  coming,         \* the datagrams that may still arrive
  \* history
  missed,         \* AbortWait found nobody waiting
  wrong           \* the thread that used what was deleted, or "killed"

sessionVars == <<created, sentpackets, byepackets, walking>>
pollVars == <<running, stop, delay>>
transVars == <<rtptrans, waitingfordata, abortdesc, aborted, socket, rawpacketlist>>
vars == <<role, todo, holds, isRunning, sessionVars, pollVars, transVars, connectedSources,
          coming, missed, wrong>>
-----------------------------------------------------------------------------
(* The calls.                                                              *)

Lock(m) == [do |-> "lock", mutex |-> m]
Unlock(m) == [do |-> "unlock", mutex |-> m]
Within(m, what) == [do |-> what, mutex |-> m]
Do(what) == [do |-> what, mutex |-> NULL]

SendPacket ==
  <<Lock("builder"), Within("main", "send"), Unlock("builder"), Within("sources", "pass"),
    Within("packsent", "sent")>>

SendRTCPAPPPacket ==
  <<Within("builder", "pass"), Within("main", "send"), Within("packsent", "sent")>>

AddDestination == <<Within("main", "pass")>>
DeleteDestination == <<Within("main", "pass")>>
BeginDataAccess == <<Lock("sources")>>
EndDataAccess == <<Unlock("sources")>>

\* Mutated form: the wait is ended before the thread is told to stop.
AbortsFirst == <<Within("main", "abort"), Within("stop", "stop"), Do("ended?")>>

\* RTPPollThread::Stop
Stop == <<Within("stop", "stop"), Within("main", "abort"), Do("ended?")>>

\* ~RTPUDPv4Transmitter
DeleteTransmitter == <<Within("main", "close"), Do("free")>>

ClearSources == <<Do("clear"), Do("cleared")>>

Destroy == Stop \o DeleteTransmitter \o ClearSources

BYEDestroy == Stop \o <<Do("bye")>> \o DeleteTransmitter \o ClearSources

\* The functions that first look whether the session is created.
Calls ==
  [SendPacket |-> SendPacket, SendRTCPAPPPacket |-> SendRTCPAPPPacket,
   AddDestination |-> AddDestination, DeleteDestination |-> DeleteDestination,
   BeginDataAccess |-> BeginDataAccess, EndDataAccess |-> EndDataAccess,
   BYEDestroy |-> BYEDestroy, Destroy |-> Destroy]

\* RTPUDPv4Transmitter::WaitForIncomingData.  Nobody else wants waitmutex: Destroy does, if
\* somebody waits, but the session has stopped the poll thread before.
WaitForIncomingData == <<Within("main", "waits"), Do("select"), Within("main", "woken")>>

\* RTPSession::ProcessPolledData
ProcessPolledData ==
  <<Lock("sources"), Within("main", "GetNextPacket"), Within("sched", "timeouts"),
    Within("sched", "IsTime"), Unlock("sources")>>

\* Mutated form: the source table is not unlocked once the delay is known.
DelayLocked ==
  <<Lock("sched"), Lock("sources"), Do("delay"), Unlock("sched")>> \o WaitForIncomingData
    \o <<Within("main", "Poll")>> \o ProcessPolledData \o <<Within("stop", "stop?")>>

\* A round of RTPPollThread::Thread
PollRound ==
  <<Lock("sched"), Within("sources", "delay"), Unlock("sched")>> \o WaitForIncomingData
    \o <<Within("main", "Poll")>> \o ProcessPolledData \o <<Within("stop", "stop?")>>

\* SenderSession::OnNewSource, which never has a format to send, OnBYEPacket and OnRemoveSource
OnNewSource ==
  IF role = "sender" THEN <<Do("AddDestination"), Do("connected")>> ELSE <<>>
OnRemoveSource ==
  IF role = "sender" THEN <<Do("DeleteDestination"), Do("disconnected")>> ELSE <<>>

\* What a packet makes the poll thread do, holding sourcesmutex.
Process(kind) ==
  CASE kind = "new" -> <<Lock("sched")>> \o OnNewSource \o <<Unlock("sched")>>
    [] kind = "bye" -> <<Lock("sched")>> \o OnRemoveSource \o <<Unlock("sched")>>
    [] kind = "collision" ->
         <<Within("packsent", "farewell?"), Within("builder", "CreateNewSSRC"), Within("packsent", "reset")>>

\* A report, or a BYE that is waiting.
Report ==
  IF byepackets = 0
  THEN <<Within("builder", "pass"), Within("main", "send"), Within("packsent", "sent"), Within("sched", "pass")>>
  ELSE <<Within("main", "goodbye"), Within("packsent", "sent"), Within("sched", "pass")>>

\* A round of RunNetwork
NetworkRound ==
  (IF role = "sender" THEN <<Do("SendPacket")>> ELSE <<>>)
    \o <<Do("BeginDataAccess"), Do("EndDataAccess"), Do("round")>>
-----------------------------------------------------------------------------
(* The sockets are open, and InternalCreate is about to start the poll     *)
(* thread.                                                                 *)
Init ==
  /\ role \in {"sender", "receiver"}
  /\ todo = [t \in Threads |->
       CASE t = "control" -> <<Do("start"), Do("created")>>
              \o (IF role = "receiver" THEN <<Do("AddDestination")>> ELSE <<>>)
              \o <<Do("threads"), Do("stopsession"), Do("join"), Do("delete")>>
         [] t = "stats" -> <<Do("look")>>
         [] OTHER -> <<>>]
  /\ holds = [m \in Mutexes |-> NULL]
  /\ isRunning = TRUE
  /\ created = FALSE /\ sentpackets = FALSE /\ byepackets = 0 /\ walking = {}
  /\ running = FALSE /\ stop = FALSE /\ delay = "short"
  /\ rtptrans = "created" /\ waitingfordata = FALSE /\ abortdesc = 0 /\ aborted = FALSE
  /\ socket = <<>> /\ rawpacketlist = <<>>
  /\ connectedSources = 0
  /\ coming \in Arrivals
  /\ missed = FALSE /\ wrong = NULL

Arrives(kind) ==
  /\ wrong = NULL /\ rtptrans = "created" /\ kind \in coming
  /\ kind = "bye" => "new" \notin coming
  /\ coming' = coming \ {kind}
  /\ socket' = Append(socket, kind)
  /\ UNCHANGED <<role, todo, holds, isRunning, sessionVars, pollVars, rtptrans, waitingfordata, abortdesc,
                 aborted, rawpacketlist, connectedSources, missed, wrong>>
-----------------------------------------------------------------------------
(* Steps.                                                                  *)

\* Thread t is at what.  It stops for good once something was used after its deletion.
At(t, what) == wrong = NULL /\ todo[t] # <<>> /\ Head(todo[t]).do = what

Wants(t) == IF todo[t] = <<>> \/ Head(todo[t]).do = "unlock" THEN NULL ELSE Head(todo[t]).mutex

\* Its mutex is free, and what it belongs to is still there.
Free(t) == Wants(t) # NULL => holds[Wants(t)] = NULL /\ ~(Wants(t) = "main" /\ rtptrans = "deleted")

Goes(t, more) == todo' = [todo EXCEPT ![t] = more \o Tail(@)]
Does(t, what) == At(t, what) /\ Free(t) /\ Goes(t, <<>>)

Locks(t) ==
  /\ Does(t, "lock") /\ holds' = [holds EXCEPT ![Wants(t)] = t]
  /\ UNCHANGED <<role, isRunning, sessionVars, pollVars, transVars, connectedSources, coming, missed, wrong>>

Unlocks(t) ==
  /\ Does(t, "unlock") /\ holds' = [holds EXCEPT ![Head(todo[t]).mutex] = NULL]
  /\ UNCHANGED <<role, isRunning, sessionVars, pollVars, transVars, connectedSources, coming, missed, wrong>>

Passes(t) ==
  /\ Does(t, "pass")
  /\ UNCHANGED <<role, holds, isRunning, sessionVars, pollVars, transVars, connectedSources, coming, missed, wrong>>

\* A mutex of the transmitter that has been deleted.
UsesDeleted(t) ==
  /\ wrong = NULL /\ Wants(t) = "main" /\ rtptrans = "deleted"
  /\ wrong' = t
  /\ UNCHANGED <<role, todo, holds, isRunning, sessionVars, pollVars, transVars, connectedSources, coming,
                 missed>>

\* A call of RTPSession does nothing unless the session is created.
Begins(t) ==
  /\ wrong = NULL /\ todo[t] # <<>> /\ Head(todo[t]).do \in DOMAIN Calls
  /\ Goes(t, IF created THEN Calls[Head(todo[t]).do] ELSE <<>>)
  /\ UNCHANGED <<role, holds, isRunning, sessionVars, pollVars, transVars, connectedSources, coming, missed, wrong>>

\* SendRTPData and SendRTCPData; only a sender of reports meets a closed transmitter, and notes nothing then.
Sends(t) ==
  /\ At(t, "send") /\ Free(t)
  /\ todo' = [todo EXCEPT ![t] = IF rtptrans = "created" THEN Tail(@) ELSE Tail(Tail(@))]
  /\ UNCHANGED <<role, holds, isRunning, sessionVars, pollVars, transVars, connectedSources, coming, missed, wrong>>

NotesSent(t) ==
  /\ Does(t, "sent") /\ sentpackets' = TRUE
  /\ UNCHANGED <<role, holds, isRunning, created, byepackets, walking, pollVars, transVars, connectedSources,
                 coming, missed, wrong>>

SaysGoodbye(t) ==
  /\ Does(t, "goodbye") /\ byepackets' = byepackets - 1
  /\ UNCHANGED <<role, holds, isRunning, created, sentpackets, walking, pollVars, transVars, connectedSources,
                 coming, missed, wrong>>

\* ClearSourceList goes through the table that somebody else may be walking through.
Clears(t) ==
  /\ \/ Does(t, "clear") /\ walking' = walking \cup {t} /\ UNCHANGED created
     \/ Does(t, "cleared") /\ walking' = walking \ {t} /\ created' = FALSE
  /\ UNCHANGED <<role, holds, isRunning, sentpackets, byepackets, pollVars, transVars, connectedSources, coming,
                 missed, wrong>>
-----------------------------------------------------------------------------
(* The poll thread.                                                        *)

\* GetTransmissionDelay; Stop does not wait for a longer one.
PollDelay ==
  /\ Does("poll", "delay") /\ delay' \in {"short", "long"}
  /\ UNCHANGED <<role, holds, isRunning, sessionVars, running, stop, transVars, connectedSources, coming,
                 missed, wrong>>

PollWaits ==
  /\ \/ Does("poll", "waits") /\ waitingfordata' = TRUE /\ UNCHANGED <<aborted, abortdesc, delay>>
     \/ Does("poll", "select") /\ aborted' = (abortdesc > 0) /\ delay' = "short"
        /\ UNCHANGED <<waitingfordata, abortdesc>>
     \/ /\ Does("poll", "woken") /\ waitingfordata' = FALSE /\ aborted' = FALSE
        /\ abortdesc' = IF aborted THEN abortdesc - 1 ELSE abortdesc
        /\ UNCHANGED delay
  /\ UNCHANGED <<role, holds, isRunning, sessionVars, running, stop, rtptrans, socket, rawpacketlist,
                 connectedSources, coming, missed, wrong>>

Poll ==
  /\ Does("poll", "Poll")
  /\ rawpacketlist' = rawpacketlist \o socket /\ socket' = <<>>
  /\ UNCHANGED <<role, holds, isRunning, sessionVars, pollVars, rtptrans, waitingfordata, abortdesc, aborted,
                 connectedSources, coming, missed, wrong>>

GetNextPacket ==
  /\ At("poll", "GetNextPacket") /\ Free("poll")
  /\ Goes("poll", IF rawpacketlist = <<>> THEN <<>>
                  ELSE Process(Head(rawpacketlist)) \o <<Within("main", "GetNextPacket")>>)
  /\ rawpacketlist' = IF rawpacketlist = <<>> THEN <<>> ELSE Tail(rawpacketlist)
  /\ UNCHANGED <<role, holds, isRunning, sessionVars, pollVars, rtptrans, waitingfordata, abortdesc, aborted,
                 socket, connectedSources, coming, missed, wrong>>

CountsSources ==
  /\ \/ Does("poll", "connected") /\ connectedSources' = connectedSources + 1
     \/ Does("poll", "disconnected") /\ connectedSources' = connectedSources - 1
  /\ UNCHANGED <<role, holds, isRunning, sessionVars, pollVars, transVars, coming, missed, wrong>>

\* MultipleTimeouts may find that the peer is silent.
TimesOut ==
  /\ At("poll", "timeouts") /\ Free("poll")
  /\ \/ Goes("poll", <<>>)
     \/ connectedSources > 0 /\ Goes("poll", OnRemoveSource)
  /\ UNCHANGED <<role, holds, isRunning, sessionVars, pollVars, transVars, connectedSources, coming, missed, wrong>>

\* A peer uses our SSRC: it gets a BYE if it has been used, and a new one is chosen.
Collides ==
  /\ \/ /\ At("poll", "farewell?") /\ Free("poll") /\ UNCHANGED sentpackets
        /\ Goes("poll", IF ~sentpackets THEN <<>>
                        ELSE <<Within("builder", "pass")>>
                               \o (IF byepackets = 0 THEN <<Within("sched", "pass")>> ELSE <<>>))
        /\ byepackets' = IF sentpackets THEN byepackets + 1 ELSE byepackets
     \/ Does("poll", "CreateNewSSRC") /\ UNCHANGED <<sentpackets, byepackets>>
     \/ Does("poll", "reset") /\ sentpackets' = FALSE /\ UNCHANGED byepackets
  /\ UNCHANGED <<role, holds, isRunning, created, walking, pollVars, transVars, connectedSources, coming,
                 missed, wrong>>

IsTime ==
  /\ At("poll", "IsTime") /\ Free("poll")
  /\ Goes("poll", <<>>) \/ Goes("poll", Report)
  /\ UNCHANGED <<role, holds, isRunning, sessionVars, pollVars, transVars, connectedSources, coming, missed, wrong>>

PollRepeats ==
  /\ At("poll", "stop?") /\ Free("poll")
  /\ Goes("poll", IF stop THEN <<>> ELSE PollRound)
  /\ running' = ~stop
  /\ UNCHANGED <<role, holds, isRunning, sessionVars, stop, delay, transVars, connectedSources, coming,
                 missed, wrong>>
-----------------------------------------------------------------------------
(* The end of a session.                                                   *)

TellsStop(t) ==
  /\ Does(t, "stop") /\ stop' = TRUE
  /\ UNCHANGED <<role, holds, isRunning, sessionVars, running, delay, transVars, connectedSources, coming,
                 missed, wrong>>

AbortWait(t) ==
  /\ Does(t, "abort")
  /\ \/ waitingfordata /\ abortdesc' = abortdesc + 1 /\ UNCHANGED missed
     \/ ~waitingfordata /\ missed' = TRUE /\ UNCHANGED abortdesc
  /\ UNCHANGED <<role, holds, isRunning, sessionVars, pollVars, rtptrans, waitingfordata, aborted, socket,
                 rawpacketlist, connectedSources, coming, wrong>>

\* Whether select goes on for the whole of a long delay.
Sleeps == At("poll", "select") /\ delay = "long" /\ abortdesc = 0 /\ socket = <<>>

\* After five seconds Stop sends SIGUSR1 and goes on as if that had ended the thread.
PollEnds(t) ==
  /\ \/ ~running /\ Does(t, "ended?") /\ stop' = FALSE /\ UNCHANGED wrong
     \/ running /\ Sleeps /\ At(t, "ended?") /\ wrong' = "killed" /\ UNCHANGED <<todo, stop>>
  /\ UNCHANGED <<role, holds, isRunning, sessionVars, running, delay, transVars, connectedSources, coming, missed>>

\* The BYE packets are sent without a mutex of the session, those that the time is enough for.
SendsByes(t) ==
  /\ At(t, "bye")
  /\ \E n \in 0 .. byepackets + (IF sentpackets THEN 1 ELSE 0) :
       byepackets' = n /\ Goes(t, [i \in 1 .. n |-> Within("main", "goodbye")])
  /\ UNCHANGED <<role, holds, isRunning, created, sentpackets, walking, pollVars, transVars, connectedSources,
                 coming, missed, wrong>>

\* Destroy of the transmitter, and then its memory is given back.
DeletesTransmitter(t) ==
  /\ \/ Does(t, "close") /\ rtptrans' = "closed"
     \/ Does(t, "free") /\ rtptrans' = "deleted"
  /\ socket' = <<>> /\ rawpacketlist' = <<>>
  /\ UNCHANGED <<role, holds, isRunning, sessionVars, pollVars, waitingfordata, abortdesc, aborted,
                 connectedSources, coming, missed, wrong>>
-----------------------------------------------------------------------------
(* The other threads.                                                      *)

\* The end of InternalCreate: the poll thread runs before the session is created.
Creates ==
  /\ \/ /\ At("control", "start")
        /\ todo' = [todo EXCEPT !["control"] = Tail(@), !["poll"] = PollRound]
        /\ running' = TRUE /\ UNCHANGED created
     \/ Does("control", "created") /\ created' = TRUE /\ UNCHANGED running
  /\ UNCHANGED <<role, holds, isRunning, sentpackets, byepackets, walking, stop, delay, transVars,
                 connectedSources, coming, missed, wrong>>

StartsThreads ==
  /\ At("control", "threads")
  /\ todo' = [todo EXCEPT !["control"] = Tail(@),
                !["network"] = (IF role = "receiver" THEN <<Do("SendPacket")>> ELSE <<>>) \o <<Do("begin")>>,
                !["sntp"] = IF role = "receiver" THEN <<Do("report")>> ELSE <<>>]
  /\ UNCHANGED <<role, holds, isRunning, sessionVars, pollVars, transVars, connectedSources, coming, missed, wrong>>

\* AudioStreamSession::Stop, and what follows a stop that deinitAudio asked for.
StopsSession ==
  /\ \/ Does("control", "stopsession") /\ isRunning' = FALSE
     \/ /\ Does("control", "join") /\ UNCHANGED isRunning
        /\ todo["network"] = <<>> /\ todo["sntp"] = <<>>
     \/ At("control", "delete") /\ Goes("control", <<Do("Destroy")>>) /\ UNCHANGED isRunning
  /\ UNCHANGED <<role, holds, sessionVars, pollVars, transVars, connectedSources, coming, missed, wrong>>

\* RunNetwork: a thread that has not begun to stream leaves the session as it is.
NetworkBegins ==
  /\ At("network", "begin")
  /\ \/ ~isRunning /\ Goes("network", <<>>)
     \/ isRunning /\ role = "receiver" /\ Goes("network", <<>>)     \* the codec cannot be started
     \/ isRunning /\ (role = "sender" => connectedSources # 0) /\ Goes("network", <<Do("round")>>)
  /\ UNCHANGED <<role, holds, isRunning, sessionVars, pollVars, transVars, connectedSources, coming, missed, wrong>>

\* It streams, until it is stopped or the stream is over.
NetworkRepeats ==
  /\ At("network", "round")
  /\ \/ isRunning /\ Goes("network", NetworkRound)
     \/ Goes("network", <<Do("BYEDestroy")>>)
  /\ UNCHANGED <<role, holds, isRunning, sessionVars, pollVars, transVars, connectedSources, coming, missed, wrong>>

\* RunNTPClient: SendClockOffset
Reports ==
  /\ At("sntp", "report")
  /\ Goes("sntp", IF isRunning THEN <<Do("SendRTCPAPPPacket"), Do("report")>> ELSE <<>>)
  /\ UNCHANGED <<role, holds, isRunning, sessionVars, pollVars, transVars, connectedSources, coming, missed, wrong>>

\* getAudioDestinations, which does not take the lock of the source table
Walks ==
  /\ \/ At("stats", "look") /\ created /\ Goes("stats", <<Do("walked"), Do("look")>>)
        /\ walking' = walking \cup {"stats"}
     \/ Does("stats", "walked") /\ walking' = walking \ {"stats"}
  /\ UNCHANGED <<role, holds, isRunning, created, sentpackets, byepackets, pollVars, transVars, connectedSources,
                 coming, missed, wrong>>
-----------------------------------------------------------------------------
Step(t) ==
  \/ Locks(t) \/ Unlocks(t) \/ Passes(t) \/ UsesDeleted(t)
  \/ Begins(t) \/ Sends(t) \/ NotesSent(t) \/ SaysGoodbye(t) \/ Clears(t)
  \/ TellsStop(t) \/ AbortWait(t) \/ PollEnds(t) \/ SendsByes(t) \/ DeletesTransmitter(t)

PollStep ==
  PollDelay \/ PollWaits \/ Poll \/ GetNextPacket \/ CountsSources \/ TimesOut \/ Collides \/ IsTime
    \/ PollRepeats

Next ==
  \/ \E kind \in coming : Arrives(kind)
  \/ \E t \in Threads : Step(t)
  \/ PollStep
  \/ Creates \/ StartsThreads \/ StopsSession \/ NetworkBegins \/ NetworkRepeats \/ Reports \/ Walks

(* Threads of the session that can go on do.  A wait for data ends with    *)
(* its delay, and the poll thread then takes and gives back the same       *)
(* mutexes again: that the other two get one too now and then is strong    *)
(* fairness, which the scheduler of the phone gives them in practice.      *)
(* That the session is stopped, or its stream ends by itself, is not       *)
(* assumed, nor that the other threads go on.                              *)
Fairness ==
  /\ SF_vars(Step("network") \/ Step("sntp"))
  /\ WF_vars(Step("poll") \/ PollStep)
  /\ WF_vars(~isRunning /\ (NetworkBegins \/ NetworkRepeats \/ Reports))

Spec == Init /\ [][Next]_vars /\ Fairness
-----------------------------------------------------------------------------
(* Properties.                                                             *)

(* Destroying the transmitter leaves the poll thread, the network thread   *)
(* and who deletes the session nothing to stumble over, wherever each of   *)
(* them is.  There are two exceptions.  The SNTP thread is not stopped     *)
(* before BYEDestroy and may be sending its clock offset.  And if the      *)
(* AbortWait of RTPPollThread::Stop comes when the thread has read stop    *)
(* but is not yet waiting, nobody wakes it up for a report that is more    *)
(* than five seconds away, and Stop kills it.                              *)
EndsCleanly == \/ wrong \in {NULL, "sntp"}
               \/ wrong = "killed" /\ missed

(* A session that is stopped gets its threads joined: the five mutexes of  *)
(* a session, taken in various orders, never keep BYEDestroy from ending.  *)
TeardownEnds == ~isRunning ~> (todo["network"] = <<>> /\ todo["sntp"] = <<>>) \/ wrong # NULL

\* Who is in the source table: its lock's owner, and whoever does not ask for it.
Users == walking \cup {t \in Threads : holds["sources"] = t}

(* Nobody is in the source table while another thread is, whether it took  *)
(* sourcesmutex or clears the table without it, except the thread that     *)
(* shows statistics: getAudioDestinations walks through the table without  *)
(* BeginDataAccess, which rtpsession.h:267 asks for.                       *)
OnlyStatisticsIntrude == \A t, u \in Users \ {"stats"} : t = u

(* The network thread and whoever stops, destroys or deletes the session   *)
(* get by with the poll thread, whose mutexes they share, wherever they    *)
(* meet it: see the exceptions of the two parts.                           *)
SharesSafely == EndsCleanly /\ OnlyStatisticsIntrude
=============================================================================
