--------------------------- MODULE MCSessionThreads ---------------------------
(***************************************************************************)
(* The network thread of a receiver with its codec (ReceiverDecoder), and  *)
(* the threads of a session with their mutexes (RtpSession), for TLC: in a *)
(* behaviour one of them is at work while the other rests.  What the       *)
(* network thread does between two calls of the session is nothing to the  *)
(* other threads, and the calls are nothing to the codec.                  *)
(***************************************************************************)
EXTENDS ReceiverDecoder

CONSTANT NULL

VARIABLES which    \* the one at work

VARIABLES role, todo, holds, runs, created, sentpackets, byepackets, walking, running, stop, delay, rtptrans,
          waitingfordata, abortdesc, aborted, socket, rawpacketlist, connectedSources, coming, missed, wrong
sessionVars == <<role, todo, holds, runs, created, sentpackets, byepackets, walking, running, stop, delay,
                 rtptrans, waitingfordata, abortdesc, aborted, socket, rawpacketlist, connectedSources,
                 coming, missed, wrong>>

\* A member that comes and goes, or a session that has our SSRC.
Arrivals == {{"new", "bye"}, {"collision"}}

Session == INSTANCE RtpSession WITH isRunning <- runs

\* Nobody has a mutex that is free.
ASSUME SessionAssumption == NULL \notin Session!Mutexes \cup Session!Threads

ThreadsInit ==
  /\ which \in {"codec", "session"}
  /\ Init /\ (which = "codec" \/ codecMade)
  /\ Session!Init /\ (which = "session" \/ (role = "sender" /\ coming = {"collision"}))

CodecWorks(Action) == which = "codec" /\ Action /\ UNCHANGED <<which, sessionVars>>
SessionWorks(Action) == which = "session" /\ Action /\ UNCHANGED <<which, vars>>

ThreadsNext == CodecWorks(Next) \/ SessionWorks(Session!Next)

allVars == <<which, vars, sessionVars>>

\* The fairness of the one at work.
ThreadsSpec ==
  /\ ThreadsInit /\ [][ThreadsNext]_allVars
  /\ WF_allVars(\/ CodecWorks(Thread /\ (stage = "drain" /\ Drains => codecOut # <<>>))
                \/ SessionWorks(Session!Step("poll") \/ Session!PollStep))
  /\ WF_allVars(\/ CodecWorks(Decode)
                \/ SessionWorks(/\ ~runs
                                /\ Session!NetworkBegins \/ Session!NetworkRepeats \/ Session!Reports))
  /\ SF_allVars(SessionWorks(Session!Step("network") \/ Session!Step("sntp")))
-----------------------------------------------------------------------------
(* The properties, each of the module that defines it.                     *)

\* RtpSession: the network thread, and who stops and deletes the session, get
\* by with the poll thread and the mutexes they share.
SharesSafely == Session!SharesSafely

\* A session that is stopped (AudioStreamSession.h:27-40) ends its threads,
\* wherever the receiver's is with its codec, and wherever the poll thread is
\* when BYEDestroy waits for it.
ThreadsEnd == StopEnds /\ (which = "session" => Session!TeardownEnds)
=============================================================================
