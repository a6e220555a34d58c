-------------------------- MODULE AudioCoreLifecycle --------------------------
(***************************************************************************)
(* Starting and stopping sessions: AudioCore.java hands most calls to a    *)
(* pool of one thread, AudioCore.cpp keeps the session in the global       *)
(* audioSession, and each session has a network thread and an SNTP thread. *)
(* The callers are CastPlayback (streams a track), StatisticsActivity      *)
(* (listens) and MusicService (cleans up), all on the main thread.         *)
(*                                                                         *)
(* What the threads do with packets is in the other modules; here they     *)
(* only go through the stages that starting and stopping depends on.  The  *)
(* device's API calls do not fail.  Left out: the readers of audioSession  *)
(* that show statistics.                                                   *)
(***************************************************************************)
EXTENDS Integers, Sequences, FiniteSets

CONSTANTS
  MaxSessions,  \* bound: sessions that are ever created
  MaxCalls,     \* bound: calls the main thread makes
  Tracks,       \* "asset" and "file": kinds of tracks CastPlayback is given
  Listens,      \* whether the user opens StatisticsActivity
  Cleanups      \* whether the service is destroyed

ASSUME LifecycleAssumption ==
  /\ MaxSessions \in Nat /\ MaxCalls \in Nat
  /\ Tracks \subseteq {"asset", "file"}
  /\ Listens \in BOOLEAN /\ Cleanups \in BOOLEAN

Session == 1 .. MaxSessions
NULL == 0

VARIABLES
  \* main thread
  main,          \* the session startStreamingAsset is about to store, or NULL
  casting,       \* CastPlayback.mState
  downloads,     \* DownloadTasks under way
  resolving,     \* discoveries whose service has not been resolved yet
  mayListen,     \* mListenButton is enabled
  calls,         \* calls made so far
  lastCall,      \* the last call of AudioCore: a start (of an asset: beside the pool) or a stop
  \* AudioCore
  tasks,         \* queue of mPool
  pool,          \* what the pool's thread does, and to which session
  audioSession,
  freed,         \* sessions that have been deleted
  \* sessions
  kind,          \* what it was started for
  isRunning, network, ntp

mainVars == <<main, casting, downloads, resolving, mayListen, calls, lastCall>>
coreVars == <<tasks, pool, audioSession, freed>>
sessionVars == <<kind, isRunning, network, ntp>>
vars == <<mainVars, coreVars, sessionVars>>

Idle == [task |-> "none", at |-> "idle", sess |-> NULL]

Init ==
  /\ main = NULL /\ casting = "stopped" /\ downloads = 0 /\ resolving = 0
  /\ mayListen = TRUE /\ calls = 0 /\ lastCall = "none"
  /\ tasks = <<>> /\ pool = Idle /\ audioSession = NULL /\ freed = {}
  /\ kind = [s \in Session |-> "none"] /\ isRunning = [s \in Session |-> TRUE]
  /\ network = [s \in Session |-> "none"] /\ ntp = [s \in Session |-> "none"]
-----------------------------------------------------------------------------
(* The main thread.                                                        *)

MainIsFree == main = NULL /\ calls < MaxCalls

\* The bound on sessions is kept by not asking for more.
Created(s) == kind[s] # "none"
MaySpawn ==
  Cardinality({s \in Session : Created(s)}) + downloads + resolving
    + Cardinality({i \in DOMAIN tasks : tasks[i] \in {"file", "listen"}})
    + (IF pool.at = "create" THEN 1 ELSE 0) < MaxSessions

\* StartStreaming and StartReceiving: a new session, its threads running.
NewSession(s, k) ==
  /\ kind[s] = "none" /\ \A r \in 1 .. s - 1 : kind[r] # "none"
  /\ kind' = [kind EXCEPT ![s] = k]
  /\ network' = [network EXCEPT ![s] = "starting"]
  /\ ntp' = [ntp EXCEPT ![s] = "checking"]
  /\ UNCHANGED isRunning

\* CastPlayback.play pauses first when something is playing.
BeforePlay == IF casting = "playing" THEN Append(tasks, "stop") ELSE tasks

\* A local track: startPlayingAsset runs on the main thread, not in the pool.
PlayAsset(s) ==
  /\ MainIsFree /\ MaySpawn /\ "asset" \in Tracks
  /\ tasks' = BeforePlay
  /\ NewSession(s, "asset") /\ main' = s
  /\ casting' = "playing" /\ calls' = calls + 1 /\ lastCall' = "asset"
  /\ UNCHANGED <<downloads, resolving, mayListen, pool, audioSession, freed>>

PlayAssetReturns ==
  /\ main # NULL
  /\ audioSession' = main /\ main' = NULL
  /\ UNCHANGED <<casting, downloads, resolving, mayListen, calls, lastCall, tasks, pool, freed,
                 sessionVars>>

\* Any other track is downloaded first.
PlayFile ==
  /\ MainIsFree /\ MaySpawn /\ "file" \in Tracks
  /\ tasks' = BeforePlay
  /\ lastCall' = IF casting = "playing" THEN "stop" ELSE lastCall
  /\ downloads' = downloads + 1
  /\ casting' = "playing" /\ calls' = calls + 1
  /\ UNCHANGED <<main, resolving, mayListen, pool, audioSession, freed, sessionVars>>

DownloadDone ==
  /\ main = NULL /\ downloads > 0
  /\ downloads' = downloads - 1
  /\ tasks' = Append(tasks, "file") /\ lastCall' = "start"
  /\ UNCHANGED <<main, casting, resolving, mayListen, calls, pool, audioSession, freed, sessionVars>>

PauseCasting ==
  /\ MainIsFree /\ Tracks # {}
  /\ tasks' = Append(tasks, "stop") /\ lastCall' = "stop"
  /\ casting' = "paused" /\ calls' = calls + 1
  /\ UNCHANGED <<main, downloads, resolving, mayListen, pool, audioSession, freed, sessionVars>>

\* CastPlayback.stop, when the user stops or the service switches to local
\* playback: nothing but its state.
StopCasting ==
  /\ MainIsFree /\ casting # "stopped"
  /\ casting' = "stopped" /\ calls' = calls + 1
  /\ UNCHANGED <<main, downloads, resolving, mayListen, lastCall, coreVars, sessionVars>>

StartListening ==
  /\ MainIsFree /\ MaySpawn /\ Listens /\ mayListen
  /\ mayListen' = FALSE /\ resolving' = resolving + 1
  /\ calls' = calls + 1
  /\ UNCHANGED <<main, casting, downloads, lastCall, coreVars, sessionVars>>

ServiceResolved ==
  /\ main = NULL /\ resolving > 0
  /\ resolving' = resolving - 1
  /\ tasks' = Append(tasks, "listen") /\ lastCall' = "start"
  /\ UNCHANGED <<main, casting, downloads, mayListen, calls, pool, audioSession, freed, sessionVars>>

\* StatisticsActivity.onPause
LeaveActivity ==
  /\ MainIsFree /\ Listens
  /\ mayListen' = TRUE
  /\ tasks' = Append(tasks, "stop") /\ calls' = calls + 1 /\ lastCall' = "stop"
  /\ UNCHANGED <<main, casting, downloads, resolving, pool, audioSession, freed, sessionVars>>

\* MusicService.onDestroy
DestroyService ==
  /\ MainIsFree /\ Cleanups
  /\ tasks' = Append(tasks, "cleanup") /\ casting' = "stopped"
  /\ calls' = calls + 1 /\ lastCall' = "stop"
  /\ UNCHANGED <<main, downloads, resolving, mayListen, pool, audioSession, freed, sessionVars>>
-----------------------------------------------------------------------------
(* The pool's thread.                                                      *)

PoolAt(step) == pool.at = step

\* Mutated form: the newest task first.
TakeNewest ==
  /\ PoolAt("idle") /\ tasks # <<>>
  /\ tasks' = SubSeq(tasks, 1, Len(tasks) - 1)
  /\ pool' = [task |-> tasks[Len(tasks)], sess |-> NULL,
              at |-> IF tasks[Len(tasks)] \in {"file", "listen"} THEN "create" ELSE "stop"]
  /\ UNCHANGED <<mainVars, audioSession, freed, sessionVars>>

TakeTask ==
  /\ PoolAt("idle") /\ tasks # <<>>
  /\ tasks' = Tail(tasks)
  /\ pool' = [task |-> Head(tasks), sess |-> NULL,
              at |-> IF Head(tasks) \in {"file", "listen"} THEN "create" ELSE "stop"]
  /\ UNCHANGED <<mainVars, audioSession, freed, sessionVars>>

CreateSession(s) ==
  /\ PoolAt("create")
  /\ NewSession(s, pool.task)
  /\ pool' = [pool EXCEPT !.at = "store", !.sess = s]
  /\ UNCHANGED <<mainVars, tasks, audioSession, freed>>

StoreSession ==
  /\ PoolAt("store")
  /\ audioSession' = pool.sess /\ pool' = Idle
  /\ UNCHANGED <<mainVars, tasks, freed, sessionVars>>

\* Mutated form: the flag is left to the threads.
ClearNothing(s) == UNCHANGED isRunning

ClearRunning(s) == isRunning' = [isRunning EXCEPT ![s] = FALSE]

\* What follows Stop() in stopServices and in deinitAudio.
AfterStop == IF pool.task = "cleanup" THEN "delete" ELSE "playback"

\* AudioStreamSession::Stop begins: a session that has been deleted is undefined
\* behaviour, one that was stopped is left alone.
StopBegins ==
  /\ PoolAt("stop")
  /\ \/ /\ audioSession = NULL
        /\ pool' = [pool EXCEPT !.at = AfterStop] /\ UNCHANGED isRunning
     \/ /\ audioSession \in freed
        /\ pool' = [pool EXCEPT !.at = "crashed"] /\ UNCHANGED isRunning
     \/ /\ audioSession \in Session \ freed /\ ~isRunning[audioSession]
        /\ pool' = [pool EXCEPT !.at = AfterStop] /\ UNCHANGED isRunning
     \/ /\ audioSession \in Session \ freed /\ isRunning[audioSession]
        /\ ClearRunning(audioSession)
        /\ pool' = [pool EXCEPT !.at = "join network", !.sess = audioSession]
  /\ UNCHANGED <<mainVars, tasks, audioSession, freed, kind, network, ntp>>

JoinNetwork ==
  /\ PoolAt("join network") /\ network[pool.sess] = "ended"
  /\ pool' = [pool EXCEPT !.at = "join ntp"]
  /\ UNCHANGED <<mainVars, tasks, audioSession, freed, sessionVars>>

\* Mutated form: does not wait for the SNTP thread.
JoinNothing ==
  /\ PoolAt("join ntp")
  /\ pool' = [pool EXCEPT !.at = AfterStop]
  /\ UNCHANGED <<mainVars, tasks, audioSession, freed, sessionVars>>

JoinNTP ==
  /\ PoolAt("join ntp") /\ ntp[pool.sess] = "ended"
  /\ pool' = [pool EXCEPT !.at = AfterStop]
  /\ UNCHANGED <<mainVars, tasks, audioSession, freed, sessionVars>>

\* deinitAudio reads audioSession again, and leaves it as it is.
DeleteSession ==
  /\ PoolAt("delete")
  /\ freed' = freed \cup ({audioSession} \ {NULL})
  /\ pool' = [pool EXCEPT !.at = IF audioSession \in freed THEN "crashed" ELSE "playback"]
  /\ UNCHANGED <<mainVars, tasks, audioSession, sessionVars>>

\* audioplayer_stopPlayback, or audioplayer_cleanup.
StopPlayback ==
  /\ PoolAt("playback")
  /\ pool' = Idle
  /\ UNCHANGED <<mainVars, tasks, audioSession, freed, sessionVars>>
-----------------------------------------------------------------------------
(* The threads of a session.                                               *)

Step(thread, s, from, to) == thread[s] = from /\ thread' = [thread EXCEPT ![s] = to]

\* A sender waits for clients, a receiver for its codec; neither says BYE
\* when it is stopped before that, or if it cannot start.
NetworkStarts(s) ==
  /\ \/ isRunning[s] /\ Step(network, s, "starting", "streaming")
     \/ Step(network, s, "starting", "ended")
  /\ UNCHANGED <<mainVars, coreVars, kind, isRunning, ntp>>

\* The stream ends or the session is stopped: it says BYE.
BYEDestroyBegins(s) ==
  /\ Step(network, s, "streaming", "bye")
  /\ UNCHANGED <<mainVars, coreVars, kind, isRunning, ntp>>

BYEDestroyEnds(s) ==
  /\ Step(network, s, "bye", IF kind[s] = "listen" THEN "playing" ELSE "ended")
  /\ UNCHANGED <<mainVars, coreVars, kind, isRunning, ntp>>

\* A receiver plays on until it is stopped.
PlayingEnds(s) ==
  /\ ~isRunning[s]
  /\ Step(network, s, "playing", "ended")
  /\ UNCHANGED <<mainVars, coreVars, kind, isRunning, ntp>>

\* The SNTP thread of a receiver asks the server for the time, and sends its
\* offset if it is answered.
AskTime(s) ==
  /\ kind[s] = "listen" /\ isRunning[s]
  /\ Step(ntp, s, "checking", "asking")
  /\ UNCHANGED <<mainVars, coreVars, kind, isRunning, network>>

TimeAnswered(s) ==
  /\ Step(ntp, s, "asking", "checking")
  /\ UNCHANGED <<mainVars, coreVars, kind, isRunning, network>>

\* The thread of a sender serves until it is stopped, or its server fails.
NTPEnds(s) ==
  /\ ~isRunning[s] \/ kind[s] # "listen"
  /\ Step(ntp, s, "checking", "ended")
  /\ UNCHANGED <<mainVars, coreVars, kind, isRunning, network>>

Main ==
  \/ \E s \in Session : PlayAsset(s)
  \/ PlayAssetReturns
  \/ PlayFile \/ DownloadDone \/ PauseCasting \/ StopCasting
  \/ StartListening \/ ServiceResolved \/ LeaveActivity \/ DestroyService

Pool ==
  \/ TakeTask \/ (\E s \in Session : CreateSession(s)) \/ StoreSession
  \/ StopBegins \/ JoinNetwork \/ JoinNTP \/ DeleteSession \/ StopPlayback

NetworkThread(s) ==
  NetworkStarts(s) \/ BYEDestroyBegins(s) \/ BYEDestroyEnds(s) \/ PlayingEnds(s)

NTPThread(s) == AskTime(s) \/ TimeAnswered(s) \/ NTPEnds(s)

Next ==
  \/ Main \/ Pool
  \/ \E s \in Session : NetworkThread(s) \/ NTPThread(s)

(* Threads are scheduled; the stages of a stopped session's threads have   *)
(* timeouts and look at isRunning.  That a stream ends by itself, that a   *)
(* sender gets clients or that the user does anything is not assumed.      *)
Fairness ==
  /\ WF_vars(Pool) /\ WF_vars(PlayAssetReturns)
  /\ \A s \in Session :
       /\ WF_vars(~isRunning[s] /\ NetworkThread(s))
       /\ WF_vars(~isRunning[s] /\ NTPThread(s))

Spec == Init /\ [][Next]_vars /\ Fairness
-----------------------------------------------------------------------------
(* Properties.                                                             *)

Stages == {"none", "starting", "streaming", "bye", "playing", "ended"}

TypeOK ==
  /\ main \in Session \cup {NULL} /\ casting \in {"stopped", "playing", "paused"}
  /\ downloads \in Nat /\ resolving \in Nat /\ mayListen \in BOOLEAN
  /\ calls \in 0 .. MaxCalls /\ lastCall \in {"none", "start", "asset", "stop"}
  /\ tasks \in Seq({"file", "listen", "stop", "cleanup"})
  /\ pool \in [task : {"none", "file", "listen", "stop", "cleanup"},
               at : {"idle", "create", "store", "stop", "join network", "join ntp", "delete",
                     "playback", "crashed"},
               sess : Session \cup {NULL}]
  /\ audioSession \in Session \cup {NULL} /\ freed \subseteq Session
  /\ kind \in [Session -> {"none", "asset", "file", "listen"}]
  /\ isRunning \in [Session -> BOOLEAN]
  /\ network \in [Session -> Stages]
  /\ ntp \in [Session -> {"none", "checking", "asking", "ended"}]

Ended(s) == network[s] = "ended" /\ ntp[s] = "ended"
Joining(s) == pool.at \in {"join network", "join ntp"} /\ pool.sess = s
Crashed == pool.at = "crashed"

\* Every call has had its effect.
Quiet == tasks = <<>> /\ PoolAt("idle") /\ main = NULL

(* Line 29 of AudioStreamSession.h, "Should kill them all": a session that *)
(* has been stopped has no thread any more, once Stop has returned.        *)
StoppedThreadsEnded == \A s \in Session : ~isRunning[s] /\ ~Joining(s) => Ended(s)

(* A session that was started in the pool is only deleted when none of its *)
(* threads can use it any more: deinitAudio relies on Stop for that, which *)
(* does nothing for a session that was stopped before.  A local track that *)
(* is started between the two is deleted although it runs.                 *)
DeletedIsQuiet == \A s \in freed : kind[s] # "asset" => Ended(s)

(* Lines 95 and 106 of AudioCore.java, "Starts the server", "Starts the    *)
(* clients": when the last call was a start that took its turn in the pool *)
(* and every call has had its effect, the session it has left behind has   *)
(* not been stopped, whatever the main thread started meanwhile.           *)
StartedAtLast == Quiet /\ lastCall = "start" => audioSession # NULL /\ isRunning[audioSession]

(* Every task of the pool comes to an end, whatever the session it stops   *)
(* is doing.                                                               *)
TasksFinish == tasks # <<>> ~> (tasks = <<>> /\ PoolAt("idle")) \/ Crashed

(* Stopping and deleting sessions (AudioStreamSession.h:27 to 40,          *)
(* AudioCore.cpp:98 to 105) leaves no thread behind that could use one.    *)
StopsCleanly == StoppedThreadsEnded /\ DeletedIsQuiet
=============================================================================
